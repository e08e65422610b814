------------------------------ MODULE ReadKernel ------------------------------
(***************************************************************************)
(* The rules of src/kernel.ts that a read is decided by: ranges, the       *)
(* conditional headers and If-Range.  A header value is what its parser    *)
(* makes of it, a date a number of seconds, an entity tag a strength and   *)
(* the thing it names; a value no parser accepts is as if absent.          *)
(***************************************************************************)
EXTENDS Integers, Sequences, SequencesExt

CONSTANTS None,      \* an absent header, tag, date or position
          AnyTag,    \* the value * of If-Match and If-None-Match
          Gap,       \* COALESCE_GAP_BYTES
          MaxRanges  \* maxRanges

ASSUME KernelAssumption == Gap \in Nat /\ MaxRanges \in Nat \ {0}

-------------------------------------------------------------------------------
(* Ranges.  A spec is first-last; first- has no last, -last (a suffix) no   *)
(* first.                                                                  *)

Unsatisfiable == [kind |-> "unsatisfiable"]
Ignored == [kind |-> "ignored"]
RangeOf(start, end) == [kind |-> "range", start |-> start, end |-> end]

Suffix(length, size) ==
    IF length <= 0 THEN Unsatisfiable ELSE RangeOf(Max({0, size - length}), size - 1)

ParseOneRange(spec, size) ==
    IF spec.first = None THEN Suffix(spec.last, size)
    ELSE IF spec.last # None /\ spec.first > spec.last THEN Ignored
    ELSE IF spec.first >= size THEN Unsatisfiable
    ELSE RangeOf(spec.first,
                 IF spec.last = None THEN size - 1 ELSE Min({spec.last, size - 1}))

ParseRangeHeader(specs, size) ==
    IF size = 0 \/ Len(specs) # 1 THEN Ignored ELSE ParseOneRange(specs[1], size)

\* coalesceRanges: of the ranges in byte order, each that comes near enough to
\* the last is merged into it, and takes the earlier place of the two.  The
\* slip keeps the end of the later one.
Extended(last, next) == [last EXCEPT !.end = next.end, !.order = Min({@, next.order})]
Merged(last, next) ==
    [last EXCEPT !.end = Max({@, next.end}), !.order = Min({@, next.order})]
Near(last, next) == next.start <= last.end + 1 + Gap

Joined(done, next) ==
    IF done # <<>> /\ Near(Last(done), next)
    THEN Append(Front(done), Merged(Last(done), next))
    ELSE Append(done, next)

\* The elements of a finite set by ascending key; the order of those whose keys
\* are equal is open.
InOrder(S, key) ==
    CHOOSE s \in [1..Cardinality(S) -> S] :
        IsInjective(s) /\ \A i, j \in DOMAIN s : i < j => key[s[i]] <= key[s[j]]

\* What is merged of the first i.  Of ranges that start alike the code takes the
\* shorter first, which shows in nothing: each is merged into the first of them.
Coalesced(sorted) ==
    LET merged[i \in 0..Len(sorted)] ==
            IF i = 0 THEN <<>> ELSE Joined(merged[i - 1], sorted[i])
    IN merged
CoalesceRanges(ranges) ==
    LET sorted == InOrder(ranges, [r \in ranges |-> r.start])
    IN Coalesced(sorted)[Len(sorted)]

\* Every element must parse; those beyond the end are dropped; what is left is
\* coalesced, counted, and put back in the order of the request.
ParseRanges(specs, size) ==
    LET parsed == [i \in DOMAIN specs |-> ParseOneRange(specs[i], size)]
        found == {[start |-> parsed[i].start, end |-> parsed[i].end, order |-> i] :
                      i \in {j \in DOMAIN specs : parsed[j].kind = "range"}}
        coalesced == ToSet(CoalesceRanges(found))
        ordered == InOrder(coalesced, [r \in coalesced |-> r.order])
    IN IF size = 0 \/ specs = <<>> \/ \E i \in DOMAIN specs : parsed[i] = Ignored THEN Ignored
       ELSE IF found = {} THEN Unsatisfiable
       ELSE IF Len(ordered) > MaxRanges THEN Ignored
       ELSE [kind |-> "ranges",
             ranges |-> [i \in DOMAIN ordered |-> RangeOf(ordered[i].start, ordered[i].end)]]

\* parseContentRange, of what an origin says it served; the total may be unknown.
ParseContentRange(start, end, total) ==
    IF start > end \/ (total # None /\ end >= total) THEN None ELSE RangeOf(start, end)

-------------------------------------------------------------------------------
(* Validators *)

Strong(of) == [strong |-> TRUE, of |-> of]
Weak(of) == [strong |-> FALSE, of |-> of]

\* generateETag: the backend's own, or a weak one from size and time.
GenerateETag(tag, size, date) ==
    IF tag # None THEN tag ELSE IF date = None THEN None ELSE Weak(<<size, date>>)

StronglyMatches(tags, tag) == tag # None /\ tag.strong /\ tag \in tags
WeaklyMatches(tags, tag) == tag # None /\ \E t \in tags : t.of = tag.of

\* isPreconditionFailure, for an object that exists.
IsPreconditionFailure(req, tag, date) ==
    IF req.ifMatch # None THEN req.ifMatch # AnyTag /\ ~StronglyMatches(req.ifMatch, tag)
    ELSE req.ifUnmodifiedSince # None /\ date # None /\ date > req.ifUnmodifiedSince

\* isConditionalFresh: If-None-Match decides alone when it is there.
IsConditionalFresh(req, tag, date, now) ==
    IF req.ifNoneMatch # None
    THEN req.ifNoneMatch = AnyTag \/ WeaklyMatches(req.ifNoneMatch, tag)
    ELSE /\ req.ifModifiedSince # None /\ date # None
         /\ req.ifModifiedSince <= now /\ date <= req.ifModifiedSince

\* isRangeFresh: a tag must be strong and the same, a date the same and its
\* second over.  The slip compares dates as a cache does.
NotNewer(date, given, now) == date <= given
SameSecond(date, given, now) == date = given /\ now - date >= 1
IsRangeFresh(req, tag, date, now) ==
    \/ req.ifRange = None
    \/ req.ifRange # None /\ req.ifRange.tag # None /\ StronglyMatches({req.ifRange.tag}, tag)
    \/ /\ req.ifRange # None /\ req.ifRange.tag = None
       /\ date # None /\ SameSecond(date, req.ifRange.date, now)

\* evaluateConditionalRequest, in the order of RFC 9110 section 13.2.2.
EvaluateConditionalRequest(req, tag, date, size, now) ==
    LET range == IF ~req.head /\ req.specs # <<>> /\ IsRangeFresh(req, tag, date, now)
                 THEN ParseRangeHeader(req.specs, size) ELSE Ignored
    IN IF IsPreconditionFailure(req, tag, date) THEN [status |-> 412, range |-> Ignored]
       ELSE IF IsConditionalFresh(req, tag, date, now) THEN [status |-> 304, range |-> Ignored]
       ELSE IF range = Unsatisfiable THEN [status |-> 416, range |-> Ignored]
       ELSE [status |-> IF range = Ignored THEN 200 ELSE 206, range |-> range]
===============================================================================
