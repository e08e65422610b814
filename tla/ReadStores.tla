------------------------------ MODULE ReadStores ------------------------------
(***************************************************************************)
(* The object stores of src: what headObject tells of an object and what    *)
(* getObject gives of it, with the failures of each backend made into the   *)
(* errors of the contract (src/object-store.ts).                           *)
(*                                                                         *)
(* A version of the object is a record with v, size and mtime; None is an   *)
(* object that is not there.  A store s is its adapter and what there is to *)
(* know of its backend: the validators it keeps (tag, dates) and whether a  *)
(* GET reports them (tells), whether it honours If-Match (matches), may     *)
(* ignore Range or garble Content-Range (loose), keeps former generations   *)
(* (keeps), and for fsStore how long its cache is trusted (ttl, 0 without).  *)
(***************************************************************************)
EXTENDS ReadKernel

CONSTANT SmallReadLimit   \* SMALL_READ_LIMIT
ASSUME SmallReadAssumption == SmallReadLimit \in Nat

-------------------------------------------------------------------------------
(* Answers: the errors of the contract, or the version an answer describes,  *)
(* the one its bytes come from and the span served, None when it is whole.   *)

Missing == [kind |-> "missing"]          \* ObjectNotFoundError
ObjectChanged == [kind |-> "changed"]    \* ObjectChangedError
Unavailable == [kind |-> "unavailable"]  \* StoreUnavailableError
Failed == [kind |-> "failed"]            \* any other error
FoundIn(o, source, range) == [kind |-> "found", of |-> o, source |-> source, range |-> range]
Found(o, range) == FoundIn(o, o, range)

\* What a backend keeps of a version.
TagAt(s, o) ==
    IF s.tag = "strong" THEN Strong(<<o.v>>) ELSE IF s.tag = "weak" THEN Weak(<<o.v>>) ELSE None
DateAt(s, o) == IF s.dates THEN o.mtime ELSE None

\* A range as an adapter hands it on, open-ended when its end is None, and the
\* span a backend serves of it.
Clamped(range, o) ==
    IF range = None THEN None
    ELSE RangeOf(range.start, IF range.end = None THEN o.size - 1 ELSE Min({range.end, o.size - 1}))
Beyond(range, o) == range # None /\ range.start >= o.size

\* The status of a conditional, ranged GET.
Status(s, o, range, match) ==
    IF o = None THEN 404
    ELSE IF match # None /\ TagAt(s, o) # match THEN 412
    ELSE IF Beyond(range, o) THEN 416
    ELSE 200

Throttled == {429, 503}
ClassifyStoreRead(status, classifiers) ==
    IF status \in classifiers.notFound THEN Missing
    ELSE IF status \in classifiers.changed THEN ObjectChanged
    ELSE IF status \in Throttled THEN Unavailable
    ELSE Failed

\* resolveServedRange of the span an origin states: one no object can have is
\* worth nothing.
Garbled(range) == RangeOf(range.end + 1, range.end)
ResolveServedRange(range, size) == ParseContentRange(range.start, range.end, size)

Read(s, o, range, match, classifiers) ==
    LET status == Status(s, o, range, match) IN
    IF status = 200 THEN Found(o, Clamped(range, o)) ELSE ClassifyStoreRead(status, classifiers)
HeadOf(o, classifiers) ==
    IF o = None THEN ClassifyStoreRead(404, classifiers) ELSE Found(o, None)

-------------------------------------------------------------------------------
(* The adapters that leave the pin and the range to their backend            *)

S3Classifiers == [notFound |-> {404}, changed |-> {412}]
S3HeadObject(o) == HeadOf(o, S3Classifiers)
S3GetObject(s, o, range, match) == Read(s, o, range, match, S3Classifiers)

AzureClassifiers == [notFound |-> {404}, changed |-> {412}]
AzureHeadObject(o) == HeadOf(o, AzureClassifiers)
AzureGetObject(s, o, range, match) == Read(s, o, range, match, AzureClassifiers)

\* The binding answers null for no object and leaves the body out when onlyIf
\* fails; the span is the one it says it served.
ServedSpan(o, range) == Clamped(range, o)
R2HeadObject(o) == IF o = None THEN Missing ELSE Found(o, None)
R2GetObject(s, o, range, match) ==
    IF o = None THEN Missing
    ELSE IF match # None /\ TagAt(s, o) # match THEN ObjectChanged
    ELSE IF Beyond(range, o) THEN Failed
    ELSE Found(o, ServedSpan(o, range))

\* Of the headers of a request to an origin, the adapter's own: If-Match is sent
\* for a strong tag only.  The origin may serve a range whole, with status 200,
\* or say nothing sensible of the span it serves.
RequestHeaders(range, match) ==
    [range |-> range, ifMatch |-> IF match # None /\ match.strong THEN match ELSE None]
HttpHeadObject(o) == IF o = None THEN Missing ELSE Found(o, None)
HttpGetObject(s, o, range, match, mood) ==
    LET headers == RequestHeaders(range, match)
        asked == IF mood = "whole" THEN None ELSE headers.range
        status == Status(s, o, asked, IF s.matches THEN headers.ifMatch ELSE None)
        stated == IF mood = "garbled" THEN Garbled(Clamped(asked, o)) ELSE Clamped(asked, o)
    IN IF status = 404 THEN Missing
       ELSE IF status = 412 THEN ObjectChanged
       ELSE IF status \in Throttled THEN Unavailable
       ELSE IF status # 200 THEN Failed
       ELSE IF asked = None THEN Found(o, None)
       ELSE IF ResolveServedRange(stated, o.size) = None THEN Failed
       ELSE Found(o, stated)

\* The map is read at once.
MemoryHeadObject(o) == IF o = None THEN Missing ELSE Found(o, None)
MemoryGetObject(s, o, range, match) ==
    IF o = None THEN Missing
    ELSE IF match # None /\ TagAt(s, o) # match THEN ObjectChanged
    ELSE IF Beyond(range, o) THEN Failed
    ELSE Found(o, Clamped(range, o))

\* A store of the consumer's own keeps the contract of ObjectStore.
CustomGetObject(s, o, range, match) ==
    LET status == Status(s, o, range, IF s.matches THEN match ELSE None) IN
    IF status = 404 THEN Missing ELSE IF status = 412 THEN ObjectChanged
    ELSE IF status = 416 THEN Failed ELSE Found(o, Clamped(range, o))

-------------------------------------------------------------------------------
(* gcsStore.  A generation is a version, so what a HEAD described is the pin *)
(* of the read: no metadata is fetched again, and the body is that           *)
(* generation's or none.  Without a pin the metadata is read first.          *)

GcsClassifiers == [notFound |-> {404}, changed |-> {}]
GcsPinnedClassifiers == [notFound |-> {}, changed |-> {404, 412}]
GcsHeadObject(o) == HeadOf(o, GcsClassifiers)

\* decodeGcsPin and the test of the pin: it is used when it has the tag asked for.
UsablePin(s, pin, match) == pin # None /\ (match = None \/ TagAt(s, pin) = match)

DescribeGcsObject(s, o, match) ==
    IF o # None /\ match # None /\ TagAt(s, o) # match THEN ObjectChanged
    ELSE HeadOf(o, GcsClassifiers)

\* openGcsRead, of the generation described: an overwrite removes it unless the
\* bucket keeps former ones, and its absence is then a change, not a 404.
OpenGcsRead(s, described, o) ==
    IF o = described \/ s.keeps THEN FoundIn(described, described, None)
    ELSE ClassifyStoreRead(404, GcsPinnedClassifiers)
GcsGetObject(s, described, o, range) ==
    LET opened == OpenGcsRead(s, described, o) IN
    IF Beyond(range, described) THEN Failed
    ELSE IF opened.kind # "found" THEN opened
    ELSE FoundIn(described, opened.source, Clamped(range, described))

-------------------------------------------------------------------------------
(* fsStore.  Stat, bounds and bytes come of one descriptor; the opt-in cache  *)
(* holds one entry here: what version it describes, whose body it has, if     *)
(* any, and until when.                                                    *)

\* cacheGet drops an entry whose time is over.
CacheGet(cache, now) == IF cache # None /\ cache.till >= now THEN cache ELSE None

\* cacheSet, of a version just read: without a body of its own it keeps the one
\* cached for the same tag.
CacheSet(s, cache, o, body, now) ==
    IF s.ttl = 0 THEN None
    ELSE [of |-> o, till |-> now + s.ttl,
          body |-> IF body THEN o ELSE IF cache # None /\ cache.of = o THEN cache.body ELSE None]

BodyIsCacheable(range, o) == range = None /\ o.size <= SmallReadLimit

ServedBounds(o, source, range) ==
    IF Beyond(range, o) THEN Failed ELSE FoundIn(o, source, Clamped(range, o))
PinnedRead(o, range) == IF o = None THEN Missing ELSE ServedBounds(o, o, range)

FsHeadObject(hit, o) ==
    IF hit # None THEN Found(hit.of, None) ELSE IF o = None THEN Missing ELSE Found(o, None)
FsHeadCache(s, hit, o, now) ==
    IF hit # None \/ o = None THEN hit ELSE CacheSet(s, hit, o, FALSE, now)

FsGetObject(hit, o, range) ==
    IF hit # None /\ hit.body # None THEN ServedBounds(hit.of, hit.body, range)
    ELSE PinnedRead(o, range)
FsGetCache(s, hit, o, range, now) ==
    IF (hit # None /\ hit.body # None) \/ PinnedRead(o, range).kind # "found" THEN hit
    ELSE CacheSet(s, hit, o, BodyIsCacheable(range, o), now)

-------------------------------------------------------------------------------
(* The store interface                                                     *)

AuthoritativeRange(s) == s.adapter \in {"s3", "azure", "r2", "http", "memory", "fs"}

\* The backends whose errors say that they are overloaded.
Throttles(s) == s.adapter \in {"s3", "azure", "gcs", "http"}

\* How a backend may treat a range: only a loose one does as it likes.
Moods(s) == IF s.loose THEN {"range", "whole", "garbled"} ELSE {"range"}

\* guardStreamLength, nodeStreamToWeb: of a source that delivers n bytes no more
\* than the length committed reach the reader, and it ends well only at exactly
\* that.
Passed(n, expected) == Min({n, expected})
EndsWell(n, expected) == n = expected
===============================================================================
