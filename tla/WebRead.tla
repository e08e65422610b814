------------------------------- MODULE WebRead -------------------------------
(***************************************************************************)
(* serveObject (src/web.ts) over any object store: a client downloads one  *)
(* object, resumes what was cut off and asks for other ranges, while the   *)
(* object is replaced or deleted.  Between the HEAD, the GET, the GETs of  *)
(* further parts and the last byte anything may happen; what lies between   *)
(* two awaits is one action.                                               *)
(*                                                                         *)
(* The store, the client and whoever writes the object are external.  A    *)
(* byte is named by the version of the object it belongs to and its        *)
(* position.                                                               *)
(***************************************************************************)
EXTENDS ReadStores, FiniteSets

CONSTANTS Stores,      \* the kinds of store to consider
          Probes,      \* requests the client may make besides its download
          Sizes,       \* sizes an object may have
          MaxReads,    \* maxBackendReads
          SpanBytes,   \* SPAN_READ_BYTES
          MaxTime,     \* bound: seconds that pass
          MaxVersions, \* bound: versions of the object
          MaxRequests  \* bound: requests of the client

\* The stores there are: only fsStore has a cache, only gcsStore reads of former
\* generations, whose tags are strong; and one whose GET reports no validators
\* honours the pin (GetObjectOptions: a store that cannot pin is guarded by the
\* validators of its answer).
StoreKinds ==
    {s \in [adapter : {"s3", "azure", "r2", "http", "memory", "gcs", "fs", "custom"},
            tag : {"strong", "weak", "none"}, dates : BOOLEAN, tells : BOOLEAN,
            matches : BOOLEAN, loose : BOOLEAN, keeps : BOOLEAN, ttl : Nat] :
        /\ s.ttl > 0 => s.adapter = "fs"
        /\ s.adapter = "gcs" => s.tag = "strong"
        /\ s.tells \/ (s.adapter = "custom" /\ s.tag = "strong" /\ s.matches)}

\* The requests there are, as the parsers of their headers leave them.
Specs == {spec \in [first : Nat \cup {None}, last : Nat \cup {None}] :
             spec.first # None \/ spec.last # None}
Tags == [strong : BOOLEAN, of : Seq(Nat)]
TagLists == {None, AnyTag} \cup SUBSET Tags
Dates == Nat \cup {None}
AnyRequest ==
    [head : BOOLEAN, specs : Seq(Specs),
     ifRange : {None} \cup [tag : Tags \cup {None}, date : Dates],
     ifMatch : TagLists, ifNoneMatch : TagLists,
     ifModifiedSince : Dates, ifUnmodifiedSince : Dates]

ASSUME WebReadAssumption ==
    /\ Sizes \subseteq Nat
    /\ MaxReads \in Nat \ {0} /\ SpanBytes \in Nat
    /\ MaxTime \in Nat /\ MaxVersions \in Nat /\ MaxRequests \in Nat
    /\ Stores \subseteq StoreKinds /\ Probes \subseteq AnyRequest

\* None is nothing else.
ASSUME NoneAssumption ==
    /\ None \notin Int /\ None \notin Tags /\ None # AnyTag
    /\ None \notin [v : Nat, size : Nat, mtime : Nat]
    /\ None \notin [kind : {"range"}, start : Nat, end : Nat \cup {None}]
    /\ None \notin [tag : Tags \cup {None}, date : Dates]

VARIABLES store,    \* the kind of this store, fixed
          now,      \* seconds
          object,   \* the present version, or None
          cache,    \* the entry of fsStore's cache, or None
          versions, \* every version there was
          requests, \* bound: requests so far
          srv,      \* the handling of the request: where it stands, its locals
          client    \* what the client holds of its download

vars == <<store, now, object, versions, cache, requests, srv, client>>

Objects == [v : 1..MaxVersions, size : Sizes, mtime : 0..MaxTime]
BytesOf(o, start, n) == [i \in 1..n |-> [v |-> o.v, pos |-> start + i - 1]]
World == <<store, now, object, versions, requests>>
Still == <<World, cache>>

Plain == [head |-> FALSE, specs |-> <<>>, ifRange |-> None, ifMatch |-> None,
          ifNoneMatch |-> None, ifModifiedSince |-> None, ifUnmodifiedSince |-> None]
NoHeaders == [status |-> 0, tag |-> None, date |-> None, total |-> 0, at |-> 0]
Quiet == [pc |-> "idle", req |-> Plain, attempt |-> 0, meta |-> None, multi |-> FALSE,
          plan |-> <<>>, first |-> None, reading |-> None, headers |-> NoHeaders,
          out |-> <<>>, whole |-> FALSE]
Nothing == [held |-> <<>>, tag |-> None, date |-> None, sure |-> FALSE, total |-> 0]

TypeOK ==
    /\ store \in Stores
    /\ now \in 0..MaxTime /\ requests \in 0..MaxRequests
    /\ ToSet(versions) \subseteq Objects /\ Len(versions) <= MaxVersions
    /\ object \in {None} \cup {versions[i] : i \in DOMAIN versions \cap {Len(versions)}}
    /\ cache # None => cache.of \in Objects /\ cache.body \in Objects \cup {None} /\ cache.till \in Nat
    /\ srv.pc \in {"idle", "speculating", "heading", "getting", "opening", "streaming",
                   "parting", "answered"}
    /\ srv.attempt \in 0..1
    /\ {srv.meta, srv.first, srv.reading} \subseteq Objects \cup {None}
    /\ srv.headers.status \in {0, 200, 206, 304, 404, 412, 416, 502, 503}
    /\ \A i \in DOMAIN srv.plan : srv.plan[i].start <= srv.plan[i].end
    /\ client.total \in Sizes \cup {0} /\ client.sure \in BOOLEAN

-------------------------------------------------------------------------------
(* The object and its store *)

\* What the headers make of a version, as a HEAD and as a GET reports it.
RawTag(o) == TagAt(store, o)
DateOf(o) == DateAt(store, o)
TagOf(o) == GenerateETag(RawTag(o), o.size, DateOf(o))
ReadTag(o) == IF store.tells THEN TagOf(o) ELSE None
ReadDate(o) == IF store.tells THEN DateOf(o) ELSE None

\* A new version, modified now or restored with an older time of its own.
Replace(size, mtime) ==
    /\ Len(versions) < MaxVersions
    /\ mtime = now \/ (mtime < now /\ \A i \in DOMAIN versions : versions[i].mtime # mtime)
    /\ object' = [v |-> Len(versions) + 1, size |-> size, mtime |-> mtime]
    /\ versions' = Append(versions, object')
    /\ UNCHANGED <<store, now, cache, requests, srv, client>>

Delete ==
    /\ object # None
    /\ object' = None
    /\ UNCHANGED <<store, now, versions, cache, requests, srv, client>>

Tick ==
    /\ now < MaxTime
    /\ now' = now + 1
    /\ UNCHANGED <<store, object, versions, cache, requests, srv, client>>

\* Another request of the process, begun when a version was current, writes it
\* to the cache of fsStore, or the entry makes room for another key.
WriteBack(o, body) ==
    /\ store.ttl > 0
    /\ cache' = CacheSet(store, cache, o, body /\ BodyIsCacheable(None, o), now)
    /\ UNCHANGED <<World, srv, client>>
Evict ==
    /\ cache # None
    /\ cache' = None
    /\ UNCHANGED <<World, srv, client>>

\* headObject, and getObject with what a HEAD pins: its tag if that is strong,
\* and of gcsStore its description.
Pinned(meta) == meta # None /\ RawTag(meta) # None /\ RawTag(meta).strong
Match == IF Pinned(srv.meta) THEN RawTag(srv.meta) ELSE None
Hit == CacheGet(cache, now)

StoreHead ==
    CASE store.adapter = "s3" -> S3HeadObject(object)
      [] store.adapter = "azure" -> AzureHeadObject(object)
      [] store.adapter = "r2" -> R2HeadObject(object)
      [] store.adapter = "http" -> HttpHeadObject(object)
      [] store.adapter = "memory" -> MemoryHeadObject(object)
      [] store.adapter = "gcs" -> GcsHeadObject(object)
      [] store.adapter = "fs" -> FsHeadObject(Hit, object)
      [] OTHER -> IF object = None THEN Missing ELSE Found(object, None)
CacheAfterHead == cache' = FsHeadCache(store, Hit, object, now)

\* gcsStore reads the metadata first when it has no pin it can use.
Measures == store.adapter = "gcs" /\ ~UsablePin(store, srv.meta, Match)

StoreGet(range, mood) ==
    CASE store.adapter = "s3" -> S3GetObject(store, object, range, Match)
      [] store.adapter = "azure" -> AzureGetObject(store, object, range, Match)
      [] store.adapter = "r2" -> R2GetObject(store, object, range, Match)
      [] store.adapter = "http" -> HttpGetObject(store, object, range, Match, mood)
      [] store.adapter = "memory" -> MemoryGetObject(store, object, range, Match)
      [] store.adapter = "gcs" -> GcsGetObject(store, srv.meta, object, range)
      [] store.adapter = "fs" -> FsGetObject(Hit, object, range)
      [] OTHER -> CustomGetObject(store, object, range, Match)
CacheAfterGet(range) == cache' = FsGetCache(store, Hit, object, range, now)

-------------------------------------------------------------------------------
(* Requests *)

HasConditional(req) ==
    \/ req.ifMatch # None \/ req.ifNoneMatch # None
    \/ req.ifModifiedSince # None \/ req.ifUnmodifiedSince # None
NeedsHead(req) == HasConditional(req) \/ req.ifRange # None \/ req.head \/ req.specs # <<>>

\* Path B: a plain single range that is no suffix, without a HEAD.
ParseFastRange(req) ==
    IF Len(req.specs) = 1 /\ req.specs[1].first # None
           /\ (req.specs[1].last = None \/ req.specs[1].first <= req.specs[1].last)
    THEN req.specs[1] ELSE None
Speculates(req) ==
    /\ AuthoritativeRange(store) /\ ~HasConditional(req) /\ req.ifRange = None /\ ~req.head
    /\ ParseFastRange(req) # None

Arrives(req) ==
    /\ srv.pc = "idle" /\ requests < MaxRequests
    /\ srv' = [Quiet EXCEPT !.req = req,
                            !.pc = IF Speculates(req) THEN "speculating"
                                   ELSE IF NeedsHead(req) THEN "heading" ELSE "getting"]
    /\ UNCHANGED <<store, now, object, versions, cache, client>>
Request(req) == Arrives(req) /\ requests' = requests + 1

\* Bound: a probe is the only request of its behaviour.  It leaves nothing with
\* the client, and the world does without it what it does before or after.
Probe(req) == Arrives(req) /\ requests = 0 /\ requests' = MaxRequests

\* A client resumes by a strong validator only: a tag, or a date that was a
\* second old when it was given (RFC 9110 section 13.1.5).
ResumeWith ==
    IF client.tag # None /\ client.tag.strong THEN [tag |-> client.tag, date |-> None]
    ELSE IF client.sure THEN [tag |-> None, date |-> client.date] ELSE None
Resume ==
    /\ client.held # <<>> /\ Len(client.held) < client.total
    /\ ResumeWith # None
    /\ Request([Plain EXCEPT !.specs = <<[first |-> Len(client.held), last |-> None]>>,
                             !.ifRange = ResumeWith])

-------------------------------------------------------------------------------
(* The handling *)

Answer(status) ==
    srv' = [srv EXCEPT !.pc = "answered", !.headers = [NoHeaders EXCEPT !.status = status]]

\* Of more parts than it may read one by one, the span is read at once, if it
\* is small enough; else the whole object is served.
Span(ranges) == RangeOf(Min({ranges[i].start : i \in DOMAIN ranges}),
                        Max({ranges[i].end : i \in DOMAIN ranges}))
SpanFits(ranges) == Span(ranges).end - Span(ranges).start < SpanBytes
Buffered(ranges) == Len(ranges) > MaxReads

\* What the HEAD's verdict leaves to serve: no range, one, or several.
Plan(meta, verdict) ==
    LET req == srv.req
        set == IF Len(req.specs) > 1 /\ IsRangeFresh(req, TagOf(meta), DateOf(meta), now)
               THEN ParseRanges(req.specs, meta.size) ELSE Ignored
    IN IF set = Unsatisfiable THEN Unsatisfiable
       ELSE IF set # Ignored /\ (Len(set.ranges) = 1 \/ ~Buffered(set.ranges)
                                     \/ SpanFits(set.ranges))
            THEN set
       ELSE [kind |-> "ranges",
             ranges |-> IF verdict.range = Ignored THEN <<>> ELSE <<verdict.range>>]

\* storeErrorResponse
Refused(answer) ==
    Answer(IF answer = Missing THEN 404 ELSE IF answer = Unavailable THEN 503 ELSE 502)

\* Path A: the HEAD and the evaluation of the request against it.
Evaluate(o) ==
    LET verdict == EvaluateConditionalRequest(srv.req, TagOf(o), DateOf(o), o.size, now)
        plan == Plan(o, verdict)
        status == IF verdict.status \in {200, 206} /\ ~srv.req.head /\ plan = Unsatisfiable
                  THEN 416 ELSE verdict.status
    IN \/ /\ status \in {304, 412, 416} \/ srv.req.head
          /\ srv' = [srv EXCEPT !.pc = "answered", !.meta = o,
                                !.headers = [status |-> status, at |-> now, total |-> o.size,
                                             tag |-> TagOf(o), date |-> DateOf(o)]]
       \/ /\ status \in {200, 206} /\ ~srv.req.head
          /\ srv' = [srv EXCEPT !.pc = "getting", !.meta = o, !.plan = plan.ranges,
                                !.multi = Len(plan.ranges) > 1]
HeadObject ==
    /\ srv.pc = "heading"
    /\ IF StoreHead.kind = "found" THEN Evaluate(StoreHead.of) ELSE Refused(StoreHead)
    /\ CacheAfterHead
    /\ UNCHANGED <<World, client>>

\* acceptRead: the validators of the read against those of the HEAD.  The
\* slip accepts every read.
Unchecked(tag, date) == TRUE
Comparable(a, b) == a # None /\ b # None /\ a.strong = b.strong
Accepted(tag, date) ==
    LET head == srv.meta IN
    IF head = None THEN TRUE
    ELSE IF Comparable(TagOf(head), tag) THEN TagOf(head) = tag
    ELSE DateOf(head) # None /\ date # None => DateOf(head) = date

\* Whether that compared anything, or a pin did.
Verified(tag, date) ==
    /\ srv.meta # None
    /\ \/ Comparable(TagOf(srv.meta), tag)
       \/ DateOf(srv.meta) # None /\ date # None
       \/ Pinned(srv.meta) \/ store.adapter = "gcs"

\* ObjectChangedError before the headers: validated again once.
Changed ==
    IF srv.meta # None /\ srv.attempt = 0
    THEN srv' = [Quiet EXCEPT !.req = srv.req, !.attempt = 1, !.pc = "heading"]
    ELSE Answer(502)

\* The headers of a read: its own validators, or the HEAD's if it is verified to
\* be the HEAD's representation.
HeadersOfRead(o, status) ==
    LET tag == ReadTag(o)
        date == ReadDate(o)
    IN [status |-> status, at |-> now, total |-> o.size,
        tag |-> IF tag # None \/ ~Verified(tag, date) THEN tag ELSE TagOf(srv.meta),
        date |-> IF date # None \/ ~Verified(tag, date) THEN date ELSE DateOf(srv.meta)]

Streams(answer, plan, headers) ==
    srv' = [srv EXCEPT !.pc = "streaming", !.first = answer.of, !.reading = answer.source,
                       !.plan = plan, !.headers = headers]

\* streamFromStore, with what the store answered: the span it served, not the
\* one asked for, makes the answer partial.
StreamFromStore(answer) ==
    IF answer = ObjectChanged THEN Changed
    ELSE IF answer.kind # "found" THEN Refused(answer)
    ELSE IF ~Accepted(ReadTag(answer.of), ReadDate(answer.of)) THEN Changed
    ELSE Streams(answer, IF answer.range = None THEN <<>> ELSE <<answer.range>>,
                 HeadersOfRead(answer.of, IF answer.range = None THEN 200 ELSE 206))

\* The whole object or one range of it.
GetObject(mood) ==
    LET range == IF srv.plan = <<>> THEN None ELSE srv.plan[1] IN
    /\ srv.pc = "getting" /\ ~srv.multi
    /\ mood \in Moods(store)
    /\ ~Measures
    /\ StreamFromStore(StoreGet(range, mood))
    /\ CacheAfterGet(range)
    /\ UNCHANGED <<World, client>>

\* gcsStore without a pin: the metadata first, the generation it names then.
MeasureObject ==
    LET answer == DescribeGcsObject(store, object, Match) IN
    /\ srv.pc = "getting" /\ ~srv.multi
    /\ Measures
    /\ IF answer.kind = "found" THEN srv' = [srv EXCEPT !.pc = "opening", !.reading = answer.of]
       ELSE StreamFromStore(answer)
    /\ UNCHANGED <<Still, client>>
OpenObject ==
    /\ srv.pc = "opening"
    /\ StreamFromStore(GcsGetObject(store, srv.reading, object, None))
    /\ UNCHANGED <<Still, client>>

\* Path B: what would be a 502 is left to Path A.
Speculate(mood) ==
    LET asked == ParseFastRange(srv.req)
        range == RangeOf(asked.first, asked.last)
        answer == StoreGet(range, mood)
    IN
    /\ srv.pc = "speculating"
    /\ mood \in Moods(store)
    /\ IF answer.kind \in {"failed", "changed"} THEN srv' = [srv EXCEPT !.pc = "heading"]
       ELSE StreamFromStore(answer)
    /\ CacheAfterGet(range)
    /\ UNCHANGED <<World, client>>

\* An overloaded backend says so: the answer is 503, and the rest of an answer
\* already begun is reset.
Throttle ==
    /\ Throttles(store)
    /\ \/ srv.pc \in {"speculating", "heading", "getting", "opening"}
          /\ Refused(ClassifyStoreRead(503, S3Classifiers))
       \/ srv.pc = "parting" /\ srv' = [srv EXCEPT !.pc = "answered"]
    /\ UNCHANGED <<Still, client>>

\* servedSpanMatches.  The slip looks at the first byte.
StartMatches(asked, served) == served # None /\ served.start = asked.start
ServedSpanMatches(asked, served) == served = asked

\* serveMultipart: the read of the first part, or of the span of all, must be
\* served as asked.  The headers are the HEAD's.
GetFirstPart(mood) ==
    LET asked == IF Buffered(srv.plan) THEN Span(srv.plan) ELSE srv.plan[1]
        answer == StoreGet(asked, mood)
        described == Verified(ReadTag(answer.of), ReadDate(answer.of))
    IN
    /\ srv.pc = "getting" /\ srv.multi
    /\ mood \in Moods(store)
    /\ IF answer = ObjectChanged THEN Changed
       ELSE IF answer.kind # "found" THEN Refused(answer)
       ELSE IF ~ServedSpanMatches(asked, answer.range) THEN Changed
       ELSE IF ~Accepted(ReadTag(answer.of), ReadDate(answer.of)) THEN Changed
       ELSE Streams(answer, srv.plan,
                    [status |-> 206, at |-> now, total |-> srv.meta.size,
                     tag |-> IF described THEN TagOf(srv.meta) ELSE None,
                     date |-> IF described THEN DateOf(srv.meta) ELSE None])
    /\ CacheAfterGet(asked)
    /\ UNCHANGED <<World, client>>

\* The bytes a response still owes for its current part.
Part == IF srv.plan = <<>> THEN RangeOf(0, srv.headers.total - 1)
        ELSE srv.plan[Len(srv.out) + 1]
Length(range) == range.end - range.start + 1
Sends(n) == srv.out \o <<BytesOf(srv.reading, Part.start, n)>>

\* The source of a part ends after n bytes.  Ended as it should, the part and
\* with the last the response is delivered to the byte; else the response errors
\* (boundBody, the guards of the stores), as it does when the client leaves.
Deliver ==
    /\ srv.pc = "streaming"
    /\ \E n \in {0, 1, Length(Part), Length(Part) + 1} :
          LET more == Len(srv.out) + 1 < Len(srv.plan)
              passed == Sends(Passed(n, Length(Part)))
          IN srv' = IF ~EndsWell(n, Length(Part))
                    THEN [srv EXCEPT !.out = passed, !.pc = "answered"]
                    ELSE [srv EXCEPT !.out = passed, !.whole = ~more,
                                     !.pc = IF ~more THEN "answered"
                                            ELSE IF Buffered(srv.plan) THEN "streaming"
                                            ELSE "parting"]
    /\ UNCHANGED <<Still, client>>

\* sameRepresentation, of the store's own validators.  The slip leaves a part to
\* the check of its span.
SameSpan(a, b) == TRUE
SameRepresentation(a, b) ==
    IF ~store.tells THEN TRUE
    ELSE IF RawTag(a) # None THEN RawTag(a) = RawTag(b)
    ELSE DateOf(a) # None => DateOf(a) = DateOf(b)

\* The read of a further part, after the headers: all a failure or a mismatch
\* can do is to reset the response.
NextPart(mood) ==
    LET asked == srv.plan[Len(srv.out) + 1]
        answer == StoreGet(asked, mood)
    IN
    /\ srv.pc = "parting"
    /\ mood \in Moods(store)
    /\ srv' = IF /\ answer.kind = "found"
                 /\ ServedSpanMatches(asked, answer.range)
                 /\ SameRepresentation(srv.first, answer.of)
              THEN [srv EXCEPT !.pc = "streaming", !.reading = answer.source]
              ELSE [srv EXCEPT !.pc = "answered"]
    /\ CacheAfterGet(asked)
    /\ UNCHANGED <<World, client>>

-------------------------------------------------------------------------------
(* The client takes the answer: a full body replaces what it holds, a part *)
(* asked for with If-Range is appended, whole or not.                      *)

Resumed == srv.req.ifRange # None /\ Len(srv.req.specs) = 1
Take ==
    /\ srv.pc = "answered"
    /\ client' =
          IF srv.headers.status = 200 /\ ~srv.req.head /\ srv.out # <<>>
          THEN [held |-> srv.out[1], tag |-> srv.headers.tag, date |-> srv.headers.date,
                sure |-> srv.headers.date # None /\ srv.headers.at > srv.headers.date,
                total |-> srv.headers.total]
          ELSE IF srv.headers.status = 206 /\ Resumed
                      /\ srv.plan[1].start = Len(client.held)
          THEN [client EXCEPT !.held = @ \o srv.out[1]]
          ELSE client
    /\ srv' = Quiet
    /\ UNCHANGED Still

Init ==
    /\ store \in Stores
    /\ now = 0 /\ object = None /\ versions = <<>> /\ cache = None /\ requests = 0
    /\ srv = Quiet /\ client = Nothing

Next ==
    \/ \E size \in Sizes, mtime \in 0..MaxTime : Replace(size, mtime)
    \/ Delete \/ Tick
    \/ (\E i \in DOMAIN versions, body \in BOOLEAN : WriteBack(versions[i], body)) \/ Evict
    \/ Request(Plain) \/ Resume \/ (\E req \in Probes : Probe(req))
    \/ HeadObject
    \/ \E mood \in {"range", "whole", "garbled"} :
           Speculate(mood) \/ GetObject(mood) \/ GetFirstPart(mood) \/ NextPart(mood)
    \/ MeasureObject \/ OpenObject \/ Throttle
    \/ Deliver \/ Take

Spec == Init /\ [][Next]_vars

-------------------------------------------------------------------------------
(* Properties *)

Sent == UNION {{[part |-> i, at |-> j, byte |-> srv.out[i][j]] : j \in DOMAIN srv.out[i]} :
                   i \in DOMAIN srv.out}
Source(byte) == versions[byte.v]
Serving == srv.headers.status \in {200, 206}
Described == srv.headers.tag # None \/ srv.headers.date # None

\* The types, and what every stream relies on: the version being read holds the
\* part the response still owes, so that the length committed in its headers can
\* be kept.
Inv ==
    /\ TypeOK
    /\ srv.pc = "streaming" => Part.end < srv.reading.size /\ Length(Part) >= 0

\* Whatever is replaced between the HEAD, the GET, the GETs of further parts and
\* the end of the body, each byte belongs to a version that the tag, the date and
\* the size in the headers describe: what a cache stores under a validator is
\* what the validator names (acceptRead, sameRepresentation, the retry).  Only of
\* several parts from a store without tags of its own is less true: their reads
\* are compared by date alone, never by the size the headers' weak tag is made of.
HeadersDescribeBody ==
    Serving => \A sent \in Sent :
        LET o == Source(sent.byte) IN
        /\ srv.headers.date \in {None, DateOf(o)}
        /\ ~srv.multi \/ store.tag # "none" =>
              /\ srv.headers.tag \in {None, TagOf(o)}
              /\ Described => srv.headers.total = o.size

\* A client that keeps what a broken download gave it and appends what it gets
\* for the rest under If-Range holds the bytes of one version, in their places,
\* however the object changed between its requests and while each was answered.
ResumeAssemblesOne ==
    store.ttl = 0 => \A i \in DOMAIN client.held :
        client.held[i] = [v |-> client.held[1].v, pos |-> i - 1]

\* What a response delivered in full holds is what was asked of the object its
\* headers describe: every requested byte, none twice, none but the small gaps
\* between requested ones, the parts in the order of the request; and 416 says
\* that no requested byte exists.  (Of a store without validators an object that
\* changed behind the HEAD is answered with the bytes asked of the former one.)
Requested(spec, pos, size) ==
    IF spec.first = None THEN pos >= size - spec.last
    ELSE pos >= spec.first /\ (spec.last # None => pos <= spec.last)
Wanted(size) == {pos \in 0..size - 1 :
                    \E i \in DOMAIN srv.req.specs : Requested(srv.req.specs[i], pos, size)}
FirstAsking(range) ==
    CHOOSE i \in DOMAIN srv.req.specs :
        LET Touches(j) == \E pos \in range.start..range.end :
                              Requested(srv.req.specs[j], pos, srv.headers.total)
        IN Touches(i) /\ \A j \in 1..i - 1 : ~Touches(j)
RangesAnswerRequest ==
    LET wanted == Wanted(srv.headers.total)
        given == {sent.byte.pos : sent \in Sent}
    IN /\ Serving /\ srv.whole => Cardinality(given) = Cardinality(Sent)
       /\ srv.headers.status = 206 /\ srv.whole /\ Described =>
             /\ wanted \subseteq given
             /\ \A pos \in given \ wanted : \E a, b \in wanted :
                   a < pos /\ pos < b /\ b - a - 1 <= Gap
             /\ \A i, j \in DOMAIN srv.plan :
                   i < j => FirstAsking(srv.plan[i]) < FirstAsking(srv.plan[j])
       /\ srv.headers.status = 200 /\ srv.whole => given = 0..srv.headers.total - 1
       /\ srv.headers.status = 416 => wanted = {}

\* The condition of a request is decided on a HEAD and its body read later: no
\* byte goes out under If-Match of a version it does not name, under
\* If-Unmodified-Since of one modified later, or under If-None-Match of one the
\* client said it has, though the object may change between the two.  (Parts of
\* a store without tags are compared by date alone: the second may be of a size
\* that makes its weak tag the one the client has.)
ConditionsHoldOfBody ==
    Serving => \A sent \in Sent :
        LET o == Source(sent.byte) IN
        /\ srv.req.ifMatch \notin {None, AnyTag} => TagOf(o) \in srv.req.ifMatch
        /\ srv.req.ifUnmodifiedSince # None /\ srv.req.ifMatch = None /\ DateOf(o) # None
              => o.mtime <= srv.req.ifUnmodifiedSince
        /\ srv.req.ifNoneMatch # None /\ (~srv.multi \/ store.tag # "none")
              => TagOf(o) \notin srv.req.ifNoneMatch
===============================================================================
