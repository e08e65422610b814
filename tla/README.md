# Verification of partial-content

TLA+ specifications of `partial-content`, a TypeScript library for serving and
receiving files over HTTP: range and conditional reads on one side, resumable uploads
on the other. Every definition is translated from the code under `src/src/`;
`PROJECT.json` names the lines each one stands for.

## The system

### Upload side

A dialect handler parses an HTTP request, calls the orchestrator, and renders its
outcome. The orchestrator takes a per-upload lock, reads the upload's state from a
store, asks the pure engine for a verdict on the request, and carries the verdict out
with the store.

| Component | Source | State | Operations | Talks to |
|---|---|---|---|---|
| Engine | `upload-engine.ts` | none | verdicts on creations, appends, probes | called by the orchestrator |
| Orchestrator | `upload-orchestrator.ts` | `deliveredCompletions`, one handling per request | create, append, probe, cancel, admit, resourceExists | locker (calls, preemption signals), store (calls, body stream), engine (calls), completion hook (awaited callback) |
| Locker | `upload-locker.ts` | Map of holders with FIFO queues, timers | acquire, release | aborts the holder's signal |
| Redis locker | `redis-locker.ts` | a key with a TTL, pub/sub channel, watchdog timers | acquire, renew, release, preempt | other processes through Redis |
| Store contract | `upload-store.ts` | - | create, state, append, complete, abort, claim, sweep | - |
| Memory store | `memory.ts` | record Map, the host program's objects | all of the contract | host program (shared object) |
| fs, s3, gcs, azure, r2 stores | `fs.ts`, `s3.ts`, `gcs.ts`, `azure.ts`, `r2.ts` | parts, chunks or blocks, a bookkeeping record under compare-and-swap | all of the contract | a backend |
| Record merging | `cas-merge.ts` | - | bounded CAS loop, merge of two writers' records | the records of s3, gcs and azure |
| Dialects | `tus.ts`, `upload.ts`, `upload-internals.ts` | none | parse, dispatch, render | orchestrator |

### Read side

| Component | Source | State | Operations |
|---|---|---|---|
| Kernel | `kernel.ts` | none | range parsing and coalescing, conditional requests and writes, Content-Range |
| Web serving | `web.ts` | one response's stream | HEAD, GET pinned to what HEAD saw, multipart bodies, length guards |
| Node bridge | `node.ts` | one response's pump | backpressure, disconnects |
| Read stores | `object-store.ts`, `http.ts`, the stores above | fs has an opt-in cache of small bodies | head, get |
| Codecs | `content-disposition.ts`, `encoding.ts`, `mime.ts`, `media-type.ts`, `cache-control.ts` | none | header text |

### Where it is hard

* **Interleaving.** Every `await` lets other requests in. The locker makes a newcomer
  abort the holder's signal, so every write can be cut short; a sweep takes no lock; a
  distributed lock can be lost without its holder knowing, so stores must protect
  their uploads even from unlocked writers.
* **Truncation that looks like an end.** A body cut off by a preemption, a departing
  client or a broken connection must never be taken for the whole.
* **At-least-once completion.** Publication, the completion hook and the answer are
  three steps; the retry and the probe are the only redelivery there is.
* **Arithmetic of bounds.** A known length, the policy's maximum and the per-append
  ceiling meet in one byte bound whose crossing may or may not be fatal; a total fixed
  too early can make an upload impossible to finish.
* **Crash between publish and record**, in stores whose publication and bookkeeping
  are two writes, or twenty requests to a service.
* **Answers that never come.** A conditional write that landed unheard fails when
  repeated; a client that gave up waiting probes while its append still runs.
* **Two dialects, one upload.** tus has no word for completeness: its last byte has to
  publish, and its probe has to make up for a last byte that did not.
* **Objects replaced between HEAD and GET**, on the read side, between the two
  requests of one read, and behind a cache.

What makes each component correct:

* *Locker*: one live lock per upload; no waiter lost; every wait presses on the
  present holder; first come, first served; queues drain without timers.
* *Engine*: nothing outgrows its representation; nothing is published short; an open
  upload can always be finished; only bytes that landed past a bound end an upload.
* *Store*: acknowledged bytes stand; an upload is published whole, once, and only over
  the object its plan sealed; a seal never outlives its completions.
* *Cloud stores*: the same, over a service that offers a conditional write of one
  object at a time; nothing is stranded at the service once the record is gone.
* *Orchestrator*: an offset told is durable and exact; a truncated body is never
  published; nobody hears of a completion before it was reported; an announced end has
  freed the upload; every waiter gets its turn and every abandoned request ends.
* *Dialects*: no client is told more than is durable, or left without the location of
  what was made for it; one that goes away satisfied has been published, and every
  client gets there.
* *Redis locker*: a hold that is believed is backed by the key; a failed or released
  one leaves no key behind; late commands never free somebody else's hold; waiters
  reach the present holder; no acquire outlives its deadline.
* *Reads*: the bytes of a response belong to the representation its headers describe,
  answer the request and its conditions, and add up across resumptions.

## The modules

| Module | Models | Kind |
|---|---|---|
| `UploadLock` | the `UploadLocker` interface | abstract specification |
| `UploadLocker` | `memoryUploadLocker` | component, implements `UploadLock` |
| `UploadLockerProofs` | - | theorems about `UploadLocker` |
| `UploadEngine` | `upload-engine.ts`, `validatePolicy` | operators |
| `UploadRequest` | what the orchestrator derives from a request and a verdict | operators |
| `UploadDialogue` | one upload through any sequence of whole requests | component |
| `ResumableUpload` | the contract of `upload-store.ts` | abstract specification |
| `MemoryUploadStore` | `memoryUploadStore`, step by step between awaits | component |
| `MemoryStoreUnlocked` | that store under any callers, no lock | composition, implements `ResumableUpload` |
| `UploadProofs` | - | theorems about `MemoryStoreUnlocked` |
| `UploadOrchestrator` | the orchestrator over that locker and that store | composition |
| `OrchestratorProofs` | - | theorems about `UploadOrchestrator`, over those of `UploadLockerProofs` |
| `FsUploadStore` | one upload of `fsUploadStore`, a file operation a step | component |
| `FsProofs` | - | theorems about `FsUploadStore` |
| `CloudUpload` | what the stores over a cloud service share: the record and its merging, the key, the calls | base of the four below |
| `GcsUploadStore` | one upload of `gcsUploadStore`: chunks, folds, composition | component |
| `AzureUploadStore` | one upload of `azureUploadStore`: blocks staged on the key, sentinel, ledger | component |
| `R2UploadStore` | one upload of `r2UploadStore`: parts, parked tails, the manifest | component |
| `S3UploadStore` | one upload of `s3UploadStore`: parts, one tail slot, the sidecar | component |
| `CloudStores` | one upload in one of those stores, and what all four owe | composition |
| `StoreProofs` | - | proofs about those four stores: what they share, a theorem about each and of all, and the bytes of azure |
| `UploadDialects` | the handlers of `tus.ts` and `upload.ts`, and a client of theirs | component over `UploadRequest` and `UploadEngine` |
| `EngineProofs` | - | theorems about `UploadDialogue` and `UploadDialects`, and about the operators of `UploadEngine` |
| `RedisLocker` | `redisUploadLocker`, its server and connection external | component |
| `RedisLockerProofs` | - | theorems about `RedisLocker` |
| `ReadKernel` | ranges, conditions and If-Range of `kernel.ts` | operators |
| `ReadStores` | the read contract of `object-store.ts` and the adapters that keep it | operators |
| `WebRead` | `serveObject` of `web.ts` over any of those stores, and a client that resumes | component |
| `WebReadProofs` | - | theorems about `WebRead`, and about the operators of `ReadKernel` |
| `MC...` | small instances | model checking |

`UploadOrchestrator` INSTANCEs `UploadLocker` and `MemoryUploadStore` and uses the
operators of `UploadEngine` and `UploadRequest`: the actions that the locker and the
store are checked with are the ones the orchestrator takes. `UploadDialects` uses the
same operators, `WebRead` those of `ReadStores` and `ReadKernel`. `CloudStores`
INSTANCEs the four stores; a step of it is a step of one.

### How state and actions correspond to the code

**UploadLocker.** `holders` is the Map; a `Holder` is the controller of the present
tenure (named by the attempt that holds it) and the queue. `timers` are the armed
`setTimeout`s, `pc` the promise of each `acquire`. Each method body runs in one turn
of the event loop and is one action. `elders` is a history variable for the order of
arrival.

**UploadEngine, UploadRequest.** One operator per rule of `evaluateUploadCreation`,
`evaluateAppend` and `appendBound`, combined in the code's order. `undefined` is
`Unset`. A verdict is a record with the fields the orchestrator reads. Audit events
and malformed numbers (`isCount`) are left out.

**UploadDialogue.** `rules`, the policy, is fixed at the start; `resource` is what
`getUploadState` reports. One action is one request handled to its end: intent,
verdict, the bytes that landed under the verdict's bound, and completion. Bodies may
be torn anywhere, and may exceed what was announced when no size was. `FinishableFrom`
is a least fixed point: an offset is finishable if it is in every set closed under
what one allowed append finishes or moves into the set.

**MemoryUploadStore.** `stored` and `record` are the Map, `objects` the host's object.
A byte is modelled by the call that delivered it, so content is a sequence of calls. A
call is `streaming` while it awaits its body, `hashing` while it awaits the digest;
the code between two awaits is one action. Identity comparisons of entries and seals
(`===`) are comparisons of `edition` and `by`. `sealedOver` is a history variable.

**UploadOrchestrator.** `stage[r]` is where the handling of request `r` stands:
`locking`, `writing`, `rereading`, `completing`, `reporting`, `releasing` are the
awaits of `create`, `append`, `probe` and `cancel`; `peeking` is `carriesContent`,
`discarding` is `abortUpload`. `graced` holds the requests whose client left and whose
grace window is over; `yielding` is what `linkAbort` makes of it and of the lock's
signal. `reported` is a history variable: whether the hook ever resolved.

**FsUploadStore.** `dir` is the upload's directory, `rec` the records in it that are
created once, `data`, `staged`, `displaced` and `object` the files whose names the
code moves about; a file's identity is the file itself. `call[c]` holds where a call
stands and its locals; each action is one operation on the file system and the branch
taken on it. `readUploadRecords` is one step, as are a record's temporary file and
link. A renamed directory takes every path into it, so what happens in one that was
renamed for removal is left out. `Crash` ends a call anywhere: the death of the
process, or an error nothing undoes. An append that is cut off, or reaches the
request's ceiling, keeps what landed like a whole one. `sweep` is the verdict the
sweep has reached and not yet carried out. `latest`, `published` and `reaped` are
history variables.

**CloudUpload and its four stores.** A step is one request to the service and the code
up to the next one; listings of one prefix are one request. `info` is the record
(sidecar, manifest), `staged` what the service keeps of the bytes: chunks and
composites, blocks and the sentinel, or parts and tails. `object` is what the key
names and `editions` numbers what has been there: an edition is what the store's
condition on the key tells apart. That is every write where the condition is a
generation (gcs) or an ETag that the service makes anew (azure), and the content where
the ETag is a digest of it (s3, r2): there `StrangerRewrites` writes content back that
the key has had, which the code, and `Permitted`, take for the object they sealed
over. A record is replaced only in the version that was read, so instead of version
numbers `fresh` holds the calls whose read is still the version stored. `Laid` is
`mergePersistedState`; the loop around it is one step on the record as stored, and
`MayRepeat` is its next try after an answer that was lost (`Unheard`). `call[c]` is
where a call stands, and its locals. The representation is the same whoever sends it,
so a byte is its position and content is judged by position. `Crash` ends a call
between any two requests: a death of the process, or a request that throws where
nothing catches. `sealedAt` and `published` are history variables. One module each
says what differs:

* gcs: `staged` is a function of object names; `readPlan`, the fold of `FoldAt`
  sources into a composite and the deletion of what it covers are steps of their own.
* azure: blocks live on the key itself, so a commit there by anybody drops them; the
  ledger in the record tells that from an upload with nothing acknowledged.
* r2: only the parts and the tail the manifest names count; every append ends with a
  conditional write of the manifest.
* s3: what counts is what is listed; a tail has a stamp, and is replaced only while
  its ETag is the one that was read, which is a digest of its content (`Uniform`).

**UploadDialects.** `server[h]` is one run of a handler, and its stages are the calls
it awaits: `received` before the orchestrator, `verified` between the check of a whole
body's digest and the append, `healing` before the completion that tus owes an upload
found whole but unpublished, `answering` when only the answer is left. One call of the
orchestrator is one step here (its interleavings are `UploadOrchestrator`'s), its
outcome from `UploadRequest`. `client` is external: it creates, appends, probes on
whatever it did not expect, resumes where it is told, and cancels if it likes; it
stands `stranded` when a creation leaves it without a location. `faults` counts what
goes wrong.

**RedisLocker.** An attempt is one call of `acquire`, named by its hold id; `at` and
`on` are its process and the digest of its token, fixed at the start. `key` and `ttl`
are the server's, `pipe[p]` the commands a process has sent, executed in order at any
later time, or lost. `setting`, `polling`, `joining` are the awaits of `acquire` and
`takeLock`; `budget` is what is left of `acquireTimeoutMs`, `beat` and `patience` are
the watchdog's two timers. `listeners`, `shared`, `feed` and `leaving` are the preempt
channel's `holders` map, the one subscription promise it shares, and those to be
closed when they land. Deadlines are countdowns: in a process of `Punctual` a timer
runs in the tick it is due, another process may stall for any time. A published
request to yield changes nothing by itself, since a holder may release at any time;
whom it would reach is a property. `delLost` and `slack` are history variables;
`slack` is what is left of a renew interval since an attempt's last `SET`.

**ReadKernel.** One operator per function. A header is what its parser makes of it: a
range spec is its two positions, a date its second, a tag a strength and what it
names; text no parser accepts is the absent header.

**ReadStores.** A version of an object is its number, size and second of modification.
A store is its adapter, and what there is to know of its backend: the tags and dates
it keeps and whether a GET reports them, whether it honours If-Match, ignores ranges
or garbles Content-Range, keeps former generations. An answer carries the version it
describes (`of`) and the one its bytes are from (`source`), which a gcs read without a
pin takes in two requests, or the error of the contract that an adapter makes of the
backend's failure. The cache of `fsStore` is state of `WebRead`, written back
(`WriteBack`) by a read that may have been overtaken.

**WebRead.** `store` is one of `ReadStores`' kinds. `srv` is one run of
`handleServeRaw`: `speculating` is Path B, `heading` the HEAD of Path A, `getting` the
GET of it or of Path C, `streaming` and `parting` the body and the reads of further
parts, `meta` and `first` what the HEAD and the first GET described. A byte is its
version and its position; a stream delivers one version (`fsStore` holds the inode,
the others one answer) or breaks. The client is external: it keeps what a broken
download gave it, and resumes under If-Range only by what RFC 9110 calls a strong
validator. A HEAD and a GET report tags of the same strength here, so `acceptRead`'s
comparison at equal strength is a comparison.

## The runs

| Run | Question | Bounds |
|---|---|---|
| `locker` | exclusion, order, preemption, refinement of `UploadLock`; do queues drain without timers | four callers, two uploads: queues of three |
| `dialogue` | can any sequence of requests outgrow, wedge, kill or publish short | all valid policies over {none, 0, 1, 2}, ages {none, 1}, bytes to 3 |
| `memory_unlocked` | does the store protect an upload, and what reached its key, from unlocked callers and a stranger | one upload, three calls, two bytes, chunks of 1 or 2, two foreign writes |
| `orchestrator` | offsets, truncation, completion reports, announced ends under races, expiry, the sweep and another writer | three requests out of 4 x 4 x 5 kinds, departures, clock to 1, one foreign write |
| `orchestrator_liveness` | do waiters and abandoned requests proceed | bodies that may stall for ever |
| `fs` | do bytes, publications and the object at the key survive a crash between any two file operations, a lost lock, the sweep and another writer | three calls, two bytes, one foreign write, one sweep |
| `cloud` | the same questions of each cloud store, between any two requests to the service, and does nothing stay behind at it | three calls that overlap where a lost lock lets them; representations of 2 bytes (gcs, azure) or 3 (r2, s3: a part of 2 and a tail), a fold at 2 chunks, one foreign write; answers lost in gcs and azure |
| `dialects` | what a client is told, whether it can reach what was made, whether it gets there, in four wire formats | two bytes, two handlings at once, two faults, with and without a ceiling of 1 per append |
| `read` | do bytes, headers, request and conditions agree, and resumed downloads assemble one version, while the object changes between any two reads | fourteen kinds of store, two versions of 0, 2 or 8 bytes on either side of `SMALL_READ_LIMIT` 4, three requests of a resuming client or one of eleven probes, three seconds; gap 1, 2 reads, 3 ranges |
| `redis` | leases, ownership of the key, routing of preempts, sharing of the subscription, deadlines | two acquires in every placement where they meet, TTL of 6 ticks, timeout of 3, one process that stalls, lost commands |
| `r2_lost_answer` | (violation) see Findings | r2 alone, three calls that do not overlap, answers lost |
| `fs_sweep` | (violation) see Findings | one call, one sweep |

`Inv` (`DialogueInv` in `UploadDialogue`) of a module joins its type invariant with
the structure its other properties rest on: in `UploadLocker` `PreemptLandsOnHolder`,
`NoLostWaiter` and `WaiterHasPreempted`, which is the inductive invariant of the
proofs; in `UploadDialogue` `WithinRepresentation` and `CompleteIsWhole`; in
`MemoryStoreUnlocked` `PlanIsCurrent` and `NoStuckSeal`; in `UploadOrchestrator`
`EngineNeverThrows`; in `RedisLocker` `PreemptReachesOwner` and `NoStrayListener`; in
`FsUploadStore` `RecordsInOrder`; in `CloudStores` `NothingStranded`; in
`UploadDialects` `NeverAhead`, `NothingUnreachable` and `NothingVanishes`; in
`WebRead` the length every stream can keep. `AttemptsEnd` joins `AcquireSettles` and
`DeadHolderReaped`; `NobodyHangs` that waiters proceed and that abandoned requests
end, but for the peek under Findings, which ends as soon as somebody waits behind it.

The bounds are enough for the interesting cases. A locker queue of three has a head, a
middle and a last member; hand-over, splice and timeout distinguish no more positions.
Limits 0, 1 and 2 with three bytes give every order of floor, ceiling, length and
offset, equality included, and the bounds that are set but empty. Three calls are a
completion, a second one that adopts its seal, and an append between them (in `fs`: a
call that crashes, one that takes over, and an append that has outlived its lock); to
an upload, another upload on its key is one more foreign writer. Three requests are a
holder, a waiter, and one that preempts the waiter's tenure at hand-over. A TTL of six
ticks, an acquire timeout of three and a renewal interval of two are the proportions
of the defaults: an acquire may end before, with or after an interval. Two acquires in
one process are a stalled hold and a later hold of the same upload that took over its
listener, or two uploads on one subscription. Two bytes of gcs make two chunks and a
fold, of azure two blocks; three of r2 and s3 make a part, a tail, and an append that
promotes the tail to the next part. Calls of a cloud store are alike, so they are a
symmetry set; each of the four was also explored alone with four calls and no foreign
write, too long for a run of the project. The properties held but for three
behaviours, which they now name: a cancel that crashed between clearing and forgetting
leaves a record under which a late gcs chunk can be published without what was before
it (`Emptied`); an r2 completion at another length lifts the seal of one that had
published, and what completes later adopts that publication (`Lifted`); and the last
part of s3 under Findings (`TellsOfBytes`). Two bytes under a ceiling of one take two
appends, without it one; two faults are a lost answer and what goes wrong with its
retry; `tus`, `v3`, `v5` and `v10` differ in every flag of `InteropWireFormat`. Two
versions are the one a HEAD, a first part or a client saw and the one behind it; the
ranges asked for nest, touch, bridge a gap of one and stay apart, in and out of order,
above the cap on reads with a span that may and one that may not be buffered.

Deadlock checking is off where a system may really stop: in the orchestrator's runs,
where every request may have been answered, in those of the fs and the cloud stores,
where every call may have, in `dialects`, where the client may have what it wants, and
in `read`, where clients may stop asking. Every property has a mutant in
`PROJECT.json`: a plausible bug, kept next to the definition it would replace, under
which TLC finds the property violated.

### Fairness

`UploadLocker!FairSpec`: a holder whose signal is aborted releases (the orchestrator's
`finally`); nothing else is fair, timers included. `UploadOrchestrator!FairSpec`: the
event loop runs every handler that can go on and the completion hook settles; a body
is not fair, neither under a write nor under the peek of a repeat (`peeking`), which
no step settles by itself. What is asked to yield does see its body error, which
`yieldableBody` guarantees by erroring the stream it handed out: a write by the lock's
signal or by the graced one (`streamAppend` links both), the peek by the lock's alone
(`upload-orchestrator.ts:1549`). Deadlines are never fair. `UploadDialects!FairSpec`:
the client goes on as long as it has something to do; a handler that runs gets on; and
the wait for a handling that died ends. Faults are not fair, and bounded.
`RedisLocker!FairSpec`: the clock ticks and the deadline timers of `acquire` run and
of the watchdog run (each is a `setTimeout` or a `setInterval`); the server, the
connection and the holders are not fair.

## Findings

`fs_sweep`: the comment at `fs.ts:1207` says that a sealed upload that never recorded
its completion is quarantined, not removed. The sweep holds no lock and acts on a
verdict it read earlier: a completion that seals in between is removed, with its
records, and with the object it may have moved aside from the key, which the
quarantine would have put back. `ObjectSurvives`, the same concern in the run `fs`,
therefore excepts what the sweep reaped.

`r2_lost_answer`: `parkTail` (`r2.ts:980`) writes the remainder of an append under a
fresh name, then the manifest that names it, and deletes the remainder when the
manifest write throws. A write that landed and whose answer was lost throws too, and
nothing reads the manifest again, as `cas-merge.ts` does for the other stores. The
manifest then counts a tail that is gone: probes answer an offset that includes it,
and what reads the tail fails. `r2.ts:512-514` says that a remainder is parked so that
every received byte is durable and counted. `cloud` therefore has lost answers in gcs
and azure only; s3 keeps its properties under them too (`UnheardIn` of s3 TRUE: 2.2
million states), and is left without them there for the size of the joint run.

Behaviours met on the way that are no runs of their own:

* A completion that finds the destination changed under its seal leaves the upload
  sealed. The completing request repeated is then answered `409` offset mismatch,
  naming the offset the client sent; `docs/API.md:305` tells clients to recover from
  that answer by a re-probe.
* The Redis TTL runs from the server's `SET`, the watchdog from the end of the
  acquire. An acquire may use half the TTL by default, and two intervals of a third
  more end after it: the key of a lock that came a renew interval or more after its
  `SET` can expire before the first unanswered renewal costs the lease.
  `HoldsWhatItClaims` therefore speaks of a lock that came sooner, or that a renewal
  has confirmed since (`slack`); without that the run finds the trace.
* A completed append repeated with a body of undeclared size is answered once the body
  shows whether it carries a byte (`carriesContent`). That read is given `lock.signal`
  only (`upload-orchestrator.ts:1546-1549`), where `streamAppend` also links the
  graced signal of the client (line 1166). If the client departs and its body stalls,
  the request keeps the lock until another one comes for the upload and preempts it:
  the exception of `DepartedIsAnswered`, without which the run finds this trace.
* An s3 tail slot is compared by an ETag that is a digest of its content. When two
  appends' bytes are equal (`Uniform`), a late one can replace a slot that was emptied
  and filled again in between.
* Overlaps that `cloud` keeps apart, as `Overlaps` says per store: a gcs append
  refused for its record deletes a chunk that another append counted (`gcs.ts:1343`);
  an azure append beside a completion can mark a completed upload invalid; an s3
  completion of length zero beside an append replaces its first part; an r2 completion
  at another length lifts the seal of one that has published and not recorded it. An
  azure completion that finds its own earlier publication at the key answers a
  destination conflict (`azure.ts:1395`).
* A creation whose lock could not be had, or was lost before it published, is answered
  `423` without a location although the resource exists
  (`upload-orchestrator.ts:1094`); `docs/API.md:292` has such answers carry one.
  `NothingUnreachable` and `Finishes` except it: that client is `stranded`.
* An s3 completion numbers its last part from its own listing (`s3.ts:1583`). An
  append that lost its lock may have flushed that number, and then the part shrinks,
  which `tailEnd` counts on never happening (`s3.ts:539-541`: "Parts never shrink, so
  its stamp plus its size is a floor the upload has durably reached, and an
  acknowledged offset never decreases"). If the completion goes no further (a crash, a
  refused publication), the append's parked tail tells every probe of bytes that are
  gone; and once another completion has lifted the seal, the append passes the fence
  and acknowledges them. It takes four calls: `TellsOfBytes` leaves these answers out.
* With its opt-in cache, `fsStore` serves a body older than the second of its date
  under that date, which If-Range takes for strong once a second has passed
  (`fs.ts:457`): a download resumed by date can splice two versions.
  `ResumeAssemblesOne` excepts the store with a cache; `docs/DESIGN.md:160` does not.

`NoWedge` excepts policies with a `maxAppendSize` of zero. `validatePolicy`
(`upload-orchestrator.ts:1857`) lets one pass, and `upload-orchestrator.test.ts:2417`
asserts that it does: uploads are then created and every byte of them is refused.

`Overlaps` of `FsUploadStore` says which calls may overlap once a lock is lost. Three
overlaps are outside the run `fs` because its properties fail under them: two appends
(both are acknowledged over each other), two completions (the second replaces the copy
the first goes on to publish), and a completion with a cancel (the cancel removes what
the completion moved aside). `PROJECT.json` lists them as hazards.

`HeadersDescribeBody` excepts several parts of a store that has no tags of its own:
the reads of further parts are compared by date alone (`web.ts:2105`, on the tags as
the store gave them), so an overwrite within the same second but of another size is
spliced in, under a weak tag made of the first size. The first read is compared by
that derived tag and would be refused. For the same reason `ConditionsHoldOfBody` does
not hold such parts to If-None-Match: the spliced version may be the one named there.

## What is proved

Every component has theorems, in a module beside its own. They hold for every number
of calls, requests, uploads, objects and foreign writes and for every length, range
and policy, from nothing but the named assumptions on the constants: markers for
"none" are told from what they stand beside (`NoHolderAssumption`, `UnsetAssumption`,
`NobodyAssumption`, `NoneAssumption`), bounds and limits are numbers or unset
(`BoundsAssumption`, `FsAssumption`, `CloudAssumption`, `StoreAssumption`,
`DialectsAssumption`, `WebReadAssumption`, `KernelAssumption`), a request without a
body sends no bytes (`WantedAssumption`), and the orchestrator's policy is one
`validatePolicy` passes (`OrchestratorAssumption`). What a theorem needs beyond them
is in its ASSUME.

`UploadLockerProofs`:

* `Invariance`: `Inv` is inductive. The Map, the lock objects, the queues and the
  timers agree. `MutualExclusion` is not inductive by itself: a release must act on
  the entry of its own holder (`PreemptLandsOnHolder`), and a hand-over must reach
  someone who waits, once (`NoLostWaiter`).
* `Exclusion`, `Fresh`, `Fifo`: consequences and action properties; `Fresh` says that
  the abort that ended one tenure never leaks into the next, and is proved without a
  run; `Fifo` needs the order of the queue as a further invariant (`OrderKept`,
  `Order`).
* `Refinement`: every step of the locker is a step of `UploadLock` or a stutter.

`EngineProofs`, of the dialogue, for every valid policy and every sequence of
requests: the engine's verdicts are characterised first, each by what it permits.
`BoundSound` says what an append's bound admits; `AllowedSound` and `AcceptedSound`
what an append or a creation that is allowed has in its bound and in the total it
fixes; `AfterSound` what the dialogue makes of the bytes that land under such a
verdict. From these,

* `KeepsToBounds`: nothing outgrows its length, and a complete upload is whole.
* `OverrunKills`: only bytes of undeclared size that landed past a bound end an
  upload, and only a cancel ends a complete one.
* `WithinLimits`: no append lands more than the policy's maximum; one that lands less
  than its minimum was torn, completed or ended the upload, or left it below the
  smallest size an upload may have.
* `NobodyIsWedged` (`NoWedge`): an open upload can be finished from where it stands,
  whatever was declared, torn or truncated so far. `DialogueInv` does not say so by
  itself: a length outside the policy's sizes could never be filled, so
  `LengthAdmitted` keeps the length a request fixed within them. Then some final size
  lies ahead (`HasFinalSize`), and from any offset below it one request is permitted
  that ends there or comes closer (`GoesOnToIt`). `NoWedge` asks that the offset be in
  every set of offsets closed under such requests, the least fixed point, so that what
  would be an induction is the choice of the greatest offset left out.

`UploadProofs`, for the memory store under any callers, with no lock:

* `Invariance` and `AcknowledgedStand`: the invariant `IInv` adds to `Inv` what
  records owe to their bytes and their seals (`RecordsSound`: a seal is on an open
  upload only, and knows of nothing that came to the key after it was laid), that a
  token not minted has nothing (`Unborn`), that what a key names came in its turn
  (`ObjectsSound`), and what a call keeps at its awaits, above all that no two seals
  are by one call (`CallsSound`): a completion that resumes compares its own seal with
  the record's, and that comparison by identity is what keeps a lifted plan from being
  carried out.
* `NeverBlind`: the action property that nothing that came to the key after the
  sealing is overwritten.
* `Refinement`: every step of the store is a step of the contract `ResumableUpload` or
  a stutter; a chunk that lands is the contract's `Accept`, the end of a completion's
  hashing its `Publish`, cancels and sweeps its `Discard`.

`OrchestratorProofs`, for any requests, any deadline and whichever clients leave:
`EngineAccepts`, `ReportedFirst`, `WholeBodies`, `ToldStaysDurable`, `CondemnedFreed`,
which are the five invariants of the run `orchestrator`. The locker inside is the one
of `UploadLockerProofs`, instantiated, so its invariant comes from there: one request
works at a time. That makes `IInv` inductive: the verdict a request is about to write
by still fits what the store has (`VerdictSound`), its call keeps to that verdict's
bound (`CallSound`), what is completed is the client's whole body and all there is
(`CompletionSound`), and an outcome, once decided, is true from then on
(`OutcomeSound`). A creation has the lock before the upload can be named, so nobody
comes before its first turn (`CreationSound`). `Judged` is an invariant of its own,
about the model: there is room for a verdict on every request.

`FsProofs`, for one upload of the fs store, any number of calls of which any may crash
between two file operations, any sweeps and foreign writes. The store keeps its
promises without the lock, but for the three overlaps that Findings names, and each
theorem excludes those it rests on, `OneCompletion`, `NoCancelBeside` or `OneAppend`;
every other overlap is allowed, more than the run `fs` allows.

* `RecordsStandInOrder` (`Inv`) and `PlanIsPublished` (`PublishedIsThePlan`), with one
  completion at a time: `IInv` says what the records say of each other and of what has
  been at the key (`RecordsSound`), and of each call that goes by a seal or a copy
  that it is the one in the records, and until it is linked the one staged
  (`Planned`). That survives a crash because a call takes both from the records when
  it begins, and a second completion because there is none.
* `ForeignObjectSurvives` (`ObjectSurvives`), without a cancel beside the completion
  either: the last foreign object is at the key, or aside with the key empty, and a
  call about to remove or replace what is aside does so where it is no longer the last
  (`Careful`).
* `AcknowledgedStay` (`AcknowledgedBytesStand`), with one append at a time: once past
  the fence an append's bytes are in the file, below whatever is appended since, and
  in each copy that a completion has made, measured or named (`Stands`). The fence is
  why: whoever is past it has seen no seal, so no copy was made without its bytes.

`RedisLockerProofs`, for every number of processes, attempts and uploads, from
`TimesAssumption` (a TTL of at least three, which leaves a renewal interval),
`HomesAssumption` and `NoneAssumption`:

* `Invariance`: `Inv` follows from `IInv`, which is inductive and has two halves.
  `Fates` says of every attempt where its `SET` and its deletion may be: a `SET` is on
  its way once, and only while it is waited for or was given up; once it was given up,
  a deletion is behind it in the same pipe; and the key of an attempt that was refused
  or released has a deletion coming, or one that was lost. `Routes` says that whoever
  has both the lock and the key is its process's listener for that upload, on the
  shared subscription once it is open, that nobody else of the process has just been
  told the same (`Alone`), and that no subscription outlives its holds.
* `NothingLeftBehind` (`AbandonedLeavesNothing`) and `OwnersLetGo`
  (`OnlyOwnerLetsGo`): from `Fates`, since a late renewal or deletion carries the hold
  it was sent for.
* `HoldsItsClaim` (`HoldsWhatItClaims`), for processes that do not stall and whatever
  the acquire timeout: `Clocks` bounds a key's age by the holder's own countdowns. It
  is less than an interval when a lock with `slack` left is handed out, less than two
  at the first beat, and less than three, so no more than the TTL, when a renewal that
  is not answered fails; a confirmed renewal starts the count anew.

`StoreProofs`, for every length, every number of calls and of foreign writes and every
loss of answers, from `CloudAssumption`, `StoresAssumption` and `SealsAssumption` (a
seal is not `None`; a TLC model value is not a record either):

* `NeverBlind` (`NoBlindOverwrite`), of all four stores and for every overlap of
  calls: an upload never overwrites what came to its key after it was sealed, where
  content that s3 and r2 cannot tell by its ETag from what was sealed over is not
  something that came. Each store has the same theorem under its own name
  (`GcsNeverBlind`, `AzureNeverBlind`, `R2NeverBlind`, `S3NeverBlind`). `Sound(w)`,
  which they share, says that no seal anywhere, in the record, in a call's locals or
  in a record it has read, knows of an edition newer than the sealing, and that a call
  at the places `w` (where in that store a call goes by its seal: `GcsBearing`,
  `AzureBearing`, `R2Bearing` and `S3Bearing`) has such a seal. It is inductive
  because a seal, once laid, is only merged with itself (`Laid`), and a conditional
  write lays a new one only over the version read. Publications are conditional on the
  edition in the seal; r2's `complete()` takes no condition, so `NoBlindOverwrite`
  excepts the window between its look at the key and that call (`Windowed`).
* `AzureAcknowledgedBytesStand`, `AzurePublishedIsThePlan` and `AzureInv`: the other
  three properties of `cloud`, of the azure store, under `AzureApart`: no two appends,
  no two completions and no append beside a completion. That is what the lock owes the
  store, and `cloud` keeps to it too; probes, cancels and the sweep run beside
  anything, and any call may crash. `AzureBytes` is the invariant (`AzureBytesHold`).
  The staged blocks lie end to end from the first byte on (`AzureWhole`, as positions
  at which blocks meet, `AzureTiled`, so that nothing is summed up), and what follows
  from it is that joining them gives a prefix (`TilesFlatten`, `AzureWholeIs`), for
  any number of blocks of any sizes. A call that stages holds the offset and the index
  at which the blocks end (`AzureStages`); a plan is all there is, of the length the
  seal asks for (`AzurePlans`); and what was answered is below what is there or
  published (`AzureClaims`). A lost sentinel or a dropped block only ever ends the
  upload.

`EngineProofs`, of the dialects, for every set of them, every set of valid policies,
every size and any number of handlings and faults:

* `NobodyIsMisled` (`Inv`) and `SuccessIsWhole` (`DoneMeansWhole`): `IInv` says of
  each handling what it may still answer (`Stands`): the request is one the client
  would send (`Asked`), a healing holds a promise that the resource bears out
  (`Promised`), and an answer on its way is not ahead of the upload, says that nothing
  is there only where nothing is, and is taken for success only where all has been
  published (`Answered`). Answers overtake one another, so each has to stay true while
  others write: offsets only grow, what is published stays, and only the creation
  makes a resource (`Grows`). Until the client has a location a creation is all that
  is handled (`Alone`). Before that come the verdicts (`CreationAllows`,
  `AppendJudged`), what a write leaves under one (`WriteLands`), and each dialect's
  answer to each outcome (`TusAnswered`, `IetfAnswered`, `HealedAnswered`).

`WebReadProofs`, for every kind of store, every size and header, any number of ranges,
requests, overwrites and deletions, restored dates and cache fills between any two
steps of the handler. The kernel comes first, as lemmas about its operators: what an
element of a Range header resolves to (`OneRangeSays`), what coalescing keeps, adds
and leaves apart (`CoalesceSays`, from the invariant of its loop, `Loop`), that a plan
holds every byte the header asks for, each once, and no others but small gaps
(`ParseRangesSays`), and what a verdict on the conditions implies (`VerdictSays`). An
induction over the ranges of one header is made as a choice of the least that fails
(`Least`, `Climb`), since the operators are concrete.

* `StreamsHoldTheirPart` (`Inv`), `BodiesAreDescribed` (`HeadersDescribeBody`),
  `ConditionsOutliveTheHead` (`ConditionsHoldOfBody`) and `AnswersWhatWasAsked`
  (`RangesAnswerRequest`) follow from `IInv`. The objects and the cache hold only what
  was written (`WorldInv`, `CacheInv`), so whatever a head, a read or a stale entry
  says was true once. Of the request, `MetaInv` keeps that the version the head
  described is permitted by the conditions and that the plan serves the header at its
  size; `FirstInv` that the version first read is permitted too and is like the head's
  (`Alike`), and that the status, validators and total of the headers are its;
  `StreamInv` that each later read is of a version that passes for the first (`Mate`);
  `SentInv` where each byte stands in its part and which parts are complete. `Alike`
  is why the conditions outlive the head: `acceptRead` compares the tag and the date
  of a read with the head's, and what the conditions say depends on nothing else.
* `ResumesAssembleOne` (`ResumeAssemblesOne`), for stores without the cache, needs
  `CInv` besides. `HeldInv` says that the bytes a client holds are of one version,
  from its first on, and that what it will send as If-Range is that version's;
  `ResumeInv` that a partial answer to it is of that version. The heart is a date
  older than the answer it came with: nothing written later can have that date
  (`LastOfDate`), which is why `isRangeFresh` may take it for strong. The lemmas named
  `...Goes` say of each step of the handler what the client will see of it.

What the proofs changed in the models: a request's conclusion takes the verdict it
concludes under as a parameter, where it read the variable in the step that set it;
arms of a CASE that overlapped were made disjoint; coalescing is a recursive function
over the sorted ranges; reachability in `NoWedge` is a fixed point; pieces are joined
in the order of their indices (`EndToEnd`); and constants got the assumptions above,
which TLC evaluates. Four properties were false where no run had looked, and say now
what holds: `NoWedge` of a policy whose `maxAppendSize` is zero,
`ConditionsHoldOfBody` of several parts of a store without tags (both under Findings),
`Inv` of `WebRead` of an object of size zero, whose body is no part, and those of
`CloudStores` with four calls (under The runs).

Model-checked only: liveness (`WaiterServed`, `NobodyHangs`, `AttemptsEnd`,
`Finishes`), since fairness and ENABLED are out of the prover's reach; and of gcs, r2
and s3 `Inv`, `AcknowledgedBytesStand` and `PublishedIsThePlan`, whose pieces are
joined by a fold over a set, an induction over data.

## Not modelled

Formatting and parsing of headers, and with it `upload-internals.ts`; authorization
hooks, digest policies, audit events and body release in the orchestrator; the
lock-free `admit` and `resourceExists`; claim epochs, which the memory store does not
have. Of the cloud stores, creation, deferred lengths, blocks or chunks of several
buffers, checksums, signed URLs, buckets without conditional writes, and the client
libraries' own retries. Of the dialects, OPTIONS, the version gate, metadata,
`Upload-Limit`, digests and the early `104` answer. Of `web.ts`, signed-URL redirects,
precompressed variants, digests and audit hooks. Of the read stores, totals left open
(`bytes a-b/*`), a gcs object without a generation, and a file truncated in place. The
pump of `node.ts` is left out: it delivers or breaks a stream, which `WebRead` takes
for a choice of the environment. Codecs are text without state.

## Plan

1. Done: locker, engine, dialogue, memory store, orchestrator, redis locker, and the
   proofs of all of these.
2. Done: `FsUploadStore` and its proofs. Left of it: creation, declared lengths, power
   loss before an fsync.
3. Done: record merging, in `CloudUpload`.
4. Done: the four cloud stores, `CloudStores`, and the proofs of `NoBlindOverwrite`
   and of azure's bytes. Left: creation and deferred lengths, `ResumableUpload` as
   their abstract specification, and the bytes of gcs, r2 and s3 proved.
5. Done: `UploadDialects`. Left: the orchestrator's interleavings under a dialect.
6. Done: `ReadKernel`, `ReadStores`, `WebRead`, and the proofs of all their safety
   properties. Left of the read side: variants, digests, conditional writes, the node
   pump.
7. Done: the proofs of the engine and the dialects.
