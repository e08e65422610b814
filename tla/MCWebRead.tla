------------------------------- MODULE MCWebRead -------------------------------
(***************************************************************************)
(* WebRead on small instances: the kinds of store there are, and requests  *)
(* that reach each branch of the kernel's rules.                           *)
(***************************************************************************)
EXTENDS WebRead

Kind(adapter, tag, dates) ==
    [adapter |-> adapter, tag |-> tag, dates |-> dates, tells |-> TRUE, matches |-> TRUE,
     loose |-> FALSE, keeps |-> FALSE, ttl |-> 0]

S3 == Kind("s3", "strong", TRUE)
Azure == Kind("azure", "strong", TRUE)
R2 == Kind("r2", "strong", TRUE)
Gcs == Kind("gcs", "strong", TRUE)
GcsVersioned == [Gcs EXCEPT !.keeps = TRUE]
Memory == Kind("memory", "strong", TRUE)
MemoryBare == Kind("memory", "none", FALSE)
Fs == Kind("fs", "weak", TRUE)
FsCached == [Fs EXCEPT !.ttl = 1]
Nginx == Kind("http", "strong", TRUE)
Origin == [Nginx EXCEPT !.matches = FALSE, !.loose = TRUE]
Dated == Kind("custom", "none", TRUE)
Bare == Kind("custom", "none", FALSE)
Mute == [Kind("custom", "strong", TRUE) EXCEPT !.tells = FALSE]
MCStores == {S3, Azure, R2, Gcs, GcsVersioned, Memory, MemoryBare, Fs, FsCached,
             Nginx, Origin, Dated, Bare, Mute}

From(first, last) == [first |-> first, last |-> last]
Ask(specs) == [Plain EXCEPT !.specs = specs]
MCProbes ==
    {Ask(<<From(1, None)>>),
     Ask(<<From(3, 3), From(0, 0)>>),
     Ask(<<From(6, 6), From(0, 0), From(3, 3)>>),
     Ask(<<From(3, 3), From(0, 0), From(7, 9)>>),
     Ask(<<From(4, 2), From(0, 0)>>),
     Ask(<<From(2, 5), From(3, 3), From(0, 0)>>),
     [Ask(<<From(0, 1)>>) EXCEPT !.ifMatch = {Strong(<<1>>)}],
     [Ask(<<From(None, 1), From(0, 0)>>) EXCEPT !.ifUnmodifiedSince = 0],
     [Plain EXCEPT !.ifNoneMatch = {Strong(<<1>>), Weak(<<1>>)}],
     [Ask(<<From(3, 3), From(0, 0)>>) EXCEPT !.ifNoneMatch = {Weak(<<2, 0>>)}],
     [Plain EXCEPT !.ifModifiedSince = 0, !.head = TRUE]}
===============================================================================
