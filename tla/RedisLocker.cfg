\* Two acquires in one process or in two, of which one never stalls, over a
\* server that may lose or never answer any command; without symmetry (liveness).
\* Times in the proportions of the defaults: 30 s, 15 s, and a renewal each 10 s.
SPECIFICATION FairSpec
CONSTANTS
    p1 = p1
    p2 = p2
    a1 = a1
    a2 = a2
    d1 = d1
    d2 = d2
    Processes = {p1, p2}
    Attempts = {a1, a2}
    Digests = {d1, d2}
    None = None
    Homes <- Encounters
    Ttl = 6
    Timeout = 3
    Punctual = {p1}
    Lossy = TRUE
INVARIANTS Inv HoldsWhatItClaims AbandonedLeavesNothing
PROPERTIES OnlyOwnerLetsGo AttemptsEnd
