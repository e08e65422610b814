---------------------------- MODULE MCRedisLocker -----------------------------
(* Small instances of RedisLocker. *)
EXTENDS RedisLocker

CONSTANTS p1, p2, a1, a2, d1, d2

Places(first, second) == [a \in {a1, a2} |-> IF a = a1 THEN first ELSE second]
Place(p, d) == [process |-> p, digest |-> d]

\* The placements in which two acquires meet: one upload in two processes, one
\* upload in one process, two uploads whose holds share a subscription.  Any
\* other is one of these under other names, or a more punctual one, or one in
\* which the two never meet.
Encounters ==
    {Places(Place(p1, d1), Place(p2, d1)),
     Places(Place(p1, d1), Place(p1, d1)),
     Places(Place(p2, d1), Place(p2, d1)),
     Places(Place(p2, d1), Place(p2, d2))}
===============================================================================
