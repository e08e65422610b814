---------------------------- MODULE WebReadProofs ----------------------------
(***************************************************************************)
(* What holds of WebRead for every size, request, kind of store and bound: *)
(* first what the operators of ReadKernel decide, then what each step keeps *)
(* of the inductive invariants IInv and CInv, at last the theorems.         *)
(***************************************************************************)
EXTENDS WebRead, FiniteSetTheorems, NaturalsInduction, WellFoundedInduction, TLAPS

-------------------------------------------------------------------------------
(* The kernel: ranges, one and many                                        *)

\* A set of numbers that is not empty has a least one.
LEMMA Least ==
    ASSUME NEW T, T \subseteq Nat, T # {}
    PROVE  \E x \in T : \A y \in T : x <= y
<1> DEFINE R == OpToRel(<, Nat)
           Below(y, x) == <<y, x>> \in R
<1>1. IsWellFoundedOn(R, Nat)
    BY NatLessThanWellFounded
<1>2. \A x, y \in Nat : y < x => Below(y, x)
    BY DEF OpToRel
<1>3. \E x \in T : \A y \in T : ~Below(y, x)
  <2> HIDE DEF R
  <2> QED BY <1>1, WFMin
<1> HIDE DEF Below
<1> QED BY <1>2, <1>3

\* Induction, over sets instead of predicates.
LEMMA Climb ==
    ASSUME NEW S, 0 \in S, \A n \in Nat : n \in S => n + 1 \in S
    PROVE  Nat \subseteq S
<1> SUFFICES ASSUME Nat \ S # {} PROVE FALSE
    OBVIOUS
<1>1. PICK x \in Nat \ S : \A y \in Nat \ S : x <= y
    BY Least
<1>2. x # 0 /\ x - 1 \in Nat /\ x - 1 \in S
    BY <1>1
<1> QED BY <1>1, <1>2

\* The smaller of two integers.
LEMMA MinOfTwo ==
    ASSUME NEW a \in Int, NEW b \in Int
    PROVE  Min({a, b}) = IF a <= b THEN a ELSE b
BY DEF Min

\* The larger of two integers.
LEMMA MaxOfTwo ==
    ASSUME NEW a \in Int, NEW b \in Int
    PROVE  Max({a, b}) = IF a >= b THEN a ELSE b
BY DEF Max

\* A nonempty set of naturals has a least element, and Min names it.
LEMMA MinOfMany ==
    ASSUME NEW T, T \subseteq Nat, T # {}
    PROVE  Min(T) \in T /\ \A x \in T : Min(T) <= x
BY Least DEF Min

\* A nonempty bounded set of naturals has a greatest element, and Max names it.
LEMMA MaxOfMany ==
    ASSUME NEW T, T \subseteq Nat, T # {}, NEW bound \in Nat, \A x \in T : x <= bound
    PROVE  Max(T) \in T /\ \A x \in T : x <= Max(T)
<1> DEFINE U == {bound - x : x \in T}
<1>0. U \subseteq Nat
    OBVIOUS
<1>1. U # {}
  <2>1. PICK x \in T : TRUE
      OBVIOUS
  <2>2. bound - x \in U
      OBVIOUS
  <2> QED BY <2>2
<1>2. PICK u \in U : \A y \in U : u <= y
    BY <1>0, <1>1, Least
<1>3. PICK x \in T : u = bound - x
    OBVIOUS
<1>4. \A y \in T : bound - y \in U
    OBVIOUS
<1>5. \A y \in T : y <= x
  <2> TAKE y \in T
  <2>1. u <= bound - y
      BY <1>2, <1>4
  <2> QED BY <2>1, <1>3
<1> QED BY <1>5 DEF Max

Ascends(s, S, key) ==
    /\ s \in [1..Cardinality(S) -> S]
    /\ IsInjective(s) /\ \A i, j \in DOMAIN s : i < j => key[s[i]] <= key[s[j]]

\* A finite set can be put in order of any key.
LEMMA Sortable ==
    ASSUME NEW S, IsFiniteSet(S), NEW key \in [S -> Nat]
    PROVE  \E s : Ascends(s, S, key)
<1> DEFINE Good(T) == \A k \in [T -> Nat] : \E s : Ascends(s, T, k)
           N == {n \in Nat : \A T : IsFiniteSet(T) /\ Cardinality(T) = n => Good(T)}
<1>1. 0 \in N
  <2> SUFFICES ASSUME NEW T, IsFiniteSet(T), Cardinality(T) = 0, NEW k \in [T -> Nat]
               PROVE  \E s : Ascends(s, T, k)
      OBVIOUS
  <2>1. T = {}
      BY FS_EmptySet
  <2>2. Ascends(<<>>, T, k)
      BY <2>1 DEF Ascends, IsInjective
  <2> QED BY <2>2
<1>2. ASSUME NEW n \in Nat, n \in N PROVE n + 1 \in N
  <2> SUFFICES ASSUME NEW T, IsFiniteSet(T), Cardinality(T) = n + 1, NEW k \in [T -> Nat]
               PROVE  \E s : Ascends(s, T, k)
      OBVIOUS
  <2>1. T # {}
      BY FS_EmptySet
  <2>2. PICK x \in T : \A y \in T : k[x] <= k[y]
    <3> DEFINE K == {k[y] : y \in T}
    <3>1. K \subseteq Nat
        OBVIOUS
    <3>2. K # {}
        BY <2>1
    <3>3. PICK m \in K : \A l \in K : m <= l
        BY <3>1, <3>2, Least
    <3>4. PICK x \in T : m = k[x]
        OBVIOUS
    <3>5. \A y \in T : k[y] \in K
        OBVIOUS
    <3> HIDE DEF K
    <3> QED BY <3>3, <3>4, <3>5
  <2> DEFINE R == T \ {x}
             kk == [y \in R |-> k[y]]
  <2>3. IsFiniteSet(R) /\ Cardinality(R) = n
    <3>1. Cardinality(T \ {x}) = (IF x \in T THEN Cardinality(T) - 1 ELSE Cardinality(T))
        BY FS_RemoveElement
    <3>2. IsFiniteSet(T \ {x})
        BY FS_RemoveElement
    <3> QED BY <3>1, <3>2
  <2>4. PICK r : Ascends(r, R, kk)
    <3>1. kk \in [R -> Nat]
        OBVIOUS
    <3>2. \A U : IsFiniteSet(U) /\ Cardinality(U) = n => Good(U)
        BY <1>2
    <3>3. Good(R)
        BY <2>3, <3>2
    <3> QED BY <3>1, <3>3
  <2> DEFINE s == [i \in 1..(n + 1) |-> IF i = 1 THEN x ELSE r[i - 1]]
  <2>5. r \in [1..n -> R] /\ (\A i, j \in 1..n : r[i] = r[j] => i = j)
        /\ \A i, j \in 1..n : i < j => k[r[i]] <= k[r[j]]
      BY <2>3, <2>4 DEF Ascends, IsInjective
  <2>6. s \in [1..(n + 1) -> T]
      BY <2>5
  <2>7. \A i, j \in 1..(n + 1) : s[i] = s[j] => i = j
      BY <2>5
  <2>8. \A i, j \in 1..(n + 1) : i < j => k[s[i]] <= k[s[j]]
    <3> SUFFICES ASSUME NEW i \in 1..(n + 1), NEW j \in 1..(n + 1), i < j
                 PROVE  k[s[i]] <= k[s[j]]
        OBVIOUS
    <3>1. s[j] = r[j - 1] /\ j - 1 \in 1..n
        OBVIOUS
    <3>2. CASE i = 1
        BY <3>1, <3>2, <2>2, <2>5
    <3>3. CASE i # 1
      <4>1. s[i] = r[i - 1] /\ i - 1 \in 1..n /\ i - 1 < j - 1
          BY <3>3
      <4> QED BY <3>1, <4>1, <2>5
    <3> QED BY <3>2, <3>3
  <2> HIDE DEF s
  <2>9. Ascends(s, T, k)
      BY <2>6, <2>7, <2>8 DEF Ascends, IsInjective
  <2> QED BY <2>9
<1>3. Nat \subseteq N
  <2> HIDE DEF N
  <2> QED BY <1>1, <1>2, Climb
<1>4. Cardinality(S) \in Nat
    BY FS_CardinalityType
<1>5. Good(S)
    BY <1>3, <1>4
<1> QED BY <1>5

\* InOrder lists each element of the set, once, by ascending key.
LEMMA InOrderSorts ==
    ASSUME NEW S, IsFiniteSet(S), NEW key \in [S -> Nat]
    PROVE  LET s == InOrder(S, key) n == Cardinality(S) IN
           /\ n \in Nat /\ s \in [1..n -> S] /\ Len(s) = n /\ s \in Seq(S)
           /\ \A i, j \in 1..n : s[i] = s[j] => i = j
           /\ \A i, j \in 1..n : i < j => key[s[i]] <= key[s[j]]
           /\ \A x \in S : \E i \in 1..n : s[i] = x
<1> DEFINE s == InOrder(S, key)
           n == Cardinality(S)
<1>1. Ascends(s, S, key)
    BY Sortable DEF InOrder, Ascends
<1>2. n \in Nat
    BY FS_CardinalityType
<1>3. s \in [1..n -> S] /\ IsInjective(s)
    BY <1>1 DEF Ascends
<1>4. IsFiniteSet(1..n) /\ Cardinality(1..n) = n
    BY <1>2, FS_Interval
<1>5. s \in Injection(1..n, S)
    BY <1>3 DEF Injection
<1>6. s \in Surjection(1..n, S)
    BY <1>4, <1>5, FS_Injection
<1> HIDE DEF s
<1>7. \A x \in S : \E i \in 1..n : s[i] = x
    BY <1>6 DEF Surjection
<1>8. s \in Seq(S) /\ Len(s) = n
    BY <1>2, <1>3
<1> QED BY <1>1, <1>2, <1>3, <1>7, <1>8 DEF Ascends, IsInjective, s

\* The merging loop is what its equations say.
LEMMA CoalescedStep ==
    ASSUME NEW sorted, Len(sorted) \in Nat
    PROVE  /\ Coalesced(sorted)[0] = <<>>
           /\ \A i \in 1..Len(sorted) :
                 Coalesced(sorted)[i] = Joined(Coalesced(sorted)[i - 1], sorted[i])
<1> DEFINE Body(f, i) == IF i = 0 THEN <<>> ELSE Joined(f[i - 1], sorted[i])
           Loop(f, m) == f = [i \in 0..m |-> Body(f, i)]
           N == {m \in Nat : \E f : Loop(f, m)}
<1>1. 0 \in N
  <2> DEFINE g == [i \in 0..0 |-> <<>>]
  <2>1. Loop(g, 0)
      OBVIOUS
  <2> QED BY <2>1
<1>2. ASSUME NEW m \in Nat, m \in N PROVE m + 1 \in N
  <2>1. PICK f : Loop(f, m)
      BY <1>2
  <2> DEFINE h == [i \in 0..(m + 1) |-> Body(f, i)]
  <2>2. \A i \in 0..m : h[i] = f[i]
    <3>1. \A i \in 0..m : f[i] = Body(f, i)
        BY <2>1
    <3> QED BY <3>1
  <2>3. \A i \in 0..(m + 1) : Body(h, i) = Body(f, i)
    <3> TAKE i \in 0..(m + 1)
    <3>1. i # 0 => i - 1 \in 0..m
        OBVIOUS
    <3> HIDE DEF h
    <3> QED BY <2>2, <3>1
  <2>4. Loop(h, m + 1)
    <3>1. h = [i \in 0..(m + 1) |-> Body(f, i)]
        OBVIOUS
    <3> HIDE DEF h, Body
    <3> QED BY <2>3, <3>1
  <2> HIDE DEF h, Loop
  <2> QED BY <2>4
<1>3. Nat \subseteq N
  <2> HIDE DEF N
  <2> QED BY <1>1, <1>2, Climb
<1>4. \E f : Loop(f, Len(sorted))
    BY <1>3
<1> DEFINE c == Coalesced(sorted)
<1>5. c = CHOOSE f : Loop(f, Len(sorted))
    BY DEF Coalesced
<1>6. Loop(c, Len(sorted))
  <2> HIDE DEF c, Loop
  <2> QED BY <1>4, <1>5
<1> HIDE DEF c
<1>7. \A i \in 0..Len(sorted) : c[i] = Body(c, i)
    BY <1>6
<1> QED BY <1>7 DEF c

\* A range with its place in the request; one within another.
Ordered == {r \in [start : Nat, end : Nat, order : Nat] : r.start <= r.end}
Within(r, c) == c.start <= r.start /\ r.end <= c.end
Apart(a, b) == a.end + 1 + Gap < b.start
Between(a, pos, b) == a.end < pos /\ pos < b.start /\ b.start - a.end - 1 <= Gap

\* What merging the first i of the sorted ranges has made: done.
Loop(done, sorted, i) ==
    /\ done \in Seq(Ordered)
    /\ i > 0 => done # <<>> /\ Last(done).start <= sorted[i].start
    /\ \A k, l \in 1..Len(done) : k < l => Apart(done[k], done[l])
    /\ \A j \in 1..i : \E k \in 1..Len(done) :
          Within(sorted[j], done[k]) /\ done[k].order <= sorted[j].order
    /\ \A k \in 1..Len(done) :
          /\ \E j \in 1..i : sorted[j].start = done[k].start
          /\ \E j \in 1..i : sorted[j].end = done[k].end
          /\ \E j \in 1..i : sorted[j].order = done[k].order /\ Within(sorted[j], done[k])
          /\ \A pos \in done[k].start..done[k].end :
                \/ \E j \in 1..i : sorted[j].start <= pos /\ pos <= sorted[j].end
                \/ \E j, m \in 1..i : Between(sorted[j], pos, sorted[m])

\* Sums the provers are better given without the records they come from.
LEMMA Sums ==
    ASSUME NEW a \in Int, NEW b \in Int, NEW c \in Int, NEW g \in Int
    PROVE  /\ c <= b + 1 + g => c - b - 1 <= g
           /\ a <= b /\ b + 1 + g < c => a + 1 + g < c
OBVIOUS

\* The fields of a range that remembers its place in the header.
LEMMA OrderedType ==
    ASSUME NEW r \in Ordered
    PROVE  r.start \in Nat /\ r.end \in Nat /\ r.order \in Nat /\ r.start <= r.end
BY DEF Ordered

\* One turn of the loop of coalesceRanges (kernel.ts) keeps its invariant: the next range
\* either widens the last one done or starts a new one beyond the gap.
LEMMA JoinedLoop ==
    ASSUME NEW sorted \in Seq(Ordered), NEW i \in Nat, i + 1 <= Len(sorted),
           \A a, b \in 1..Len(sorted) : a < b => sorted[a].start <= sorted[b].start,
           NEW done, Loop(done, sorted, i)
    PROVE  Loop(Joined(done, sorted[i + 1]), sorted, i + 1)
<1> SUFFICES ASSUME NEW next, next = sorted[i + 1], NEW n, n = Len(done),
                    NEW last, last = done[n]
             PROVE  Loop(Joined(done, next), sorted, i + 1)
    OBVIOUS
<1>0. done \in Seq(Ordered) /\ Gap \in Nat
    BY KernelAssumption DEF Loop, KernelAssumption
<1>0n. n \in Nat
    BY <1>0
<1>0a. \A k, l \in 1..n : k < l => Apart(done[k], done[l])
    BY DEF Loop
<1>0b. \A j \in 1..i : \E k \in 1..n : Within(sorted[j], done[k]) /\ done[k].order <= sorted[j].order
    BY DEF Loop
<1>1a. n \in Nat /\ \A k \in 1..n : done[k] \in Ordered
    BY <1>0
<1>1. /\ next \in Ordered /\ next.start \in Nat /\ next.end \in Nat /\ next.order \in Nat
      /\ next.start <= next.end
      /\ \A k \in 1..n : /\ done[k].start \in Nat /\ done[k].end \in Nat /\ done[k].order \in Nat
                         /\ done[k].start <= done[k].end
  <2>1. next \in Ordered
      OBVIOUS
  <2> QED BY <2>1, <1>1a, OrderedType
<1>2. \A j \in 1..(i + 1) : /\ sorted[j].start \in Nat /\ sorted[j].end \in Nat
                             /\ sorted[j].order \in Nat /\ sorted[j].start <= sorted[j].end
  <2>1. \A j \in 1..(i + 1) : sorted[j] \in Ordered
      OBVIOUS
  <2> QED BY <2>1, OrderedType
<1>2a. \A j \in 1..i : j \in 1..(i + 1)
    OBVIOUS
<1>3. CASE done # <<>> /\ Near(Last(done), next)
  <2> DEFINE m == Merged(last, next)
             d == Append(Front(done), m)
  <2>1. n \in 1..n /\ last \in Ordered /\ Joined(done, next) = d
      BY <1>0, <1>1, <1>1a, <1>3 DEF Joined, Last
  <2>1a. last.start \in Nat /\ last.end \in Nat /\ last.order \in Nat /\ last.start <= last.end
      BY <2>1, OrderedType
  <2>2. m \in Ordered /\ m.start \in Nat /\ m.end \in Nat /\ m.order \in Nat /\ m.start = last.start /\ last.end <= m.end /\ next.end <= m.end
        /\ m.order <= last.order /\ m.order <= next.order
        /\ m.end \in {last.end, next.end} /\ m.order \in {last.order, next.order}
    <3>0. last.end \in Int /\ next.end \in Int /\ last.order \in Int /\ next.order \in Int
        BY <1>1, <2>1a
    <3>1. Max({last.end, next.end}) = IF last.end >= next.end THEN last.end ELSE next.end
        BY <3>0, MaxOfTwo
    <3>2. Min({last.order, next.order}) = IF last.order <= next.order THEN last.order ELSE next.order
        BY <3>0, MinOfTwo
    <3>3. last \in [start : Nat, end : Nat, order : Nat]
        BY <2>1 DEF Ordered
    <3>4. m = [last EXCEPT !.end = Max({last.end, next.end}), !.order = Min({last.order, next.order})]
        BY DEF Merged
    <3> HIDE DEF m
    <3>5. /\ m \in [start : Nat, end : Nat, order : Nat]
          /\ m.start = last.start /\ m.end = Max({last.end, next.end})
          /\ m.order = Min({last.order, next.order})
        BY <1>1, <2>1a, <3>1, <3>2, <3>3, <3>4
    <3>6. m.end \in Nat /\ last.end <= m.end /\ next.end <= m.end /\ m.end \in {last.end, next.end}
        BY <1>1, <2>1a, <3>1, <3>5
    <3>7. m.order \in Nat /\ m.order <= last.order /\ m.order <= next.order
          /\ m.order \in {last.order, next.order}
        BY <1>1, <2>1a, <3>2, <3>5
    <3>8. m \in Ordered
      <4>1. m.start <= m.end
          BY <2>1a, <3>5, <3>6
      <4> QED BY <3>5, <4>1 DEF Ordered
    <3> QED BY <2>1a, <3>5, <3>6, <3>7, <3>8
  <2>3. d \in Seq(Ordered) /\ Len(d) = n /\ d[n] = m /\ \A k \in 1..n : k < n => d[k] = done[k]
      BY <1>0, <1>1, <1>1a, <2>1, <2>2, SMTT(60) DEF Front
  <2>4. last.start <= next.start
    <3>1. i = 0 => done = <<>>
      <4>1. i = 0 => ~(\E k \in 1..n : TRUE)
          BY DEF Loop
      <4> QED BY <4>1, <2>1
    <3>2. i > 0 /\ last.start <= sorted[i].start /\ sorted[i].start <= next.start
      <4>0. i > 0
          BY <1>3, <3>1
      <4>1. i > 0 /\ last.start <= sorted[i].start
          BY <4>0 DEF Loop, Last
      <4>2. i \in 1..Len(sorted) /\ i + 1 \in 1..Len(sorted)
          BY <4>1
      <4> QED BY <4>1, <4>2
    <3> QED BY <3>2, <2>1, <1>0, <1>1, <1>1a, <1>2, <1>2a
  <2>5. next.start <= last.end + 1 + Gap
      BY <1>3 DEF Near, Last
  <2> HIDE DEF d, m
  <2>6. i + 1 > 0 => d # <<>> /\ Last(d).start <= sorted[i + 1].start
      BY <2>1, <2>2, <2>3, <2>4 DEF Last
  <2>7. \A k, l \in 1..Len(d) : k < l => Apart(d[k], d[l])
    <3> SUFFICES ASSUME NEW k \in 1..n, NEW l \in 1..n, k < l PROVE Apart(d[k], d[l])
        BY <2>3
    <3>1. Apart(done[k], done[l])
        BY DEF Loop
    <3>2. d[k] = done[k] /\ d[l].start = done[l].start
      <4>1. k < n /\ k \in 1..n
          OBVIOUS
      <4>2. CASE l = n
          BY <4>1, <4>2, <2>2, <2>3
      <4>3. CASE l < n
          BY <4>1, <4>3, <2>3
      <4> QED BY <4>2, <4>3
    <3> QED BY <3>1, <3>2 DEF Apart
  <2>8. \A j \in 1..(i + 1) : \E k \in 1..Len(d) :
           Within(sorted[j], d[k]) /\ d[k].order <= sorted[j].order
    <3> TAKE j \in 1..(i + 1)
    <3>1. CASE j = i + 1
      <4>1. Within(sorted[j], d[n]) /\ d[n].order <= sorted[j].order
          BY <3>1, <2>2, <2>3, <2>4 DEF Within
      <4> QED BY <4>1, <2>1, <2>3
    <3>2. CASE j # i + 1
      <4>0. j \in 1..i
          BY <3>2
      <4>1. PICK k \in 1..n : Within(sorted[j], done[k]) /\ done[k].order <= sorted[j].order
          BY <4>0, <1>0b
      <4>2. Within(sorted[j], d[k]) /\ d[k].order <= sorted[j].order
        <5>1. CASE k < n
            BY <4>1, <5>1, <2>3
        <5>2. CASE k = n
          <6>1. sorted[j].end \in Nat /\ sorted[j].order \in Nat
              BY <1>2
          <6>2. Within(sorted[j], last) /\ last.order <= sorted[j].order /\ d[k] = m
              BY <4>1, <5>2, <2>3
          <6>3. last.start <= sorted[j].start /\ sorted[j].end <= last.end
              BY <6>2 DEF Within
          <6>4. m.start <= sorted[j].start /\ sorted[j].end <= m.end
              BY <6>1, <6>3, <2>2, <2>1a, SMTT(60)
          <6>5. m.order <= sorted[j].order
              BY <6>1, <6>2, <2>2, <2>1a, SMTT(60)
          <6> QED BY <6>2, <6>4, <6>5 DEF Within
        <5> QED BY <5>1, <5>2
      <4> QED BY <4>2, <2>3
    <3> QED BY <3>1, <3>2
  <2>9. ASSUME NEW k \in 1..Len(d)
        PROVE  /\ \E j \in 1..(i + 1) : sorted[j].start = d[k].start
               /\ \E j \in 1..(i + 1) : sorted[j].end = d[k].end
               /\ \E j \in 1..(i + 1) : sorted[j].order = d[k].order /\ Within(sorted[j], d[k])
               /\ \A pos \in d[k].start..d[k].end :
                     \/ \E j \in 1..(i + 1) : sorted[j].start <= pos /\ pos <= sorted[j].end
                     \/ \E j, l \in 1..(i + 1) : Between(sorted[j], pos, sorted[l])
    <3>1. PICK a \in 1..i : sorted[a].start = done[k].start
        BY <2>3 DEF Loop
    <3>2. PICK b \in 1..i : sorted[b].end = done[k].end
        BY <2>3 DEF Loop
    <3>3. PICK c \in 1..i : sorted[c].order = done[k].order /\ Within(sorted[c], done[k])
        BY <2>3 DEF Loop
    <3>4. \A pos \in done[k].start..done[k].end :
              \/ \E j \in 1..i : sorted[j].start <= pos /\ pos <= sorted[j].end
              \/ \E j, l \in 1..i : Between(sorted[j], pos, sorted[l])
        BY <2>3 DEF Loop
    <3>5. CASE k < n
      <4>1. d[k] = done[k]
          BY <3>5, <2>3
      <4> QED BY <4>1, <3>1, <3>2, <3>3, <3>4, <1>2, <1>2a
    <3>6. CASE k = n
      <4>1. d[k] = m /\ done[k] = last
          BY <3>6, <2>3
      <4>2. \E j \in 1..(i + 1) : sorted[j].start = d[k].start
          BY <4>1, <3>1, <2>2
      <4>3. \E j \in 1..(i + 1) : sorted[j].end = d[k].end
          BY <4>1, <3>2, <2>2
      <4>4. \E j \in 1..(i + 1) : sorted[j].order = d[k].order /\ Within(sorted[j], d[k])
        <5>1. CASE m.order = last.order
          <6>0. sorted[c].end \in Nat /\ Within(sorted[c], last)
              BY <3>3, <4>1, <1>2, <1>2a
          <6>1. Within(sorted[c], m)
              BY <6>0, <2>1a, <2>2, SMTT(60) DEF Within
          <6>2. sorted[c].order = d[k].order /\ Within(sorted[c], d[k])
              BY <5>1, <6>1, <3>3, <4>1
          <6>3. c \in 1..(i + 1)
              OBVIOUS
          <6> QED BY <6>2, <6>3
        <5>2. CASE m.order = next.order
          <6>1. Within(next, m)
              BY <2>2, <2>4 DEF Within
          <6> QED BY <5>2, <6>1, <4>1
        <5> QED BY <5>1, <5>2, <2>2
      <4>5. ASSUME NEW pos \in d[k].start..d[k].end
            PROVE  \/ \E j \in 1..(i + 1) : sorted[j].start <= pos /\ pos <= sorted[j].end
                   \/ \E j, l \in 1..(i + 1) : Between(sorted[j], pos, sorted[l])
        <5>0. pos \in Int /\ last.start <= pos /\ pos <= m.end
            BY <4>1, <2>1, <2>2
        <5>1. CASE pos <= last.end
          <6>1. pos \in done[k].start..done[k].end
              BY <5>0, <5>1, <4>1, <2>1
          <6> QED BY <6>1, <3>4, <1>2, <1>2a
        <5>2. CASE next.start <= pos /\ pos <= next.end
            BY <5>2
        <5>3. CASE last.end < pos /\ pos < next.start
          <6>0. sorted[b].end = last.end /\ sorted[i + 1] = next
              BY <3>2, <4>1
          <6>1. Between(sorted[b], pos, sorted[i + 1])
            <7>1. last.end < pos /\ pos < next.start /\ next.start - last.end - 1 <= Gap
              <8>1. next.start \in Int /\ last.end \in Int /\ Gap \in Int
                  BY <2>1a, <1>0, <1>1
              <8>2. next.start - last.end - 1 <= Gap
                  BY <8>1, <2>5, Sums
              <8> QED BY <5>3, <8>2
            <7> QED BY <6>0, <7>1 DEF Between
          <6> QED BY <6>1, <1>2, <1>2a
        <5>4. CASE next.start <= pos /\ last.end < pos
          <6>1. m.end = next.end
              BY <5>0, <5>4, <2>1a, <2>2
          <6> QED BY <5>0, <5>2, <5>4, <6>1
        <5>5. next.start \in Int /\ last.end \in Int
            BY <1>1, <2>1a
        <5>6. pos <= last.end \/ (last.end < pos /\ pos < next.start) \/ (next.start <= pos /\ last.end < pos)
            BY <5>0, <5>5
        <5> QED BY <5>1, <5>3, <5>4, <5>6
      <4> QED BY <4>2, <4>3, <4>4, <4>5
    <3> QED BY <3>5, <3>6, <2>3
  <2>10. Loop(d, sorted, i + 1)
      BY <2>3, <2>6, <2>7, <2>8, <2>9 DEF Loop
  <2> QED BY <2>1, <2>10
<1>4. CASE ~(done # <<>> /\ Near(Last(done), next))
  <2> DEFINE d == Append(done, next)
  <2>1. Joined(done, next) = d
      BY <1>4 DEF Joined
  <2>2. d \in Seq(Ordered) /\ Len(d) = n + 1 /\ d[n + 1] = next /\ \A k \in 1..n : d[k] = done[k]
      BY <1>0, <1>1, <1>1a
  <2>3. n > 0 => Apart(last, next)
      BY <1>0, <1>1, <1>1a, <1>4 DEF Near, Last, Apart
  <2> HIDE DEF d
  <2>4. i + 1 > 0 => d # <<>> /\ Last(d).start <= sorted[i + 1].start
      BY <2>2, <1>0, <1>1, <1>1a DEF Last
  <2>5. \A k, l \in 1..Len(d) : k < l => Apart(d[k], d[l])
    <3> SUFFICES ASSUME NEW k \in 1..(n + 1), NEW l \in 1..(n + 1), k < l PROVE Apart(d[k], d[l])
        BY <2>2
    <3>1. CASE l <= n
      <4>1. k \in 1..n /\ l \in 1..n
          BY <3>1, <1>0, <1>1, <1>1a
      <4>2. Apart(done[k], done[l])
          BY <4>1 DEF Loop
      <4> QED BY <4>1, <4>2, <2>2
    <3>2. CASE l = n + 1
      <4>1. k \in 1..n /\ n > 0
          BY <3>2, <1>0, <1>1, <1>1a
      <4>2. done[k].end <= last.end
        <5>1. CASE k < n
          <6>1. Apart(done[k], last)
            <7>1. n \in 1..n
                BY <4>1, <1>0n
            <7> QED BY <5>1, <4>1, <7>1, <1>0a
          <6>2. done[k] \in Ordered /\ last \in Ordered
              BY <4>1, <1>0, <1>1, <1>1a
          <6>3. done[k].end + 1 + Gap < last.start
              BY <6>1 DEF Apart
          <6>4. /\ done[k].end \in Nat /\ last.start \in Nat /\ last.end \in Nat
                /\ last.start <= last.end /\ Gap \in Nat
              BY <6>2, OrderedType, <1>0
          <6>5. ASSUME NEW x \in Nat, NEW y \in Nat, NEW z \in Nat, NEW g \in Nat,
                       x + 1 + g < y, y <= z
                PROVE  x <= z
              BY ONLY <6>5
          <6> HIDE DEF Loop
          <6> QED BY ONLY <6>3, <6>4, <6>5
        <5>2. CASE k = n
            BY <5>2, <4>1, <1>0, <1>1, <1>1a
        <5> QED BY <5>1, <5>2, <4>1, <1>0, <1>1, <1>1a
      <4>3. done[k] \in Ordered /\ last \in Ordered
          BY <4>1, <1>0, <1>1, <1>1a
      <4>4. d[k] = done[k] /\ d[l] = next
          BY <4>1, <3>2, <2>2
      <4>5. last.end + 1 + Gap < next.start
          BY <4>1, <2>3 DEF Apart
      <4>6. done[k].end \in Nat /\ last.end \in Nat
          BY <4>1, <1>1, <1>1a
      <4>7. done[k].end + 1 + Gap < next.start
        <5>1. done[k].end \in Int /\ last.end \in Int /\ next.start \in Int /\ Gap \in Int
            BY <4>6, <1>0, <1>1
        <5> QED BY <4>2, <4>5, <5>1, Sums
      <4> QED BY <4>4, <4>7 DEF Apart
    <3>3. l <= n \/ l = n + 1
        BY <1>0n
    <3> QED BY <3>1, <3>2, <3>3
  <2>6. \A j \in 1..(i + 1) : \E k \in 1..Len(d) :
           Within(sorted[j], d[k]) /\ d[k].order <= sorted[j].order
    <3> TAKE j \in 1..(i + 1)
    <3>1. CASE j = i + 1
      <4>1. Within(sorted[j], d[n + 1]) /\ d[n + 1].order <= sorted[j].order
          BY <3>1, <2>2, <1>0, <1>1, <1>1a DEF Within
      <4> QED BY <4>1, <2>2, <1>0, <1>1, <1>1a, SMTT(60)
    <3>2. CASE j # i + 1
      <4>0. j \in 1..i
          BY <3>2
      <4>1. PICK k \in 1..n : Within(sorted[j], done[k]) /\ done[k].order <= sorted[j].order
          BY <4>0, <1>0b
      <4> QED BY <4>1, <2>2, SMTT(60)
    <3> QED BY <3>1, <3>2
  <2>7. ASSUME NEW k \in 1..Len(d)
        PROVE  /\ \E j \in 1..(i + 1) : sorted[j].start = d[k].start
               /\ \E j \in 1..(i + 1) : sorted[j].end = d[k].end
               /\ \E j \in 1..(i + 1) : sorted[j].order = d[k].order /\ Within(sorted[j], d[k])
               /\ \A pos \in d[k].start..d[k].end :
                     \/ \E j \in 1..(i + 1) : sorted[j].start <= pos /\ pos <= sorted[j].end
                     \/ \E j, l \in 1..(i + 1) : Between(sorted[j], pos, sorted[l])
    <3>1. CASE k = n + 1
      <4>1. d[k] = sorted[i + 1] /\ i + 1 \in 1..(i + 1) /\ Within(next, next)
          BY <3>1, <2>2, <1>0, <1>1, <1>1a DEF Within
      <4>2. \A pos \in d[k].start..d[k].end : sorted[i + 1].start <= pos /\ pos <= sorted[i + 1].end
          BY <4>1, <1>0, <1>1, <1>1a
      <4> QED BY <4>1, <4>2
    <3>2. CASE k # n + 1
      <4>1. k \in 1..n /\ d[k] = done[k]
          BY <3>2, <2>2, <1>0, <1>1, <1>1a
      <4>2. /\ \E j \in 1..i : sorted[j].start = done[k].start
            /\ \E j \in 1..i : sorted[j].end = done[k].end
            /\ \E j \in 1..i : sorted[j].order = done[k].order /\ Within(sorted[j], done[k])
            /\ \A pos \in done[k].start..done[k].end :
                \/ \E j \in 1..i : sorted[j].start <= pos /\ pos <= sorted[j].end
                \/ \E j, m \in 1..i : Between(sorted[j], pos, sorted[m])
          BY <4>1 DEF Loop
      <4> QED BY <4>1, <4>2, <1>2, <1>2a
    <3> QED BY <3>1, <3>2
  <2>8. Loop(d, sorted, i + 1)
      BY <2>2, <2>4, <2>5, <2>6, <2>7 DEF Loop
  <2> QED BY <2>1, <2>8
<1> QED BY <1>3, <1>4

\* What coalesceRanges returns: ranges further apart than the gap, that hold every range given
\* to them, keep the earliest place of those they join, and add no byte but those of gaps small
\* enough to be read over.
LEMMA CoalesceSays ==
    ASSUME NEW ranges, IsFiniteSet(ranges), ranges \subseteq Ordered, ranges # {}
    PROVE  LET c == CoalesceRanges(ranges) IN
           /\ c \in Seq(Ordered) /\ c # <<>>
           /\ \A k, l \in 1..Len(c) : k < l => Apart(c[k], c[l])
           /\ \A r \in ranges : \E k \in 1..Len(c) : Within(r, c[k]) /\ c[k].order <= r.order
           /\ \A k \in 1..Len(c) :
                 /\ \E r \in ranges : r.order = c[k].order /\ Within(r, c[k])
                 /\ \A pos \in c[k].start..c[k].end :
                       \/ \E r \in ranges : r.start <= pos /\ pos <= r.end
                       \/ \E a, b \in ranges : Between(a, pos, b)
<1> DEFINE key == [r \in ranges |-> r.start]
           n == Cardinality(ranges)
<1> SUFFICES ASSUME NEW s, s = InOrder(ranges, key), NEW c, c = Coalesced(s)[Len(s)]
             PROVE  /\ c \in Seq(Ordered) /\ c # <<>>
                    /\ \A k, l \in 1..Len(c) : k < l => Apart(c[k], c[l])
                    /\ \A r \in ranges : \E k \in 1..Len(c) : Within(r, c[k]) /\ c[k].order <= r.order
                    /\ \A k \in 1..Len(c) :
                          /\ \E r \in ranges : r.order = c[k].order /\ Within(r, c[k])
                          /\ \A pos \in c[k].start..c[k].end :
                                \/ \E r \in ranges : r.start <= pos /\ pos <= r.end
                                \/ \E a, b \in ranges : Between(a, pos, b)
    BY DEF CoalesceRanges
<1>1. key \in [ranges -> Nat]
    BY DEF Ordered
<1>2. /\ n \in Nat /\ s \in [1..n -> ranges] /\ Len(s) = n
      /\ \A i, j \in 1..n : i < j => key[s[i]] <= key[s[j]]
      /\ \A x \in ranges : \E i \in 1..n : s[i] = x
  <2>1. LET t == InOrder(ranges, key) m == Cardinality(ranges) IN
           /\ m \in Nat /\ t \in [1..m -> ranges] /\ Len(t) = m /\ t \in Seq(ranges)
           /\ \A i, j \in 1..m : t[i] = t[j] => i = j
           /\ \A i, j \in 1..m : i < j => key[t[i]] <= key[t[j]]
           /\ \A x \in ranges : \E i \in 1..m : t[i] = x
    <3> HIDE DEF key
    <3> QED BY <1>1, InOrderSorts, ZenonT(60)
  <2> HIDE DEF key
  <2> QED BY <2>1
<1>3. s \in Seq(Ordered)
    BY <1>2
<1>4. \A i, j \in 1..n : i < j => s[i].start <= s[j].start
    BY <1>2
<1> HIDE DEF key, n
<1> DEFINE N == {m \in Nat : m <= n => Loop(Coalesced(s)[m], s, m)}
<1>5. 0 \in N
  <2>1. Coalesced(s)[0] = <<>>
      BY <1>2, CoalescedStep
  <2>2. Loop(<<>>, s, 0)
      BY DEF Loop
  <2> QED BY <2>1, <2>2
<1>6. ASSUME NEW m \in Nat, m \in N PROVE m + 1 \in N
  <2> SUFFICES ASSUME m + 1 <= n PROVE Loop(Coalesced(s)[m + 1], s, m + 1)
      OBVIOUS
  <2>1. Loop(Coalesced(s)[m], s, m)
      BY <1>2, <1>6
  <2>2. Coalesced(s)[m + 1] = Joined(Coalesced(s)[m], s[m + 1])
    <3>1. m + 1 \in 1..Len(s) /\ (m + 1) - 1 = m
        BY <1>2
    <3>2. Len(s) \in Nat
        BY <1>2
    <3>3. \A i \in 1..Len(s) : Coalesced(s)[i] = Joined(Coalesced(s)[i - 1], s[i])
        BY <3>2, CoalescedStep
    <3> QED BY <3>1, <3>3
  <2> QED BY <2>1, <2>2, <1>2, <1>3, <1>4, JoinedLoop, SMTT(60)
<1>7. Nat \subseteq N
  <2> HIDE DEF N
  <2> QED BY <1>5, <1>6, Climb
<1>8. Loop(c, s, n)
    BY <1>2, <1>7
<1>9. n > 0
  <2>1. PICK x \in ranges : TRUE
      OBVIOUS
  <2> QED BY <2>1, <1>2
<1>10. c \in Seq(Ordered) /\ c # <<>> /\ \A k, l \in 1..Len(c) : k < l => Apart(c[k], c[l])
    BY <1>8, <1>9 DEF Loop
<1>11. ASSUME NEW r \in ranges
       PROVE  \E k \in 1..Len(c) : Within(r, c[k]) /\ c[k].order <= r.order
  <2>1. PICK i \in 1..n : s[i] = r
      BY <1>2
  <2> QED BY <2>1, <1>8 DEF Loop
<1>12. ASSUME NEW k \in 1..Len(c)
       PROVE  /\ \E r \in ranges : r.order = c[k].order /\ Within(r, c[k])
              /\ \A pos \in c[k].start..c[k].end :
                    \/ \E r \in ranges : r.start <= pos /\ pos <= r.end
                    \/ \E a, b \in ranges : Between(a, pos, b)
  <2>1. /\ \E j \in 1..n : s[j].order = c[k].order /\ Within(s[j], c[k])
        /\ \A pos \in c[k].start..c[k].end :
              \/ \E j \in 1..n : s[j].start <= pos /\ pos <= s[j].end
              \/ \E j, m \in 1..n : Between(s[j], pos, s[m])
      BY <1>8, ZenonT(60) DEF Loop
  <2>2. \A j \in 1..n : s[j] \in ranges
      BY <1>2
  <2> QED BY <2>1, <2>2
<1> QED BY <1>10, <1>11, <1>12

\* What parsing one element makes of it: the positions it asks for, all or none.
Spans == [kind : {"range"}, start : Nat, end : Nat]

\* What parseOneRange returns for one element of a Range header: nothing at all, or the
\* positions inside the object that the element asks for, or the word that it asks for none.
LEMMA OneRangeSays ==
    ASSUME NEW spec \in Specs, NEW size \in Nat, size # 0
    PROVE  LET p == ParseOneRange(spec, size) IN
           \/ p = Ignored
           \/ p = Unsatisfiable /\ \A pos \in 0..size - 1 : ~Requested(spec, pos, size)
           \/ /\ p \in Spans /\ p.start <= p.end /\ p.end < size
              /\ \A pos \in 0..size - 1 :
                    Requested(spec, pos, size) <=> p.start <= pos /\ pos <= p.end
<1>1. None \notin Int
    BY NoneAssumption
<1>2. spec.first \in Nat \cup {None} /\ spec.last \in Nat \cup {None}
      /\ (spec.first # None \/ spec.last # None)
    BY DEF Specs
<1>3. CASE spec.first = None
  <2>1. spec.last \in Nat
      BY <1>2, <1>3
  <2>2. CASE spec.last = 0
      BY <2>2, <1>3 DEF ParseOneRange, Suffix, Requested
  <2>3. CASE spec.last > 0
    <3> DEFINE d == size - spec.last
    <3>1. d \in Int /\ d < size
        BY <2>1, <2>3
    <3>2. Max({0, d}) = IF 0 >= d THEN 0 ELSE d
        BY <3>1, MaxOfTwo
    <3>3. ParseOneRange(spec, size) = RangeOf(Max({0, d}), size - 1)
        BY <1>3, <2>1, <2>3 DEF ParseOneRange, Suffix
    <3>4. \A pos \in 0..size - 1 : Requested(spec, pos, size) <=> pos >= d
        BY <1>3 DEF Requested
    <3> HIDE DEF d
    <3> QED BY <3>1, <3>2, <3>3, <3>4 DEF RangeOf, Spans
  <2> QED BY <2>1, <2>2, <2>3
<1>4. CASE spec.first # None
  <2>1. spec.first \in Nat
      BY <1>2, <1>4
  <2>2. CASE spec.first >= size
      BY <2>1, <2>2, <1>4 DEF ParseOneRange, Requested
  <2>3. CASE spec.first < size /\ spec.last = None
      BY <2>1, <2>3, <1>1, <1>4 DEF ParseOneRange, Requested, RangeOf, Spans
  <2>4. CASE spec.first < size /\ spec.last # None /\ spec.last < spec.first
      BY <1>2, <2>1, <2>4, <1>4 DEF ParseOneRange
  <2>5. CASE spec.first < size /\ spec.last # None /\ spec.last >= spec.first
    <3>1. spec.last \in Int
        BY <1>2, <2>5
    <3>2. Min({spec.last, size - 1}) = IF spec.last <= size - 1 THEN spec.last ELSE size - 1
        BY <3>1, MinOfTwo
    <3>3. ParseOneRange(spec, size) = RangeOf(spec.first, Min({spec.last, size - 1}))
        BY <1>2, <2>1, <2>5, <1>4 DEF ParseOneRange
    <3>4. \A pos \in 0..size - 1 : Requested(spec, pos, size) <=> spec.first <= pos /\ pos <= spec.last
        BY <2>5, <1>4 DEF Requested
    <3> QED BY <3>1, <3>2, <3>3, <3>4, <2>1, <2>5 DEF RangeOf, Spans
  <2> QED BY <2>1, <2>2, <2>3, <2>4, <2>5, <1>2
<1> QED BY <1>3, <1>4

\* What a plan is for: the spans of an object of this size that answer a request
\* for these elements, in an order.
Wants(specs, pos, size) == \E i \in DOMAIN specs : Requested(specs[i], pos, size)
Touches(spec, span, size) == \E pos \in span.start..span.end : Requested(spec, pos, size)
First(specs, span, size, i) ==
    Touches(specs[i], span, size) /\ \A j \in 1..i - 1 : ~Touches(specs[j], span, size)
Disjoint(a, b) == a.end < b.start \/ b.end < a.start
Filled(specs, pos, size) ==
    \/ Wants(specs, pos, size)
    \/ \E a, b \in 0..size - 1 :
          /\ Wants(specs, a, size) /\ Wants(specs, b, size)
          /\ a < pos /\ pos < b /\ b - a - 1 <= Gap

Serves(plan, specs, size) ==
    /\ plan \in Seq(Spans)
    /\ \A k \in 1..Len(plan) : plan[k].start <= plan[k].end /\ plan[k].end < size
    /\ \A k, l \in 1..Len(plan) : k # l => Disjoint(plan[k], plan[l])
    /\ \A pos \in 0..size - 1 : Wants(specs, pos, size) =>
          \E k \in 1..Len(plan) : plan[k].start <= pos /\ pos <= plan[k].end
    /\ \A k \in 1..Len(plan) : \A pos \in plan[k].start..plan[k].end : Filled(specs, pos, size)
    /\ \E order \in [1..Len(plan) -> DOMAIN specs] :
          /\ \A k \in 1..Len(plan) : First(specs, plan[k], size, order[k])
          /\ \A k, l \in 1..Len(plan) : k < l => order[k] < order[l]

\* The elements that ask for something, as coalesceRanges takes them.
Asks(specs, size, found) ==
    /\ IsFiniteSet(found) /\ found \subseteq Ordered
    /\ \A r \in found :
          /\ r.order \in DOMAIN specs /\ r.end < size
          /\ \A pos \in 0..size - 1 :
                Requested(specs[r.order], pos, size) <=> r.start <= pos /\ pos <= r.end
    /\ \A r, t \in found : r.order = t.order => r = t
    /\ \A i \in DOMAIN specs : \A pos \in 0..size - 1 :
          Requested(specs[i], pos, size) => \E r \in found : r.order = i

\* The ranges that parseRanges collects before it coalesces them ask for exactly what the
\* header asks for.
LEMMA FoundSays ==
    ASSUME NEW specs \in Seq(Specs), NEW size \in Nat, size # 0,
           NEW parsed, parsed = [i \in DOMAIN specs |-> ParseOneRange(specs[i], size)],
           \A i \in DOMAIN specs : parsed[i] # Ignored,
           NEW found,
           found = {[start |-> parsed[i].start, end |-> parsed[i].end, order |-> i] :
                       i \in {j \in DOMAIN specs : parsed[j].kind = "range"}}
    PROVE  Asks(specs, size, found)
<1> DEFINE J == {j \in DOMAIN specs : parsed[j].kind = "range"}
           f == [i \in J |-> [start |-> parsed[i].start, end |-> parsed[i].end, order |-> i]]
<1>1. \A i \in DOMAIN specs :
          \/ parsed[i] = Unsatisfiable /\ \A pos \in 0..size - 1 : ~Requested(specs[i], pos, size)
          \/ /\ parsed[i] \in Spans /\ parsed[i].start <= parsed[i].end /\ parsed[i].end < size
             /\ \A pos \in 0..size - 1 : Requested(specs[i], pos, size) <=>
                   parsed[i].start <= pos /\ pos <= parsed[i].end
  <2> TAKE i \in DOMAIN specs
  <2>1. specs[i] \in Specs /\ parsed[i] = ParseOneRange(specs[i], size) /\ parsed[i] # Ignored
      OBVIOUS
  <2> QED BY <2>1, OneRangeSays
<1>2. \A i \in J : /\ parsed[i].start \in Nat /\ parsed[i].end \in Nat
                   /\ parsed[i].start <= parsed[i].end /\ parsed[i].end < size
                   /\ \A pos \in 0..size - 1 : Requested(specs[i], pos, size) <=>
                         parsed[i].start <= pos /\ pos <= parsed[i].end
    BY <1>1 DEF Unsatisfiable, Spans
<1>3. \A i \in DOMAIN specs \ J : \A pos \in 0..size - 1 : ~Requested(specs[i], pos, size)
    BY <1>1 DEF Unsatisfiable, Spans
<1>4. DOMAIN specs = 1..Len(specs) /\ Len(specs) \in Nat
    OBVIOUS
<1>5. IsFiniteSet(J)
  <2>1. IsFiniteSet(1..Len(specs)) /\ J \in SUBSET (1..Len(specs))
      BY <1>4, FS_Interval
  <2> QED BY <2>1, FS_Subset
<1>6. \A r \in found : \E i \in J :
          r = [start |-> parsed[i].start, end |-> parsed[i].end, order |-> i]
    OBVIOUS
<1>7. \A i \in J : [start |-> parsed[i].start, end |-> parsed[i].end, order |-> i] \in found
    OBVIOUS
<1>8. IsFiniteSet(found)
  <2>1. f \in Surjection(J, found)
      BY <1>6, <1>7 DEF Surjection
  <2> HIDE DEF J, f
  <2> QED BY <2>1, <1>5, FS_Surjection
<1>9. J \subseteq 1..Len(specs) /\ J \subseteq DOMAIN specs /\ J \subseteq Nat
    BY <1>4
<1> HIDE DEF J
<1>10. found \subseteq Ordered
  <2> SUFFICES ASSUME NEW r \in found PROVE r \in Ordered
      OBVIOUS
  <2>1. PICK i \in J : r = [start |-> parsed[i].start, end |-> parsed[i].end, order |-> i]
      BY <1>6
  <2>2. parsed[i].start \in Nat /\ parsed[i].end \in Nat /\ parsed[i].start <= parsed[i].end /\ i \in Nat
      BY <1>2, <1>9
  <2> QED BY <2>1, <2>2 DEF Ordered
<1>11. ASSUME NEW r \in found
       PROVE  /\ r.order \in DOMAIN specs /\ r.end < size
              /\ \A pos \in 0..size - 1 :
                    Requested(specs[r.order], pos, size) <=> r.start <= pos /\ pos <= r.end
  <2>1. PICK i \in J : r = [start |-> parsed[i].start, end |-> parsed[i].end, order |-> i]
      BY <1>6
  <2>2. r.order = i /\ r.start = parsed[i].start /\ r.end = parsed[i].end
      BY <2>1
  <2> QED BY <2>2, <1>2, <1>9
<1>12. \A r, t \in found : r.order = t.order => r = t
  <2> TAKE r, t \in found
  <2>1. PICK i \in J : r = [start |-> parsed[i].start, end |-> parsed[i].end, order |-> i]
      BY <1>6
  <2>2. PICK j \in J : t = [start |-> parsed[j].start, end |-> parsed[j].end, order |-> j]
      BY <1>6
  <2> QED BY <2>1, <2>2
<1>13. ASSUME NEW i \in DOMAIN specs, NEW pos \in 0..size - 1, Requested(specs[i], pos, size)
       PROVE  \E r \in found : r.order = i
  <2>1. i \in J
      BY <1>3, <1>13
  <2>2. [start |-> parsed[i].start, end |-> parsed[i].end, order |-> i] \in found
      BY <2>1, <1>7
  <2> QED BY <2>2
<1> QED BY <1>8, <1>10, <1>11, <1>12, <1>13 DEF Asks

\* A function of 1..n with values in S is a sequence over S.
LEMMA MadeSeq ==
    ASSUME NEW S, NEW n \in Nat, NEW f, \A i \in 1..n : f[i] \in S,
           NEW p, p = [i \in 1..n |-> f[i]]
    PROVE  p \in Seq(S)
OBVIOUS

\* Coalesced and put back in the order of the request, they serve it.
LEMMA OrderedServes ==
    ASSUME NEW specs \in Seq(Specs), NEW size \in Nat, size # 0,
           NEW found, Asks(specs, size, found), found # {},
           NEW coalesced, coalesced = ToSet(CoalesceRanges(found)),
           NEW ordered, ordered = InOrder(coalesced, [r \in coalesced |-> r.order]),
           NEW plan, plan = [i \in DOMAIN ordered |-> RangeOf(ordered[i].start, ordered[i].end)]
    PROVE  plan # <<>> /\ Serves(plan, specs, size)
<1> SUFFICES ASSUME NEW c, c = CoalesceRanges(found) PROVE plan # <<>> /\ Serves(plan, specs, size)
    OBVIOUS
<1>1. IsFiniteSet(found) /\ found \subseteq Ordered
    BY DEF Asks
<1>2. c \in Seq(Ordered) /\ c # <<>>
    BY <1>1, CoalesceSays
<1>3. \A k, l \in 1..Len(c) : k < l => Apart(c[k], c[l])
    BY <1>1, CoalesceSays
<1>4. \A r \in found : \E k \in 1..Len(c) : Within(r, c[k]) /\ c[k].order <= r.order
    BY <1>1, CoalesceSays
<1>5. \A k \in 1..Len(c) :
          /\ \E r \in found : r.order = c[k].order /\ Within(r, c[k])
          /\ \A pos \in c[k].start..c[k].end :
                \/ \E r \in found : r.start <= pos /\ pos <= r.end
                \/ \E a, b \in found : Between(a, pos, b)
    BY <1>1, CoalesceSays
<1>6. /\ coalesced \subseteq Ordered /\ coalesced # {}
      /\ \A x \in coalesced : \E k \in 1..Len(c) : x = c[k]
      /\ \A k \in 1..Len(c) : c[k] \in coalesced
      /\ Len(c) \in Nat
    BY <1>2 DEF ToSet
<1>7. IsFiniteSet(coalesced)
  <2>1. c \in Surjection(1..Len(c), coalesced)
      BY <1>2, <1>6 DEF Surjection
  <2>2. IsFiniteSet(1..Len(c))
      BY <1>6, FS_Interval
  <2> QED BY <2>1, <2>2, FS_Surjection
<1> DEFINE m == Cardinality(coalesced)
           key == [r \in coalesced |-> r.order]
<1>8. key \in [coalesced -> Nat]
  <2>1. \A r \in coalesced : r.order \in Nat
      BY <1>6, OrderedType
  <2> QED BY <2>1
<1>9. /\ m \in Nat /\ ordered \in [1..m -> coalesced] /\ Len(ordered) = m
      /\ \A i, j \in 1..m : ordered[i] = ordered[j] => i = j
      /\ \A i, j \in 1..m : i < j => ordered[i].order <= ordered[j].order
      /\ \A x \in coalesced : \E i \in 1..m : ordered[i] = x
  <2>1. LET t == InOrder(coalesced, key) n == Cardinality(coalesced) IN
           /\ n \in Nat /\ t \in [1..n -> coalesced] /\ Len(t) = n /\ t \in Seq(coalesced)
           /\ \A i, j \in 1..n : t[i] = t[j] => i = j
           /\ \A i, j \in 1..n : i < j => key[t[i]] <= key[t[j]]
           /\ \A x \in coalesced : \E i \in 1..n : t[i] = x
    <3> HIDE DEF key
    <3> QED BY <1>7, <1>8, InOrderSorts, SMTT(60)
  <2>2. ordered = InOrder(coalesced, key)
      OBVIOUS
  <2>3. /\ m \in Nat /\ ordered \in [1..m -> coalesced] /\ Len(ordered) = m
        /\ \A i, j \in 1..m : ordered[i] = ordered[j] => i = j
        /\ \A i, j \in 1..m : i < j => key[ordered[i]] <= key[ordered[j]]
        /\ \A x \in coalesced : \E i \in 1..m : ordered[i] = x
    <3> HIDE DEF key
    <3> QED BY <2>1, <2>2, ZenonT(60)
  <2> QED BY <2>3
<1> HIDE DEF m, key
<1>9a. m \in Nat
    BY <1>9
<1>9b. ordered \in [1..m -> coalesced]
    BY <1>9
<1>9c. \A i \in 1..m : ordered[i] \in coalesced
    BY <1>9b
<1>9d. \A i, j \in 1..m : ordered[i] = ordered[j] => i = j
    BY <1>9
<1>9e. \A i, j \in 1..m : i < j => ordered[i].order <= ordered[j].order
    BY <1>9
<1>9f. \A x \in coalesced : \E i \in 1..m : ordered[i] = x
    BY <1>9
<1>10. \A x \in coalesced : /\ x.start \in Nat /\ x.end \in Nat /\ x.order \in Nat /\ x.start <= x.end
    BY <1>6, OrderedType
<1>10a. \A r \in found : r.start \in Nat /\ r.end \in Nat /\ r.order \in Nat /\ r.start <= r.end
    BY <1>1, OrderedType
<1>11. \A x, y \in coalesced : x # y => Apart(x, y) \/ Apart(y, x)
  <2> TAKE x, y \in coalesced
  <2>1. PICK k \in 1..Len(c) : x = c[k]
      BY <1>6
  <2>2. PICK l \in 1..Len(c) : y = c[l]
      BY <1>6
  <2>3. k < l \/ l < k \/ k = l
      BY <1>6
  <2> QED BY <2>1, <2>2, <2>3, <1>3
<1>12. ASSUME NEW x \in coalesced
       PROVE  /\ \E r \in found : r.order = x.order /\ Within(r, x)
              /\ \A pos \in x.start..x.end :
                    \/ \E r \in found : r.start <= pos /\ pos <= r.end
                    \/ \E a, b \in found : Between(a, pos, b)
  <2>1. PICK k \in 1..Len(c) : x = c[k]
      BY <1>6
  <2> QED BY <2>1, <1>5
<1>13. \A r \in found : \E x \in coalesced : Within(r, x) /\ x.order <= r.order
    BY <1>4, <1>6
<1>14. Gap \in Nat
    BY KernelAssumption DEF KernelAssumption
\* Two spans have no position in common.
<1>15. ASSUME NEW x \in coalesced, NEW y \in coalesced, NEW pos \in Nat,
              x.start <= pos, pos <= x.end, y.start <= pos, pos <= y.end
       PROVE  x = y
  <2>1. x.start \in Nat /\ x.end \in Nat /\ y.start \in Nat /\ y.end \in Nat
      BY <1>10
  <2>2. ~Apart(x, y) /\ ~Apart(y, x)
      BY <2>1, <1>14, <1>15, SMTT(60) DEF Apart
  <2> QED BY <2>2, <1>11
<1>16. ASSUME NEW x \in coalesced, NEW r \in found, NEW pos \in Nat,
              x.start <= pos, pos <= x.end, r.start <= pos, pos <= r.end
       PROVE  Within(r, x) /\ x.order <= r.order
  <2>1. PICK y \in coalesced : Within(r, y) /\ y.order <= r.order
      BY <1>13
  <2>2. y.start <= pos /\ pos <= y.end
    <3>1. y.start <= r.start /\ r.end <= y.end
        BY <2>1 DEF Within
    <3>2. y.start \in Nat /\ y.end \in Nat /\ r.start \in Nat /\ r.end \in Nat
        BY <1>10, <1>10a
    <3> QED BY <3>1, <3>2, <1>16
  <2>3. x = y
      BY <2>2, <1>15, <1>16
  <2> QED BY <2>1, <2>3
<1>17. \A x, y \in coalesced : x.order = y.order => x = y
  <2> SUFFICES ASSUME NEW x \in coalesced, NEW y \in coalesced, x.order = y.order PROVE x = y
      OBVIOUS
  <2>1. PICK r \in found : r.order = x.order /\ Within(r, x)
      BY <1>12
  <2>2. PICK t \in found : t.order = y.order /\ Within(t, y)
      BY <1>12
  <2>3. r = t
      BY <2>1, <2>2 DEF Asks
  <2>4. /\ x.start <= r.start /\ r.end <= x.end /\ y.start <= r.start /\ r.end <= y.end
      BY <2>1, <2>2, <2>3 DEF Within
  <2>5. x.start \in Nat /\ x.end \in Nat /\ y.start \in Nat /\ y.end \in Nat
        /\ r.start \in Nat /\ r.end \in Nat /\ r.start <= r.end
      BY <1>10, <1>10a
  <2>6. r.start <= x.end /\ r.start <= y.end
      BY <2>4, <2>5
  <2> QED BY <2>4, <2>5, <2>6, <1>15
<1>18. \A i, j \in 1..m : i < j => ordered[i].order < ordered[j].order
  <2> SUFFICES ASSUME NEW i \in 1..m, NEW j \in 1..m, i < j
               PROVE  ordered[i].order < ordered[j].order
      OBVIOUS
  <2>0. i # j
      BY <1>9a
  <2>1. ordered[i] \in coalesced /\ ordered[j] \in coalesced /\ ordered[i] # ordered[j]
      BY <2>0, <1>9c, <1>9d
  <2>2. ordered[i].order # ordered[j].order
      BY <2>1, <1>17
  <2>3. ordered[i].order <= ordered[j].order /\ ordered[i].order \in Nat /\ ordered[j].order \in Nat
      BY <2>1, <1>9e, <1>10
  <2> QED BY <2>2, <2>3
\* What a span has asked of it, by position.
<1>19. \A r \in found : /\ r.order \in DOMAIN specs /\ r.end < size
                        /\ \A pos \in 0..size - 1 :
                              Requested(specs[r.order], pos, size) <=> r.start <= pos /\ pos <= r.end
    BY DEF Asks
<1>20. \A i \in DOMAIN specs : \A pos \in 0..size - 1 :
           Requested(specs[i], pos, size) => \E r \in found : r.order = i
    BY DEF Asks
<1>21. \A x \in coalesced : x.end < size
  <2> TAKE x \in coalesced
  <2>1. x.end \in x.start..x.end
      BY <1>10
  <2>2. CASE \E r \in found : r.start <= x.end /\ x.end <= r.end
    <3>1. PICK r \in found : x.end <= r.end
        BY <2>2
    <3> QED BY <3>1, <1>10, <1>10a, <1>19
  <2>3. CASE \E a, b \in found : Between(a, x.end, b)
    <3>1. PICK b \in found : x.end < b.start
        BY <2>3 DEF Between
    <3>2. b.start <= b.end /\ b.end < size /\ b.start \in Nat /\ b.end \in Nat /\ x.end \in Nat
        BY <1>10, <1>10a, <1>19
    <3> QED BY <3>1, <3>2
  <2> QED BY <2>1, <2>2, <2>3, <1>12
<1>22. /\ DOMAIN ordered = 1..m /\ Len(plan) = m /\ DOMAIN plan = 1..m
       /\ \A i \in 1..m : /\ plan[i] = RangeOf(ordered[i].start, ordered[i].end)
                          /\ plan[i].start = ordered[i].start /\ plan[i].end = ordered[i].end
                          /\ ordered[i] \in coalesced
  <2>1. DOMAIN ordered = 1..m
      BY <1>9b
  <2>2. plan = [i \in 1..m |-> RangeOf(ordered[i].start, ordered[i].end)]
      BY <2>1
  <2>3. DOMAIN plan = 1..m /\ \A i \in 1..m : plan[i] = RangeOf(ordered[i].start, ordered[i].end)
      BY <2>2
  <2>4. Len(plan) = m
      BY <2>2, <1>9a
  <2>5. \A i \in 1..m : RangeOf(ordered[i].start, ordered[i].end).start = ordered[i].start
                        /\ RangeOf(ordered[i].start, ordered[i].end).end = ordered[i].end
      BY DEF RangeOf
  <2>6. ASSUME NEW i \in 1..m
        PROVE  /\ plan[i] = RangeOf(ordered[i].start, ordered[i].end)
               /\ plan[i].start = ordered[i].start /\ plan[i].end = ordered[i].end
               /\ ordered[i] \in coalesced
    <3>1. plan[i] = RangeOf(ordered[i].start, ordered[i].end)
        BY <2>3
    <3> QED BY <3>1, <2>5, <1>9c
  <2> QED BY <2>1, <2>3, <2>4, <2>6
<1>23. plan \in Seq(Spans)
  <2>1. \A i \in 1..m : plan[i] \in Spans
    <3>1. \A x \in coalesced : RangeOf(x.start, x.end) \in Spans
        BY <1>10 DEF RangeOf, Spans
    <3> QED BY <3>1, <1>22
  <2>2. plan = [i \in 1..m |-> plan[i]]
      BY <1>22
  <2>3. ASSUME NEW f, f = plan, NEW n, n = m PROVE plan \in Seq(Spans)
    <3>1. n \in Nat /\ (\A i \in 1..n : f[i] \in Spans) /\ plan = [i \in 1..n |-> f[i]]
        BY <2>1, <2>2, <2>3, <1>9a
    <3> QED BY ONLY <3>1, MadeSeq
  <2> QED BY <2>3
<1>24. plan # <<>>
  <2>1. PICK x \in coalesced : TRUE
      BY <1>6
  <2>2. 1..m # {}
      BY <1>9
  <2> QED BY <2>2, <1>22
<1>25. \A k \in 1..m : plan[k].start <= plan[k].end /\ plan[k].end < size
  <2> TAKE k \in 1..m
  <2>1. ordered[k] \in coalesced /\ plan[k].start = ordered[k].start /\ plan[k].end = ordered[k].end
      BY <1>22
  <2> QED BY <2>1, <1>10, <1>21
<1>26. \A k, l \in 1..m : k # l => Disjoint(plan[k], plan[l])
  <2> SUFFICES ASSUME NEW k \in 1..m, NEW l \in 1..m, k # l
               PROVE  Disjoint(plan[k], plan[l])
      OBVIOUS
  <2>1. ordered[k] \in coalesced /\ ordered[l] \in coalesced /\ ordered[k] # ordered[l]
      BY <1>9c, <1>9d
  <2>2. Apart(ordered[k], ordered[l]) \/ Apart(ordered[l], ordered[k])
      BY <2>1, <1>11
  <2>3. /\ ordered[k].start \in Nat /\ ordered[k].end \in Nat
        /\ ordered[l].start \in Nat /\ ordered[l].end \in Nat
      BY <2>1, <1>10
  <2>4. ordered[k].end < ordered[l].start \/ ordered[l].end < ordered[k].start
      BY <2>2, <2>3, <1>14, SMTT(60) DEF Apart
  <2> QED BY <2>4, <1>22, ZenonT(60) DEF Disjoint
<1>27. ASSUME NEW pos \in 0..size - 1, Wants(specs, pos, size)
       PROVE  \E k \in 1..m : plan[k].start <= pos /\ pos <= plan[k].end
  <2>1. PICK i \in DOMAIN specs : Requested(specs[i], pos, size)
      BY <1>27 DEF Wants
  <2>2. PICK r \in found : r.order = i
      BY <2>1, <1>20
  <2>3. r.start <= pos /\ pos <= r.end
      BY <2>1, <2>2, <1>19
  <2>4. PICK x \in coalesced : Within(r, x)
      BY <1>13
  <2>5. x.start <= pos /\ pos <= x.end
    <3>1. x.start <= r.start /\ r.end <= x.end
        BY <2>4 DEF Within
    <3>2. x.start \in Nat /\ x.end \in Nat /\ r.start \in Nat /\ r.end \in Nat /\ pos \in Nat
        BY <1>10, <1>10a
    <3> QED BY <3>1, <3>2, <2>3
  <2>6. PICK k \in 1..m : ordered[k] = x
      BY <1>9
  <2> QED BY <2>5, <2>6, <1>22, ZenonT(60)
<1>28. ASSUME NEW r \in found, NEW pos \in r.start..r.end
       PROVE  pos \in 0..size - 1 /\ Wants(specs, pos, size)
  <2>1. pos \in 0..size - 1 /\ r.start <= pos /\ pos <= r.end
      BY <1>10a, <1>19
  <2>2. r.order \in DOMAIN specs /\ Requested(specs[r.order], pos, size)
      BY <2>1, <1>19
  <2> QED BY <2>1, <2>2 DEF Wants
<1>29. ASSUME NEW k \in 1..m, NEW pos \in plan[k].start..plan[k].end
       PROVE  Filled(specs, pos, size)
  <2> DEFINE x == ordered[k]
  <2>1. x \in coalesced /\ pos \in x.start..x.end
      BY <1>22
  <2>2. CASE \E r \in found : r.start <= pos /\ pos <= r.end
    <3>1. PICK r \in found : r.start <= pos /\ pos <= r.end
        BY <2>2
    <3>2. pos \in r.start..r.end
        BY <3>1, <2>1, <1>10a, <1>10
    <3> QED BY <3>2, <1>28 DEF Filled
  <2>3. CASE \E a, b \in found : Between(a, pos, b)
    <3>1. PICK a, b \in found : Between(a, pos, b)
        BY <2>3
    <3>2. a.end \in a.start..a.end /\ b.start \in b.start..b.end
        BY <1>10a
    <3>3. /\ a.end \in 0..size - 1 /\ Wants(specs, a.end, size)
          /\ b.start \in 0..size - 1 /\ Wants(specs, b.start, size)
        BY <3>2, <1>28
    <3> QED BY <3>1, <3>3 DEF Between, Filled
  <2> QED BY <2>1, <2>2, <2>3, <1>12
<1>30. ASSUME NEW k \in 1..m
       PROVE  First(specs, plan[k], size, ordered[k].order) /\ ordered[k].order \in DOMAIN specs
  <2> DEFINE x == ordered[k]
             span == plan[k]
  <2>1. x \in coalesced /\ span.start = x.start /\ span.end = x.end
      BY <1>22
  <2>2. x.start \in Nat /\ x.end \in Nat /\ x.order \in Nat /\ x.end < size
      BY <2>1, <1>10, <1>21
  <2> HIDE DEF x, span
  <2>3. PICK r \in found : r.order = x.order /\ Within(r, x)
      BY <2>1, <1>12
  <2>4. /\ r.start \in Nat /\ r.end \in Nat /\ r.start <= r.end /\ r.order \in DOMAIN specs
        /\ x.start <= r.start /\ r.end <= x.end
      BY <2>3, <1>10a, <1>19 DEF Within
  <2>5. Touches(specs[x.order], span, size)
    <3>1. r.start \in 0..size - 1 /\ r.start \in span.start..span.end
        BY <2>1, <2>2, <2>4
    <3>2. Requested(specs[x.order], r.start, size)
        BY <3>1, <2>3, <2>4, <1>19
    <3> QED BY <3>1, <3>2 DEF Touches
  <2>6. ASSUME NEW j \in 1..x.order - 1, Touches(specs[j], span, size) PROVE FALSE
    <3>1. PICK pos \in span.start..span.end : Requested(specs[j], pos, size)
        BY <2>6 DEF Touches
    <3>2. pos \in 0..size - 1 /\ pos \in Nat /\ x.start <= pos /\ pos <= x.end
        BY <2>1, <2>2
    <3>3. j \in DOMAIN specs
      <4>1. x.order \in DOMAIN specs
          BY <2>3, <2>4
      <4> QED BY <4>1, <2>2
    <3>4. PICK t \in found : t.order = j
        BY <3>1, <3>2, <3>3, <1>20
    <3>5. t.start <= pos /\ pos <= t.end
        BY <3>1, <3>2, <3>4, <1>19
    <3>6. x.order <= j
        BY <3>2, <3>4, <3>5, <2>1, <1>16
    <3> QED BY <3>6, <2>2
  <2>7. First(specs, span, size, x.order) /\ x.order \in DOMAIN specs
      BY <2>3, <2>4, <2>5, <2>6 DEF First
  <2> QED BY <2>7 DEF x, span
<1>31. \E order \in [1..m -> DOMAIN specs] :
          /\ \A k \in 1..m : First(specs, plan[k], size, order[k])
          /\ \A k, l \in 1..m : k < l => order[k] < order[l]
  <2> DEFINE order == [k \in 1..m |-> ordered[k].order]
  <2>1. order \in [1..m -> DOMAIN specs]
      BY <1>30
  <2>2. \A k \in 1..m : First(specs, plan[k], size, order[k])
      BY <1>30
  <2>3. \A k, l \in 1..m : k < l => order[k] < order[l]
      BY <1>18
  <2> HIDE DEF order
  <2> QED BY <2>1, <2>2, <2>3
<1>32. \A k \in 1..Len(plan) : plan[k].start <= plan[k].end /\ plan[k].end < size
    BY <1>22, <1>25
<1>33. \A k, l \in 1..Len(plan) : k # l => Disjoint(plan[k], plan[l])
  <2> SUFFICES ASSUME NEW k \in 1..Len(plan), NEW l \in 1..Len(plan), k # l
               PROVE  Disjoint(plan[k], plan[l])
      OBVIOUS
  <2>1. k \in 1..m /\ l \in 1..m
      BY <1>22
  <2> QED BY <2>1, <1>26
<1>34. \A pos \in 0..size - 1 : Wants(specs, pos, size) =>
           \E k \in 1..Len(plan) : plan[k].start <= pos /\ pos <= plan[k].end
  <2>1. Len(plan) = m
      BY <1>22
  <2> QED BY <2>1, <1>27
<1>35. \A k \in 1..Len(plan) : \A pos \in plan[k].start..plan[k].end : Filled(specs, pos, size)
    BY <1>22, <1>29
<1>36. \E order \in [1..Len(plan) -> DOMAIN specs] :
           /\ \A k \in 1..Len(plan) : First(specs, plan[k], size, order[k])
           /\ \A k, l \in 1..Len(plan) : k < l => order[k] < order[l]
  <2> DEFINE Follows(n) == \E order \in [1..n -> DOMAIN specs] :
                               /\ \A k \in 1..n : First(specs, plan[k], size, order[k])
                               /\ \A k, l \in 1..n : k < l => order[k] < order[l]
  <2>1. Len(plan) = m
      BY <1>22
  <2>2. Follows(m)
      BY <1>31
  <2>3. Follows(Len(plan))
    <3> HIDE DEF Follows
    <3> QED BY <2>1, <2>2
  <2> QED BY <2>3
<1>37. Serves(plan, specs, size)
    BY <1>23, <1>32, <1>33, <1>34, <1>35, <1>36, ZenonT(60) DEF Serves
<1> QED BY <1>24, <1>37

\* parseRanges: the request is not understood, or asks for nothing the object
\* has, or is served by what comes out of it.
LEMMA ParseRangesSays ==
    ASSUME NEW specs \in Seq(Specs), NEW size \in Nat
    PROVE  LET set == ParseRanges(specs, size) IN
           \/ set = Ignored
           \/ set = Unsatisfiable /\ \A pos \in 0..size - 1 : ~Wants(specs, pos, size)
           \/ /\ set = [kind |-> "ranges", ranges |-> set.ranges]
              /\ set.ranges # <<>> /\ Serves(set.ranges, specs, size)
<1> DEFINE parsed0 == [i \in DOMAIN specs |-> ParseOneRange(specs[i], size)]
           found0 == {[start |-> parsed0[i].start, end |-> parsed0[i].end, order |-> i] :
                          i \in {j \in DOMAIN specs : parsed0[j].kind = "range"}}
           coalesced0 == ToSet(CoalesceRanges(found0))
           ordered0 == InOrder(coalesced0, [r \in coalesced0 |-> r.order])
           plan0 == [i \in DOMAIN ordered0 |-> RangeOf(ordered0[i].start, ordered0[i].end)]
           set0 == ParseRanges(specs, size)
<1>1. set0 =
         IF size = 0 \/ specs = <<>> \/ \E i \in DOMAIN specs : parsed0[i] = Ignored THEN Ignored
         ELSE IF found0 = {} THEN Unsatisfiable
         ELSE IF Len(ordered0) > MaxRanges THEN Ignored
         ELSE [kind |-> "ranges", ranges |-> plan0]
    BY DEF ParseRanges
<1> SUFFICES ASSUME NEW parsed, parsed = parsed0, NEW found, found = found0,
                    NEW coalesced, coalesced = coalesced0, NEW ordered, ordered = ordered0,
                    NEW plan, plan = plan0, NEW set, set = set0
             PROVE  \/ set = Ignored
                    \/ set = Unsatisfiable /\ \A pos \in 0..size - 1 : ~Wants(specs, pos, size)
                    \/ /\ set = [kind |-> "ranges", ranges |-> set.ranges]
                       /\ set.ranges # <<>> /\ Serves(set.ranges, specs, size)
    OBVIOUS
<1>2. set = IF size = 0 \/ specs = <<>> \/ \E i \in DOMAIN specs : parsed[i] = Ignored THEN Ignored
            ELSE IF found = {} THEN Unsatisfiable
            ELSE IF Len(ordered) > MaxRanges THEN Ignored
            ELSE [kind |-> "ranges", ranges |-> plan]
    BY <1>1, ZenonT(60)
<1>3a. parsed = [i \in DOMAIN specs |-> ParseOneRange(specs[i], size)]
    BY SMTT(60)
<1>3b. found = {[start |-> parsed[i].start, end |-> parsed[i].end, order |-> i] :
                   i \in {j \in DOMAIN specs : parsed[j].kind = "range"}}
    OBVIOUS
<1>3c. coalesced = ToSet(CoalesceRanges(found))
    OBVIOUS
<1>3d. ordered = InOrder(coalesced, [r \in coalesced |-> r.order])
    OBVIOUS
<1>3e. plan = [i \in DOMAIN ordered |-> RangeOf(ordered[i].start, ordered[i].end)]
    OBVIOUS
<1> HIDE DEF parsed0, found0, coalesced0, ordered0, plan0, set0
<1>4. CASE size = 0 \/ specs = <<>> \/ \E i \in DOMAIN specs : parsed[i] = Ignored
    BY <1>2, <1>4
<1>5. CASE size # 0 /\ \A i \in DOMAIN specs : parsed[i] # Ignored
  <2>a. size # 0
      BY <1>5
  <2>b. \A i \in DOMAIN specs : parsed[i] # Ignored
      BY <1>5
  <2>1. Asks(specs, size, found)
      BY <1>3a, <1>3b, <2>a, <2>b, FoundSays
  <2>2. CASE found = {}
    <3>1. set = Ignored \/ set = Unsatisfiable
        BY <1>2, <2>2
    <3>2. \A pos \in 0..size - 1 : ~Wants(specs, pos, size)
        BY <2>1, <2>2 DEF Asks, Wants
    <3> QED BY <3>1, <3>2
  <2>3. CASE found # {}
    <3>1. plan # <<>> /\ Serves(plan, specs, size)
        BY <1>3c, <1>3d, <1>3e, <2>a, <2>1, <2>3, OrderedServes
    <3>2. set = Ignored \/ set = [kind |-> "ranges", ranges |-> plan]
        BY <1>2, <2>3
    <3>3. [kind |-> "ranges", ranges |-> plan].ranges = plan
        OBVIOUS
    <3> QED BY <3>1, <3>2, <3>3
  <2> QED BY <2>2, <2>3
<1> QED BY <1>4, <1>5

-------------------------------------------------------------------------------
(* The inductive invariant behind Inv, HeadersDescribeBody and             *)
(* ConditionsHoldOfBody                                                    *)

Bytes == [v : Nat, pos : Nat]
Tag == Tags \cup {None}
Version == Objects \cup {None}
Known(o) == o \in Objects /\ o.v \in 1..Len(versions) /\ versions[o.v] = o

\* The versions are what was written, by number, and the object is the last or
\* none; what the cache holds was one of them, body and description alike.
WorldInv ==
    /\ store \in Stores /\ now \in 0..MaxTime /\ requests \in 0..MaxRequests
    /\ versions \in Seq(Objects) /\ Len(versions) <= MaxVersions
    /\ \A i \in 1..Len(versions) : versions[i].v = i /\ versions[i].mtime <= now
    /\ object # None => Known(object) /\ object.v = Len(versions)
CacheInv ==
    cache # None =>
        /\ store.ttl > 0
        /\ cache \in [of : Objects, till : Nat, body : Version]
        /\ Known(cache.of) /\ cache.body \in {None, cache.of}

Headers == [status : {0, 200, 206, 304, 404, 412, 416, 502, 503}, tag : Tag, date : Dates,
            total : Sizes \cup {0}, at : Nat]
Handling ==
    [pc : {"idle", "speculating", "heading", "getting", "opening", "streaming", "parting", "answered"},
     req : AnyRequest, attempt : 0..1, meta : Version, multi : BOOLEAN,
     plan : Seq(Spans), first : Version, reading : Version, headers : Headers,
     out : Seq(Seq(Bytes)), whole : BOOLEAN]
SrvType == srv \in Handling
ClientType ==
    client \in [held : Seq(Bytes), tag : Tag, date : Dates, sure : BOOLEAN,
                total : Sizes \cup {0}]

\* What a HEAD has found to be the representation of a request, under its
\* conditions.
Permitted(req, o) ==
    /\ req.ifMatch \notin {None, AnyTag} => TagOf(o) \in req.ifMatch /\ TagOf(o).strong
    /\ req.ifUnmodifiedSince # None /\ req.ifMatch = None /\ DateOf(o) # None
          => DateOf(o) <= req.ifUnmodifiedSince
    /\ req.ifNoneMatch # None => req.ifNoneMatch # AnyTag /\ TagOf(o) \notin req.ifNoneMatch

\* Versions acceptRead, and sameRepresentation, take for one another.
Alike(a, b) ==
    TagOf(a) = TagOf(b) /\ DateOf(a) = DateOf(b) /\ (store.tag # "none" => a = b)
Mate(several, a, b) ==
    a = b \/ (several /\ store.tag = "none" /\ DateOf(a) = DateOf(b))

\* The parts of an answer of several: none has a byte of another.
Parts(plan, size) ==
    /\ \A k \in 1..Len(plan) : plan[k].end < size
    /\ \A k, l \in 1..Len(plan) : k # l => Disjoint(plan[k], plan[l])

\* Before the headers nothing is sent; only a HEAD leaves a plan, and only what
\* needs none is read without.
Before == srv.pc \in {"speculating", "heading", "getting", "opening"}
NotYet ==
    /\ srv.pc = "idle" => srv = Quiet
    /\ Before => srv.first = None /\ srv.headers = NoHeaders
    /\ srv.pc \in {"speculating", "heading"} => srv.meta = None /\ srv.plan = <<>>
    /\ srv.pc = "speculating" => Speculates(srv.req)
    /\ srv.pc = "getting" /\ srv.meta = None => ~NeedsHead(srv.req) /\ srv.plan = <<>>
    /\ srv.pc = "opening" => /\ store.adapter = "gcs" /\ srv.meta = None /\ ~NeedsHead(srv.req) /\ srv.plan = <<>>
                             /\ srv.reading # None /\ Known(srv.reading)
PlanInv ==
    /\ srv.multi <=> Len(srv.plan) > 1
    /\ \A k \in 1..Len(srv.plan) : srv.plan[k].start <= srv.plan[k].end
    /\ srv.multi => srv.meta # None /\ Parts(srv.plan, srv.meta.size)
MetaInv ==
    /\ srv.meta # None => Known(srv.meta)
    /\ srv.pc = "getting" /\ srv.meta # None =>
          /\ Permitted(srv.req, srv.meta) /\ ~srv.req.head
          /\ srv.plan # <<>> => Serves(srv.plan, srv.req.specs, srv.meta.size)

\* Of an answer begun: what its first read was of, and what its headers say.
FirstInv ==
    /\ srv.headers.status = 416 =>
          \A pos \in 0..srv.headers.total - 1 : ~Wants(srv.req.specs, pos, srv.headers.total)
    /\ srv.first = None => srv.out = <<>> /\ ~srv.whole /\ srv.headers.status # 206
    /\ srv.pc \in {"streaming", "parting"} => srv.first # None
    /\ srv.first # None =>
          /\ Known(srv.first) /\ Permitted(srv.req, srv.first)
          /\ srv.meta # None => Alike(srv.meta, srv.first)
          /\ srv.headers.status = IF srv.plan = <<>> THEN 200 ELSE 206
          /\ srv.headers.tag \in {None, TagOf(srv.first)}
          /\ srv.headers.date \in {None, DateOf(srv.first)}
          /\ ~srv.multi \/ Described => srv.headers.total = srv.first.size
          /\ srv.plan # <<>> /\ Described =>
                Serves(srv.plan, srv.req.specs, srv.headers.total)
          /\ srv.pc \in {"parting", "answered"} => srv.out # <<>>

\* The read in progress, and the bytes sent of it and of those before.
StreamInv ==
    /\ srv.pc = "streaming" =>
          /\ srv.reading # None /\ Known(srv.reading) /\ Mate(srv.multi, srv.first, srv.reading)
          /\ IF srv.plan = <<>> THEN srv.out = <<>> ELSE Len(srv.out) < Len(srv.plan)
          /\ \A k \in 1..Len(srv.plan) :
                k = Len(srv.out) + 1 \/ Buffered(srv.plan) => srv.plan[k].end < srv.reading.size
    /\ srv.pc = "parting" =>
          srv.multi /\ ~Buffered(srv.plan) /\ Len(srv.out) < Len(srv.plan)
    /\ \A k \in 1..Len(srv.out) : \A j \in 1..Len(srv.out[k]) :
          /\ srv.out[k][j].v \in 1..Len(versions)
          /\ Mate(srv.multi, srv.first, versions[srv.out[k][j].v])

\* Where in its part each byte is, and which parts are complete.
Begin(k) == IF srv.plan = <<>> THEN 0 ELSE srv.plan[k].start
Owed(k) ==
    IF srv.plan = <<>> THEN srv.headers.total ELSE srv.plan[k].end - srv.plan[k].start + 1
Pieces == IF srv.plan = <<>> THEN 1 ELSE Len(srv.plan)
SentInv ==
    /\ Len(srv.out) <= Pieces
    /\ \A k \in 1..Len(srv.out) : \A j \in 1..Len(srv.out[k]) :
          srv.out[k][j].pos = Begin(k) + j - 1
    /\ srv.pc \in {"streaming", "parting"} \/ srv.whole =>
          \A k \in 1..Len(srv.out) : Len(srv.out[k]) = Owed(k)
    /\ srv.whole => Len(srv.out) = Pieces /\ srv.pc = "answered"

IInv ==
    /\ WorldInv /\ CacheInv /\ SrvType /\ ClientType
    /\ NotYet /\ PlanInv /\ MetaInv /\ FirstInv /\ StreamInv /\ SentInv

-------------------------------------------------------------------------------
(* The parts of the world                                                  *)

\* What each kind of store the runs and the theorems range over may be: its tags, its dates,
\* whether it tells its sizes, and which adapters cache or pin versions.
LEMMA Kinds ==
    ASSUME store \in Stores
    PROVE  /\ store \in StoreKinds
           /\ store.tag \in {"strong", "weak", "none"} /\ store.dates \in BOOLEAN
           /\ store.tells \in BOOLEAN /\ store.matches \in BOOLEAN /\ store.ttl \in Nat
           /\ store.adapter \in {"s3", "azure", "r2", "http", "memory", "gcs", "fs", "custom"}
           /\ store.ttl > 0 => store.adapter = "fs"
           /\ store.adapter = "gcs" => store.tag = "strong"
           /\ store.tells \/ (store.adapter = "custom" /\ store.tag = "strong" /\ store.matches)
BY WebReadAssumption DEF WebReadAssumption, StoreKinds

\* The fields of one version of the object.
LEMMA VersionType ==
    ASSUME NEW o \in Objects
    PROVE  /\ o.v \in Nat /\ o.size \in Nat /\ o.size \in Sizes /\ o.mtime \in Nat
           /\ o.v \in 1..MaxVersions /\ o.mtime \in 0..MaxTime
           /\ o # None
<1>1. Sizes \subseteq Nat /\ MaxTime \in Nat /\ MaxVersions \in Nat
    BY WebReadAssumption DEF WebReadAssumption
<1>2. /\ o = [v |-> o.v, size |-> o.size, mtime |-> o.mtime]
      /\ o.v \in 1..MaxVersions /\ o.size \in Sizes /\ o.mtime \in 0..MaxTime
    BY DEF Objects
<1>3. o.v \in Nat /\ o.size \in Nat /\ o.mtime \in Nat
    BY <1>1, <1>2
<1>4. o \in [v : Nat, size : Nat, mtime : Nat]
    BY <1>2, <1>3
<1> QED BY <1>2, <1>3, <1>4, NoneAssumption DEF NoneAssumption

\* What the store and the server call a version: the store's own tag, or a weak one of size and
\* date, or nothing (web.ts, the head's validators).
LEMMA TagTypes ==
    ASSUME store \in Stores, NEW o \in Objects
    PROVE  /\ RawTag(o) \in Tag /\ TagOf(o) \in Tag /\ DateOf(o) \in Dates
           /\ store.tag # "none" => TagOf(o) = RawTag(o) /\ RawTag(o) # None /\ RawTag(o).of = <<o.v>>
           /\ store.tag = "none" => RawTag(o) = None
           /\ store.tag = "none" => TagOf(o) = IF store.dates THEN Weak(<<o.size, o.mtime>>) ELSE None
           /\ store.tag = "strong" => RawTag(o).strong = TRUE
           /\ store.tag = "weak" => RawTag(o).strong = FALSE
           /\ DateOf(o) = IF store.dates THEN o.mtime ELSE None
<1>1. /\ store.tag \in {"strong", "weak", "none"} /\ store.dates \in BOOLEAN
      /\ o.v \in Nat /\ o.size \in Nat /\ o.mtime \in Nat
    BY Kinds, VersionType
<1>2. <<o.v>> \in Seq(Nat) /\ <<o.size, o.mtime>> \in Seq(Nat)
    BY <1>1
<1>3. Strong(<<o.v>>) \in Tags /\ Weak(<<o.v>>) \in Tags /\ Weak(<<o.size, o.mtime>>) \in Tags
    BY <1>2 DEF Strong, Weak, Tags
<1>4. None \notin Tags /\ None \notin Int
    BY NoneAssumption DEF NoneAssumption
<1>5. DateOf(o) = IF store.dates THEN o.mtime ELSE None
    BY DEF DateOf, DateAt
<1>6. RawTag(o) = IF store.tag = "strong" THEN Strong(<<o.v>>)
                  ELSE IF store.tag = "weak" THEN Weak(<<o.v>>) ELSE None
    BY DEF RawTag, TagAt
<1>7. TagOf(o) = IF RawTag(o) # None THEN RawTag(o)
                 ELSE IF DateOf(o) = None THEN None ELSE Weak(<<o.size, DateOf(o)>>)
    BY DEF TagOf, GenerateETag
<1>8. Strong(<<o.v>>).of = <<o.v>> /\ Weak(<<o.v>>).of = <<o.v>> /\ Strong(<<o.v>>).strong = TRUE
      /\ Weak(<<o.v>>).strong = FALSE
    BY DEF Strong, Weak
<1>9. DateOf(o) \in Dates
    BY <1>1, <1>5 DEF Dates
<1>10. TagOf(o) \in Tag /\ RawTag(o) \in Tag
    BY <1>1, <1>3, <1>4, <1>5, <1>6, <1>7 DEF Tag
<1>11. CASE store.tag = "strong"
    BY <1>11, <1>3, <1>4, <1>5, <1>6, <1>7, <1>8, <1>9, <1>10
<1>12. CASE store.tag = "weak"
    BY <1>12, <1>3, <1>4, <1>5, <1>6, <1>7, <1>8, <1>9, <1>10
<1>13. CASE store.tag = "none"
    BY <1>13, <1>1, <1>4, <1>5, <1>6, <1>7, <1>9, <1>10
<1> QED BY <1>1, <1>11, <1>12, <1>13

\* A version is known by its number, and one with a tag of its own by that.
LEMMA KnownByTag ==
    ASSUME store \in Stores, NEW o, NEW p, Known(o), Known(p)
    PROVE  /\ o.v = p.v => o = p
           /\ store.tag # "none" /\ RawTag(o) = RawTag(p) => o = p
<1>1. o.v = p.v => o = p
    BY DEF Known
<1>2. ASSUME store.tag # "none", RawTag(o) = RawTag(p) PROVE o = p
  <2>1. RawTag(o).of = <<o.v>> /\ RawTag(p).of = <<p.v>>
      BY <1>2, TagTypes DEF Known
  <2>2. <<o.v>>[1] = <<p.v>>[1]
      BY <2>1, <1>2
  <2> QED BY <1>1, <2>2
<1> QED BY <1>1, <1>2

\* A head answered from the store or from its cache describes a version that was written.
LEMMA HeadSays ==
    ASSUME WorldInv, CacheInv, StoreHead.kind = "found"
    PROVE  Known(StoreHead.of)
<1>1. store.adapter \in {"s3", "azure", "r2", "http", "memory", "gcs", "fs", "custom"}
    BY Kinds DEF WorldInv
<1>2. Hit # None => Known(Hit.of)
    BY DEF Hit, CacheGet, CacheInv
<1>3. object # None => Known(object)
    BY DEF WorldInv
<1>4. ASSUME NEW c \in {S3Classifiers, AzureClassifiers, GcsClassifiers}
      PROVE  HeadOf(object, c).kind = "found" => object # None /\ HeadOf(object, c).of = object
    BY DEF HeadOf, ClassifyStoreRead, Found, FoundIn, S3Classifiers, AzureClassifiers,
           GcsClassifiers, Missing, ObjectChanged, Unavailable, Failed, Throttled
<1>5. CASE store.adapter \in {"s3", "azure", "gcs"}
    BY <1>3, <1>4, <1>5 DEF StoreHead, S3HeadObject, AzureHeadObject, GcsHeadObject
<1>6. CASE store.adapter = "fs"
    BY <1>2, <1>3, <1>6 DEF StoreHead, FsHeadObject, Found, FoundIn, Missing
<1>7. CASE store.adapter \in {"r2", "http", "memory", "custom"}
    BY <1>3, <1>7 DEF StoreHead, R2HeadObject, HttpHeadObject, MemoryHeadObject, Found, FoundIn, Missing
<1> QED BY <1>1, <1>5, <1>6, <1>7

\* A range as it is asked for, and as it is served.
Asked == [kind : {"range"}, start : Nat, end : Nat \cup {None}]

\* The ranges asked of a store are not the absence of one, and have the ends they say.
LEMMA RangeTypes ==
    /\ Spans \subseteq Asked /\ None \notin Asked /\ None \notin Spans /\ None \notin Nat
    /\ \A r \in Asked : r.start \in Nat /\ r.end \in Nat \cup {None} /\ r # None
    /\ \A r \in Spans : r.start \in Nat /\ r.end \in Nat /\ r # None
BY NoneAssumption DEF NoneAssumption, Asked, Spans

\* What is served of a range the version has.
LEMMA ClampedSays ==
    ASSUME NEW range \in Asked, NEW o \in Objects, ~Beyond(range, o),
           range.end = None \/ range.start <= range.end
    PROVE  /\ Clamped(range, o) \in Spans /\ Clamped(range, o) # None
           /\ Clamped(range, o).start = range.start
           /\ Clamped(range, o).start <= Clamped(range, o).end
           /\ Clamped(range, o).end < o.size
<1>1. /\ range.start \in Nat /\ range.end \in Nat \cup {None} /\ range # None
      /\ o.size \in Nat /\ None \notin Nat
    BY RangeTypes, VersionType
<1>2. range.start < o.size
    BY <1>1 DEF Beyond
<1>3. PICK e : e = IF range.end = None THEN o.size - 1 ELSE Min({range.end, o.size - 1})
    OBVIOUS
<1>4. e \in Nat /\ range.start <= e /\ e < o.size
  <2>1. CASE range.end = None
      BY <1>1, <1>2, <1>3, <2>1
  <2>2. CASE range.end # None
    <3>1. range.end \in Int /\ o.size - 1 \in Int
        BY <1>1, <2>2
    <3>2. Min({range.end, o.size - 1}) = IF range.end <= o.size - 1 THEN range.end ELSE o.size - 1
        BY <3>1, MinOfTwo
    <3> QED BY <1>1, <1>2, <1>3, <2>2, <3>2
  <2> QED BY <2>1, <2>2
<1>5. Clamped(range, o) = [kind |-> "range", start |-> range.start, end |-> e]
    BY <1>1, <1>3 DEF Clamped, RangeOf
<1>6. Clamped(range, o) \in Spans
    BY <1>1, <1>4, <1>5 DEF Spans
<1> QED BY <1>4, <1>5, <1>6, RangeTypes

\* An object found by the adapters that leave pin and range to their backend is the one there,
\* clamped to its size, and the one the If-Match names.
LEMMA ReadSays ==
    ASSUME NEW s, NEW o, NEW range, NEW match, NEW c,
           c \in {S3Classifiers, AzureClassifiers},
           Read(s, o, range, match, c).kind = "found"
    PROVE  /\ o # None /\ ~Beyond(range, o) /\ (match # None => TagAt(s, o) = match)
           /\ Read(s, o, range, match, c) = FoundIn(o, o, Clamped(range, o))
BY DEF Read, Status, ClassifyStoreRead, Found, FoundIn, S3Classifiers, AzureClassifiers,
       Missing, ObjectChanged, Unavailable, Failed, Throttled

\* An object found by the HTTP adapter is the version at the origin, in whole or clamped to the
\* range asked for; an origin that ignores the range gives all of it.
LEMMA HttpSays ==
    ASSUME NEW s, NEW o \in Version, NEW range \in Asked \cup {None}, NEW match \in Tag, NEW mood,
           HttpGetObject(s, o, range, match, mood).kind = "found"
    PROVE  /\ o # None /\ HttpGetObject(s, o, range, match, mood).of = o
           /\ HttpGetObject(s, o, range, match, mood).source = o
           /\ \/ HttpGetObject(s, o, range, match, mood).range = None
              \/ /\ HttpGetObject(s, o, range, match, mood).range = Clamped(range, o)
                 /\ range # None /\ ~Beyond(range, o)
<1> DEFINE headers == RequestHeaders(range, match)
           asked == IF mood = "whole" THEN None ELSE headers.range
           status == Status(s, o, asked, IF s.matches THEN headers.ifMatch ELSE None)
           stated == IF mood = "garbled" THEN Garbled(Clamped(asked, o)) ELSE Clamped(asked, o)
           answer == HttpGetObject(s, o, range, match, mood)
<1>1. answer = IF status = 404 THEN Missing
               ELSE IF status = 412 THEN ObjectChanged
               ELSE IF status \in Throttled THEN Unavailable
               ELSE IF status # 200 THEN Failed
               ELSE IF asked = None THEN Found(o, None)
               ELSE IF ResolveServedRange(stated, o.size) = None THEN Failed
               ELSE Found(o, stated)
    BY DEF HttpGetObject
<1>2. asked \in {None, range}
    BY DEF RequestHeaders
<1> HIDE DEF headers, answer
<1>3. status = 200 /\ (asked = None \/ ResolveServedRange(stated, o.size) # None)
      /\ answer = Found(o, IF asked = None THEN None ELSE stated)
  <2> HIDE DEF status, asked, stated
  <2>1. answer.kind = "found"
      BY DEF answer
  <2> QED BY <1>1, <2>1 DEF Missing, ObjectChanged, Unavailable, Failed
<1>4. o # None /\ ~Beyond(asked, o)
  <2> HIDE DEF asked
  <2> QED BY <1>3 DEF Status
<1>5. answer.of = o /\ answer.source = o /\ answer.range = IF asked = None THEN None ELSE stated
    BY <1>3 DEF Found, FoundIn
<1>6. CASE asked = None
    BY <1>4, <1>5, <1>6 DEF answer
<1>7. CASE asked # None /\ mood # "garbled"
    BY <1>2, <1>4, <1>5, <1>7 DEF answer
<1>8. CASE asked # None /\ mood = "garbled"
  <2>1. stated = Garbled(Clamped(asked, o)) /\ asked = range /\ range \in Asked
      BY <1>2, <1>8
  <2>2. range.start \in Nat /\ range.end \in Nat \cup {None} /\ o.size \in Nat /\ None \notin Nat
      BY <1>4, <2>1, RangeTypes, VersionType DEF Version
  <2>3. Clamped(range, o).end \in Int
    <3>1. range.end # None => Min({range.end, o.size - 1}) \in Int
      <4>1. SUFFICES ASSUME range.end # None PROVE Min({range.end, o.size - 1}) \in Int
          OBVIOUS
      <4>2. range.end \in Int /\ o.size - 1 \in Int
          BY <2>2, <4>1
      <4> QED BY <4>2, MinOfTwo
    <3>2. Clamped(range, o).end =
              IF range.end = None THEN o.size - 1 ELSE Min({range.end, o.size - 1})
        BY <2>1, <1>8 DEF Clamped, RangeOf
    <3> QED BY <3>1, <3>2, <2>2
  <2>4. stated.start > stated.end
      BY <2>1, <2>3 DEF Garbled, RangeOf
  <2>5. ResolveServedRange(stated, o.size) = None
    <3> HIDE DEF stated
    <3> QED BY <2>4 DEF ResolveServedRange, ParseContentRange
  <2> QED BY <1>3, <1>8, <2>5
<1> QED BY <1>6, <1>7, <1>8

\* Whatever a store gives, it gives of one version there was, read and described
\* alike; the whole of it, or the range asked for as far as the version has it;
\* and of a pin it honours, the version the HEAD described.
LEMMA GetSays ==
    ASSUME WorldInv, CacheInv, SrvType, NEW range \in Asked \cup {None}, NEW mood,
           srv.meta # None => Known(srv.meta),
           store.adapter = "gcs" => srv.meta # None,
           StoreGet(range, mood).kind = "found"
    PROVE  LET answer == StoreGet(range, mood) IN
           /\ Known(answer.of) /\ answer.source = answer.of
           /\ \/ answer.range = None
              \/ range # None /\ answer.range = Clamped(range, answer.of) /\ ~Beyond(range, answer.of)
           /\ store.adapter = "gcs" => answer.of = srv.meta
           /\ ~store.tells /\ srv.meta # None => answer.of = srv.meta
<1> SUFFICES ASSUME NEW answer, answer = StoreGet(range, mood)
             PROVE  /\ Known(answer.of) /\ answer.source = answer.of
                    /\ \/ answer.range = None
                       \/ range # None /\ answer.range = Clamped(range, answer.of) /\ ~Beyond(range, answer.of)
                    /\ store.adapter = "gcs" => answer.of = srv.meta
                    /\ ~store.tells /\ srv.meta # None => answer.of = srv.meta
    OBVIOUS
<1>1. /\ store.adapter \in {"s3", "azure", "r2", "http", "memory", "gcs", "fs", "custom"}
      /\ store.tells \/ (store.adapter = "custom" /\ store.tag = "strong" /\ store.matches)
      /\ answer.kind = "found" /\ store \in Stores
    BY Kinds DEF WorldInv
<1>2. object # None => Known(object)
    BY DEF WorldInv
<1>3. object \in Version
    BY <1>2 DEF Known, Version
<1>4. Match \in Tag
  <2>1. srv.meta # None => RawTag(srv.meta) \in Tag
      BY <1>1, TagTypes DEF Known
  <2> QED BY <2>1 DEF Match, Pinned, Tag
<1>5. \A o : range = None => Clamped(range, o) = None
    BY DEF Clamped
<1>6. CASE store.adapter \in {"s3", "azure"}
  <2>1. /\ object # None /\ ~Beyond(range, object)
        /\ answer = FoundIn(object, object, Clamped(range, object))
      BY <1>1, <1>6, ReadSays DEF StoreGet, S3GetObject, AzureGetObject
  <2> QED BY <2>1, <1>1, <1>2, <1>5, <1>6 DEF FoundIn
<1>7. CASE store.adapter \in {"r2", "memory"}
  <2>1. /\ object # None /\ ~Beyond(range, object)
        /\ answer = FoundIn(object, object, Clamped(range, object))
      BY <1>1, <1>7 DEF StoreGet, R2GetObject, MemoryGetObject, ServedSpan, Found, FoundIn,
         Missing, ObjectChanged, Failed
  <2> QED BY <2>1, <1>1, <1>2, <1>5, <1>7 DEF FoundIn
<1>8. CASE store.adapter = "http"
  <2>1. answer = HttpGetObject(store, object, range, Match, mood)
      BY <1>8 DEF StoreGet
  <2>2. /\ object # None /\ answer.of = object /\ answer.source = object
        /\ \/ answer.range = None
           \/ answer.range = Clamped(range, object) /\ range # None /\ ~Beyond(range, object)
      BY <2>1, <1>1, <1>3, <1>4, HttpSays
  <2> QED BY <2>2, <1>1, <1>2, <1>8
<1>9. CASE store.adapter = "gcs"
  <2>1. answer = GcsGetObject(store, srv.meta, object, range)
      BY <1>9 DEF StoreGet
  <2>2. /\ ~Beyond(range, srv.meta)
        /\ answer = FoundIn(srv.meta, OpenGcsRead(store, srv.meta, object).source,
                            Clamped(range, srv.meta))
        /\ OpenGcsRead(store, srv.meta, object).kind = "found"
      BY <2>1, <1>1 DEF GcsGetObject, Failed, FoundIn
  <2>3. OpenGcsRead(store, srv.meta, object).source = srv.meta
      BY <2>2 DEF OpenGcsRead, FoundIn, ClassifyStoreRead, GcsPinnedClassifiers, Missing,
         ObjectChanged, Unavailable, Failed
  <2> QED BY <2>2, <2>3, <1>1, <1>5, <1>9 DEF FoundIn
<1>10. CASE store.adapter = "fs"
  <2>1. answer = FsGetObject(Hit, object, range)
      BY <1>10 DEF StoreGet
  <2>2. Hit # None /\ Hit.body # None => Known(Hit.of) /\ Hit.body = Hit.of
      BY DEF Hit, CacheGet, CacheInv
  <2>3. \E o : Known(o) /\ answer = ServedBounds(o, o, range)
      BY <2>1, <2>2, <1>1, <1>2 DEF FsGetObject, PinnedRead, Missing
  <2>4. PICK o : Known(o) /\ answer = ServedBounds(o, o, range)
      BY <2>3
  <2>5. ~Beyond(range, o) /\ answer = FoundIn(o, o, Clamped(range, o))
      BY <2>4, <1>1 DEF ServedBounds, Failed
  <2> QED BY <2>4, <2>5, <1>1, <1>5, <1>10 DEF FoundIn
<1>11. CASE store.adapter = "custom"
  <2>1. answer = CustomGetObject(store, object, range, Match)
      BY <1>11 DEF StoreGet
  <2>2. /\ object # None /\ ~Beyond(range, object)
        /\ answer = FoundIn(object, object, Clamped(range, object))
        /\ store.matches /\ Match # None => TagAt(store, object) = Match
      BY <2>1, <1>1 DEF CustomGetObject, Status, Found, FoundIn, Missing, ObjectChanged, Failed
  <2>3. ASSUME ~store.tells, srv.meta # None PROVE object = srv.meta
    <3>1. store.tag = "strong" /\ store.matches
        BY <1>1, <2>3
    <3>2. RawTag(srv.meta) # None /\ RawTag(srv.meta).strong = TRUE
        BY <3>1, <2>3, <1>1, TagTypes DEF Known
    <3>3. Match = RawTag(srv.meta)
        BY <3>2, <2>3 DEF Match, Pinned
    <3>4. RawTag(object) = RawTag(srv.meta)
        BY <2>2, <3>1, <3>2, <3>3 DEF RawTag
    <3> QED BY <3>1, <3>4, <2>2, <2>3, <1>1, <1>2, KnownByTag
  <2>4. /\ answer.of = object /\ answer.source = object /\ answer.range = Clamped(range, object)
      BY <2>2 DEF FoundIn
  <2> QED BY <2>2, <2>3, <2>4, <1>1, <1>2, <1>5, <1>11
<1> QED BY <1>1, <1>6, <1>7, <1>8, <1>9, <1>10, <1>11

-------------------------------------------------------------------------------
(* The handling of a request                                               *)

SrvInv == SrvType /\ NotYet /\ PlanInv /\ MetaInv /\ FirstInv /\ StreamInv /\ SentInv

\* A read accepted against the HEAD is of a version like the HEAD's.
LEMMA AcceptedSays ==
    ASSUME store \in Stores, srv.meta # None, Known(srv.meta), NEW o, Known(o),
           Accepted(ReadTag(o), ReadDate(o)), ~store.tells => o = srv.meta
    PROVE  Alike(srv.meta, o)
<1>1. /\ store.tag \in {"strong", "weak", "none"} /\ store.dates \in BOOLEAN /\ store.tells \in BOOLEAN
      /\ o \in Objects /\ srv.meta \in Objects
    BY Kinds DEF Known
<1>2. CASE o = srv.meta
    BY <1>2 DEF Alike
<1>3. CASE store.tells /\ o # srv.meta
  <2>1. ReadTag(o) = TagOf(o) /\ ReadDate(o) = DateOf(o)
      BY <1>3 DEF ReadTag, ReadDate
  <2>2. IF Comparable(TagOf(srv.meta), TagOf(o)) THEN TagOf(srv.meta) = TagOf(o)
        ELSE DateOf(srv.meta) # None /\ DateOf(o) # None => DateOf(srv.meta) = DateOf(o)
      BY <2>1 DEF Accepted
  <2>3. store.tag = "none"
    <3> SUFFICES ASSUME store.tag # "none" PROVE FALSE
        BY <1>1
    <3>1. /\ TagOf(o) = RawTag(o) /\ RawTag(o) # None
          /\ TagOf(srv.meta) = RawTag(srv.meta) /\ RawTag(srv.meta) # None
        BY <1>1, TagTypes
    <3>2. RawTag(o).strong = RawTag(srv.meta).strong
        BY <1>1, TagTypes
    <3>3. Comparable(TagOf(srv.meta), TagOf(o))
        BY <3>1, <3>2 DEF Comparable
    <3>4. RawTag(o) = RawTag(srv.meta)
        BY <2>2, <3>1, <3>3
    <3> QED BY <3>4, <1>3, KnownByTag
  <2>4. CASE store.dates
    <3>1. /\ DateOf(o) = o.mtime /\ DateOf(srv.meta) = srv.meta.mtime
          /\ TagOf(o) = Weak(<<o.size, o.mtime>>)
          /\ TagOf(srv.meta) = Weak(<<srv.meta.size, srv.meta.mtime>>)
        BY <1>1, <2>3, <2>4, TagTypes
    <3>2. TagOf(o) \in Tags /\ TagOf(srv.meta) \in Tags
      <4>1. <<o.size, o.mtime>> \in Seq(Nat) /\ <<srv.meta.size, srv.meta.mtime>> \in Seq(Nat)
          BY <1>1, VersionType
      <4> QED BY <3>1, <4>1 DEF Weak, Tags
    <3>3. TagOf(o).strong = FALSE /\ TagOf(srv.meta).strong = FALSE
        BY <3>1 DEF Weak
    <3>4. Comparable(TagOf(srv.meta), TagOf(o))
        BY <3>2, <3>3, NoneAssumption DEF Comparable, NoneAssumption
    <3>5. TagOf(srv.meta) = TagOf(o)
        BY <2>2, <3>4
    <3>6. <<o.size, o.mtime>>[2] = <<srv.meta.size, srv.meta.mtime>>[2]
        BY <3>1, <3>5 DEF Weak
    <3> QED BY <2>3, <3>1, <3>5, <3>6 DEF Alike
  <2>5. CASE ~store.dates
    <3>1. DateOf(o) = None /\ DateOf(srv.meta) = None /\ TagOf(o) = None /\ TagOf(srv.meta) = None
        BY <1>1, <2>3, <2>5, TagTypes
    <3> QED BY <2>3, <3>1 DEF Alike
  <2> QED BY <1>1, <2>4, <2>5
<1>4. CASE ~store.tells
    BY <1>2, <1>4
<1> QED BY <1>1, <1>2, <1>3, <1>4

\* Alike and described, they are of one size.
LEMMA SizeAlike ==
    ASSUME store \in Stores, NEW a \in Objects, NEW b \in Objects, Alike(a, b),
           TagOf(b) # None \/ DateOf(b) # None
    PROVE  a.size = b.size
<1>1. CASE store.tag # "none"
    BY <1>1 DEF Alike
<1>2. CASE store.tag = "none"
  <2>1. store.dates
      BY <1>2, TagTypes, Kinds
  <2>2. TagOf(a) = Weak(<<a.size, a.mtime>>) /\ TagOf(b) = Weak(<<b.size, b.mtime>>)
      BY <1>2, <2>1, TagTypes
  <2>4. TagOf(a) = TagOf(b)
      BY DEF Alike
  <2>3. <<a.size, a.mtime>>[1] = <<b.size, b.mtime>>[1]
      BY <2>2, <2>4 DEF Weak
  <2> QED BY <2>3
<1> QED BY <1>1, <1>2

\* The headers of a read describe it, be they its own or the HEAD's.
LEMMA HeadersSay ==
    ASSUME store \in Stores, now \in Nat, NEW o, Known(o), NEW status \in {200, 206},
           srv.meta # None => Known(srv.meta) /\ Alike(srv.meta, o)
    PROVE  LET headers == HeadersOfRead(o, status) IN
           /\ headers \in Headers /\ headers.status = status /\ headers.total = o.size
           /\ headers.tag \in {None, TagOf(o)} /\ headers.date \in {None, DateOf(o)}
<1> DEFINE headers == HeadersOfRead(o, status)
           tag == ReadTag(o)
           date == ReadDate(o)
           atag == IF tag # None \/ ~Verified(tag, date) THEN tag ELSE TagOf(srv.meta)
           adate == IF date # None \/ ~Verified(tag, date) THEN date ELSE DateOf(srv.meta)
<1>1. headers = [status |-> status, at |-> now, total |-> o.size, tag |-> atag, date |-> adate]
    BY DEF HeadersOfRead
<1>2. /\ o \in Objects /\ o.size \in Sizes /\ TagOf(o) \in Tag /\ DateOf(o) \in Dates
    BY VersionType, TagTypes DEF Known
<1>3. atag \in {None, TagOf(o)} /\ adate \in {None, DateOf(o)}
  <2>1. tag \in {None, TagOf(o)} /\ date \in {None, DateOf(o)}
      BY DEF ReadTag, ReadDate
  <2>2. Verified(tag, date) => TagOf(srv.meta) = TagOf(o) /\ DateOf(srv.meta) = DateOf(o)
      BY DEF Verified, Alike
  <2> QED BY <2>1, <2>2
<1>4. atag \in Tag /\ adate \in Dates
    BY <1>2, <1>3 DEF Tag, Dates
<1> HIDE DEF tag, date, atag, adate, headers
<1>5. headers \in Headers
    BY <1>1, <1>2, <1>4 DEF Headers
<1>6. headers.status = status /\ headers.total = o.size /\ headers.tag = atag /\ headers.date = adate
    BY <1>1
<1> QED BY <1>3, <1>5, <1>6 DEF headers

\* Of two versions that are alike what one is permitted the other is.
LEMMA PermittedAlike ==
    ASSUME NEW req, NEW a, NEW b, Permitted(req, a), Alike(a, b)
    PROVE  Permitted(req, b)
BY DEF Permitted, Alike

\* A request without conditions permits every version.
LEMMA PermittedWithout ==
    ASSUME NEW req, ~HasConditional(req), NEW o
    PROVE  Permitted(req, o)
BY DEF HasConditional, Permitted

\* The fields of the state of a request being served.
LEMMA Fields ==
    ASSUME SrvType
    PROVE  /\ srv.req \in AnyRequest /\ srv.attempt \in 0..1 /\ srv.meta \in Version
           /\ srv.multi \in BOOLEAN /\ srv.plan \in Seq(Spans) /\ srv.first \in Version
           /\ srv.reading \in Version /\ srv.headers \in Headers /\ srv.out \in Seq(Seq(Bytes))
           /\ srv.whole \in BOOLEAN
           /\ srv.pc \in {"idle", "speculating", "heading", "getting", "opening", "streaming",
                          "parting", "answered"}
           /\ srv = [pc |-> srv.pc, req |-> srv.req, attempt |-> srv.attempt, meta |-> srv.meta,
                     multi |-> srv.multi, plan |-> srv.plan, first |-> srv.first,
                     reading |-> srv.reading, headers |-> srv.headers, out |-> srv.out,
                     whole |-> srv.whole]
BY DEF SrvType, Handling

\* The values a request begins with have their types.
LEMMA Zero == 0 \in Nat /\ 0 \in 0..1 /\ NoHeaders \in Headers /\ Quiet.plan = <<>>
BY DEF Quiet, NoHeaders, Headers, Tag, Dates

\* What is said of versions stays true while the store and they are the same.
LEMMA Frozen ==
    ASSUME store' = store, versions' = versions
    PROVE  /\ \A o : Known(o)' <=> Known(o)
           /\ \A o : RawTag(o)' = RawTag(o) /\ TagOf(o)' = TagOf(o) /\ DateOf(o)' = DateOf(o)
           /\ \A req, o : Permitted(req, o)' <=> Permitted(req, o)
           /\ \A a, b : Alike(a, b)' <=> Alike(a, b)
           /\ \A m, a, b : Mate(m, a, b)' <=> Mate(m, a, b)
           /\ \A req : Speculates(req)' <=> Speculates(req)
BY DEF Known, RawTag, TagOf, DateOf, Permitted, Alike, Mate, Speculates

Same == store' = store /\ versions' = versions

\* Answering with an error and no body keeps the invariant of the request.
LEMMA AnswerKeeps ==
    ASSUME SrvInv, Same, Before, NEW status \in {404, 502, 503}, Answer(status)
    PROVE  SrvInv'
<1>1. /\ srv.first = None /\ srv.out = <<>> /\ ~srv.whole
    BY DEF SrvInv, NotYet, FirstInv
<1>2. [NoHeaders EXCEPT !.status = status] \in Headers
      /\ [NoHeaders EXCEPT !.status = status].status = status
    BY Zero DEF NoHeaders, Headers
<1>3. PICK h \in Headers : h.status = status /\ srv' = [srv EXCEPT !.pc = "answered", !.headers = h]
    BY <1>2, ZenonT(60) DEF Answer
<1>4. /\ srv'.pc = "answered" /\ srv'.headers = h /\ srv'.req = srv.req /\ srv'.attempt = srv.attempt
      /\ srv'.meta = srv.meta /\ srv'.multi = srv.multi /\ srv'.plan = srv.plan
      /\ srv'.first = srv.first /\ srv'.reading = srv.reading /\ srv'.out = srv.out
      /\ srv'.whole = srv.whole
    BY <1>3, Fields DEF SrvInv
<1>5. SrvType'
  <2>1. ASSUME NEW s, s = srv PROVE [s EXCEPT !.pc = "answered", !.headers = h] \in Handling
    <3>1. s \in Handling
        BY <2>1 DEF SrvInv, SrvType, Handling
    <3> QED BY ONLY <3>1, h \in Headers, ZenonT(60) DEF Handling
  <2> QED BY <2>1, <1>3, ZenonT(60) DEF SrvType, Handling
<1>6. NotYet'
    BY <1>4 DEF NotYet, Before
<1>7. PlanInv'
    BY <1>4 DEF SrvInv, PlanInv
<1>8. MetaInv'
    BY <1>4, Frozen DEF SrvInv, MetaInv, Same
<1>9. FirstInv'
    BY <1>1, <1>3, <1>4 DEF FirstInv
<1>10. StreamInv' /\ SentInv'
  <2>1. Len(srv.plan) \in Nat
      BY Fields DEF SrvInv
  <2> QED BY <2>1, <1>1, <1>4 DEF StreamInv, SentInv, Pieces
<1> QED BY <1>5, <1>6, <1>7, <1>8, <1>9, <1>10 DEF SrvInv

\* A store that refuses a read leads to one of the three error answers.
LEMMA RefusedSays ==
    ASSUME NEW answer, Refused(answer)
    PROVE  \E status \in {404, 502, 503} : Answer(status)
BY DEF Refused

\* A refusal of the store keeps the invariant of the request.
LEMMA RefusedKeeps ==
    ASSUME SrvInv, Same, Before, NEW answer, Refused(answer)
    PROVE  SrvInv'
<1>1. \E status \in {404, 502, 503} : Answer(status)
    BY RefusedSays
<1> QED BY <1>1, AnswerKeeps

\* Begun again, or nothing yet begun.
LEMMA AfreshKeeps ==
    ASSUME SrvInv, Same, NEW pc, NEW attempt \in 0..1, NEW req \in AnyRequest,
           srv' = [pc |-> pc, req |-> req, attempt |-> attempt, meta |-> None, multi |-> FALSE,
                   plan |-> <<>>, first |-> None, reading |-> None, headers |-> NoHeaders,
                   out |-> <<>>, whole |-> FALSE],
           \/ pc = "heading"
           \/ pc = "speculating" /\ Speculates(req)
           \/ pc = "getting" /\ ~NeedsHead(req)
    PROVE  SrvInv'
<1>1. /\ srv'.pc = pc /\ srv'.headers = NoHeaders /\ srv'.req = req /\ srv'.attempt = attempt
      /\ srv'.meta = None /\ srv'.multi = FALSE /\ srv'.plan = <<>>
      /\ srv'.first = None /\ srv'.reading = None /\ srv'.out = <<>> /\ srv'.whole = FALSE
    OBVIOUS
<1>2. NoHeaders \in Headers /\ None \in Version /\ <<>> \in Seq(Spans) /\ <<>> \in Seq(Seq(Bytes))
    BY Zero DEF Version
<1>3. SrvType'
    BY <1>1, <1>2 DEF SrvType, Handling
<1>4. NotYet'
    BY <1>1, Frozen DEF NotYet, Before, Same
<1>5. PlanInv' /\ MetaInv' /\ FirstInv' /\ StreamInv' /\ SentInv'
    BY <1>1 DEF PlanInv, MetaInv, FirstInv, StreamInv, SentInv, Pieces, NoHeaders
<1> QED BY <1>3, <1>4, <1>5 DEF SrvInv

\* A read that found another version than the head described either starts over, once, or gives
\* up; both keep the invariant of the request.
LEMMA ChangedKeeps ==
    ASSUME SrvInv, Same, Before, Changed
    PROVE  SrvInv'
<1>1. CASE srv.meta # None /\ srv.attempt = 0
  <2>1. srv' = [pc |-> "heading", req |-> srv.req, attempt |-> 1, meta |-> None, multi |-> FALSE,
                plan |-> <<>>, first |-> None, reading |-> None, headers |-> NoHeaders,
                out |-> <<>>, whole |-> FALSE]
    <3>1. srv' = [Quiet EXCEPT !.req = srv.req, !.attempt = 1, !.pc = "heading"]
        BY <1>1 DEF Changed
    <3> QED BY <3>1 DEF Quiet
  <2>2. 1 \in 0..1 /\ srv.req \in AnyRequest
      BY Fields DEF SrvInv
  <2> QED BY <2>1, <2>2, AfreshKeeps
<1>2. CASE ~(srv.meta # None /\ srv.attempt = 0)
  <2>1. Answer(502)
      BY <1>2 DEF Changed
  <2> QED BY <2>1, AnswerKeeps
<1> QED BY <1>1, <1>2

\* An answer begins, with headers that describe its first read and a plan this
\* has the bytes of.
LEMMA StreamsKeep ==
    ASSUME SrvInv, Same, Before, NEW answer, NEW plan, NEW headers, Streams(answer, plan, headers),
           Known(answer.of), answer.source = answer.of, plan \in Seq(Spans), headers \in Headers,
           \A k \in 1..Len(plan) : plan[k].start <= plan[k].end,
           Len(plan) # 0 /\ (Len(plan) = 1 \/ Buffered(plan)) =>
               \A k \in 1..Len(plan) : plan[k].end < answer.of.size,
           Len(plan) # 0 => plan[1].end < answer.of.size,
           srv.multi <=> Len(plan) > 1,
           Permitted(srv.req, answer.of), srv.meta # None => Alike(srv.meta, answer.of),
           headers.status = IF plan = <<>> THEN 200 ELSE 206,
           srv.multi => plan = srv.plan,
           plan # <<>> /\ (headers.tag # None \/ headers.date # None) =>
               Serves(plan, srv.req.specs, headers.total),
           headers.tag \in {None, TagOf(answer.of)}, headers.date \in {None, DateOf(answer.of)},
           ~srv.multi \/ headers.tag # None \/ headers.date # None => headers.total = answer.of.size
    PROVE  SrvInv'
<1>1. /\ srv.first = None /\ srv.out = <<>> /\ ~srv.whole
    BY DEF SrvInv, NotYet, FirstInv
<1>2. srv' = [srv EXCEPT !.pc = "streaming", !.first = answer.of, !.reading = answer.of,
                         !.plan = plan, !.headers = headers]
    BY DEF Streams
<1>3. /\ srv'.pc = "streaming" /\ srv'.headers = headers /\ srv'.req = srv.req
      /\ srv'.meta = srv.meta /\ srv'.multi = srv.multi /\ srv'.plan = plan
      /\ srv'.first = answer.of /\ srv'.reading = answer.of /\ srv'.out = <<>>
      /\ srv'.whole = srv.whole
    BY <1>1, <1>2, Fields DEF SrvInv
<1>4. answer.of \in Version /\ answer.of # None
    BY VersionType DEF Known, Version
<1>5. SrvType'
  <2>1. srv' = [pc |-> "streaming", req |-> srv.req, attempt |-> srv.attempt, meta |-> srv.meta,
                     multi |-> srv.multi, plan |-> plan, first |-> answer.of,
                     reading |-> answer.of, headers |-> headers, out |-> srv.out,
                     whole |-> srv.whole]
      BY <1>2, Fields DEF SrvInv
  <2> QED BY <2>1, <1>4, Fields DEF SrvInv, SrvType, Handling
<1>6. NotYet'
    BY <1>3 DEF NotYet, Before
<1>7. PlanInv'
    BY <1>3 DEF SrvInv, PlanInv
<1>8. MetaInv'
    BY <1>3, Frozen DEF SrvInv, MetaInv, Same
<1>9. FirstInv'
    BY <1>3, <1>4, Frozen DEF FirstInv, Described, Same
<1>10. StreamInv'
  <2>1. IF plan = <<>> THEN <<>> = <<>> ELSE Len(<<>>) < Len(plan)
      OBVIOUS
  <2>2. \A k \in 1..Len(plan) : k = Len(<<>>) + 1 \/ Buffered(plan) => plan[k].end < answer.of.size
      OBVIOUS
  <2> QED BY <1>3, <1>4, <2>1, <2>2, Frozen DEF StreamInv, Mate, Same
<1>11. SentInv'
  <2>1. Len(plan) \in Nat
      OBVIOUS
  <2> QED BY <2>1, <1>1, <1>3 DEF SentInv, Pieces
<1> QED BY <1>5, <1>6, <1>7, <1>8, <1>9, <1>10, <1>11 DEF SrvInv

\* One range or none, of a version like the HEAD's if there was one.
LEMMA StreamFromStoreKeeps ==
    ASSUME SrvInv, Same, Before, now \in Nat, store \in Stores, ~srv.multi,
           NEW answer, StreamFromStore(answer),
           answer.kind = "found" =>
               /\ Known(answer.of) /\ answer.source = answer.of
               /\ ~store.tells /\ srv.meta # None => answer.of = srv.meta
               /\ answer.range # None =>
                     /\ answer.range \in Spans /\ answer.range.start <= answer.range.end
                     /\ answer.range.end < answer.of.size
                     /\ (srv.meta # None => srv.meta.size = answer.of.size) =>
                           Serves(<<answer.range>>, srv.req.specs, answer.of.size),
           srv.meta = None => ~HasConditional(srv.req),
           srv.meta # None => Permitted(srv.req, srv.meta)
    PROVE  SrvInv'
<1>1. CASE answer = ObjectChanged
    BY <1>1, ChangedKeeps DEF StreamFromStore
<1>2. CASE answer # ObjectChanged /\ answer.kind # "found"
    BY <1>2, RefusedKeeps DEF StreamFromStore
<1>3. CASE answer # ObjectChanged /\ answer.kind = "found" /\ ~Accepted(ReadTag(answer.of), ReadDate(answer.of))
    BY <1>3, ChangedKeeps DEF StreamFromStore
<1>4. CASE answer # ObjectChanged /\ answer.kind = "found" /\ Accepted(ReadTag(answer.of), ReadDate(answer.of))
  <2>1. PICK plan, status, headers :
           /\ plan = IF answer.range = None THEN <<>> ELSE <<answer.range>>
           /\ status = IF answer.range = None THEN 200 ELSE 206
           /\ headers = HeadersOfRead(answer.of, status)
      BY ZenonT(60)
  <2>2. Streams(answer, plan, headers)
      BY <1>4, <2>1 DEF StreamFromStore
  <2>3. Known(answer.of) /\ answer.source = answer.of
      BY <1>4
  <2>4. srv.meta # None => Known(srv.meta) /\ Alike(srv.meta, answer.of)
    <3> SUFFICES ASSUME srv.meta # None PROVE Known(srv.meta) /\ Alike(srv.meta, answer.of)
        OBVIOUS
    <3>1. Known(srv.meta)
        BY DEF SrvInv, MetaInv
    <3>2. ~store.tells => answer.of = srv.meta
        BY <1>4
    <3> QED BY <1>4, <2>3, <3>1, <3>2, AcceptedSays
  <2>5. Permitted(srv.req, answer.of)
      BY <2>4, PermittedAlike, PermittedWithout
  <2>6. /\ headers \in Headers /\ headers.status = status /\ headers.total = answer.of.size
        /\ headers.tag \in {None, TagOf(answer.of)} /\ headers.date \in {None, DateOf(answer.of)}
    <3>1. status \in {200, 206}
        BY <2>1
    <3> QED BY <2>1, <2>3, <2>4, <3>1, HeadersSay
  <2>9. ASSUME plan # <<>>, headers.tag # None \/ headers.date # None
        PROVE  Serves(plan, srv.req.specs, headers.total)
    <3>1. answer.range # None /\ plan = <<answer.range>>
        BY <2>1, <2>9
    <3>2. TagOf(answer.of) # None \/ DateOf(answer.of) # None
        BY <2>6, <2>9
    <3>3. srv.meta # None => srv.meta.size = answer.of.size
        BY <2>3, <2>4, <3>2, SizeAlike DEF Known
    <3> QED BY <1>4, <2>6, <3>1, <3>3
  <2>7. CASE answer.range = None
    <3>1. plan = <<>> /\ status = 200 /\ plan \in Seq(Spans) /\ Len(plan) = 0
        BY <2>1, <2>7
    <3>2. /\ \A k \in 1..Len(plan) : plan[k].start <= plan[k].end
          /\ \A k \in 1..Len(plan) : plan[k].end < answer.of.size
        BY <3>1
    <3>5. /\ Len(plan) # 0 => plan[1].end < answer.of.size
          /\ srv.multi <=> Len(plan) > 1
          /\ headers.status = IF plan = <<>> THEN 200 ELSE 206
        BY <2>6, <3>1
    <3> QED BY <3>5, <2>9, <2>2, <2>3, <2>4, <2>5, <2>6, <3>1, <3>2, StreamsKeep, ZenonT(60)
  <2>8. CASE answer.range # None
    <3>1. /\ answer.range \in Spans /\ answer.range.start <= answer.range.end
          /\ answer.range.end < answer.of.size
        BY <1>4, <2>8
    <3>2. plan = <<answer.range>> /\ status = 206 /\ plan \in Seq(Spans) /\ Len(plan) = 1
          /\ plan # <<>> /\ plan[1] = answer.range
        BY <2>1, <2>8, <3>1
    <3>3. \A k \in 1..Len(plan) : plan[k] = answer.range
        BY <3>2
    <3>4. /\ \A k \in 1..Len(plan) : plan[k].start <= plan[k].end
          /\ \A k \in 1..Len(plan) : plan[k].end < answer.of.size
        BY <3>1, <3>3
    <3>5. /\ Len(plan) # 0 => plan[1].end < answer.of.size
          /\ srv.multi <=> Len(plan) > 1
          /\ headers.status = IF plan = <<>> THEN 200 ELSE 206
        BY <2>6, <3>1, <3>2
    <3> QED BY <3>5, <2>9, <2>2, <2>3, <2>4, <2>5, <2>6, <3>2, <3>4, StreamsKeep
  <2> QED BY <2>7, <2>8
<1> QED BY <1>1, <1>2, <1>3, <1>4

\* What a store gives of a range that is one, or of the whole.
LEMMA GetGives ==
    ASSUME WorldInv, CacheInv, SrvType, NEW range \in Asked \cup {None}, NEW mood,
           range # None => range.end = None \/ range.start <= range.end,
           srv.meta # None => Known(srv.meta),
           store.adapter = "gcs" => srv.meta # None,
           StoreGet(range, mood).kind = "found"
    PROVE  LET answer == StoreGet(range, mood) IN
           /\ Known(answer.of) /\ answer.source = answer.of
           /\ store.adapter = "gcs" => answer.of = srv.meta
           /\ ~store.tells /\ srv.meta # None => answer.of = srv.meta
           /\ answer.range # None =>
                 /\ answer.range \in Spans /\ answer.range.start <= answer.range.end
                 /\ answer.range.end < answer.of.size
                 /\ range # None /\ answer.range = Clamped(range, answer.of)
                 /\ answer.range.start = range.start
<1> SUFFICES ASSUME NEW answer, answer = StoreGet(range, mood)
             PROVE  /\ Known(answer.of) /\ answer.source = answer.of
                    /\ store.adapter = "gcs" => answer.of = srv.meta
                    /\ ~store.tells /\ srv.meta # None => answer.of = srv.meta
                    /\ answer.range # None =>
                          /\ answer.range \in Spans /\ answer.range.start <= answer.range.end
                          /\ answer.range.end < answer.of.size
                          /\ range # None /\ answer.range = Clamped(range, answer.of)
                          /\ answer.range.start = range.start
    OBVIOUS
<1>1. /\ Known(answer.of) /\ answer.source = answer.of
      /\ \/ answer.range = None
         \/ range # None /\ answer.range = Clamped(range, answer.of) /\ ~Beyond(range, answer.of)
      /\ store.adapter = "gcs" => answer.of = srv.meta
      /\ ~store.tells /\ srv.meta # None => answer.of = srv.meta
    BY GetSays
<1>2. ASSUME answer.range # None
      PROVE  /\ answer.range \in Spans /\ answer.range.start <= answer.range.end
             /\ answer.range.end < answer.of.size
             /\ range # None /\ answer.range = Clamped(range, answer.of)
             /\ answer.range.start = range.start
  <2>1. range # None /\ answer.range = Clamped(range, answer.of) /\ ~Beyond(range, answer.of)
      BY <1>1, <1>2
  <2>2. range \in Asked /\ answer.of \in Objects
      BY <1>1, <2>1 DEF Known
  <2> QED BY <2>1, <2>2, ClampedSays
<1> QED BY <1>1, <1>2

\* A range that ends inside the object is not changed by clamping.
LEMMA ClampedSame ==
    ASSUME NEW range \in Spans, NEW o \in Objects, range.end < o.size
    PROVE  Clamped(range, o) = range
<1>1. /\ range.end \in Nat /\ None \notin Nat /\ range # None /\ o.size \in Nat
    BY RangeTypes, VersionType
<1>2. Min({range.end, o.size - 1}) = range.end
  <2>1. range.end \in Int /\ o.size - 1 \in Int
      BY <1>1
  <2> QED BY <1>1, <2>1, MinOfTwo
<1>3. range = [kind |-> "range", start |-> range.start, end |-> range.end]
    BY DEF Spans
<1> QED BY <1>1, <1>2, <1>3 DEF Clamped, RangeOf

\* A plan that is not multipart is one part.
LEMMA OnePart ==
    ASSUME SrvInv, ~srv.multi, srv.plan # <<>>
    PROVE  Len(srv.plan) = 1
<1>1. PICK n \in Nat : n = Len(srv.plan)
    BY Fields DEF SrvInv
<1>2. n # 0
    BY <1>1, Fields DEF SrvInv
<1>3. ~(Len(srv.plan) > 1)
    BY DEF SrvInv, PlanInv
<1>4. ~(n > 1)
    BY <1>1, <1>3
<1>5. n = 1
    BY <1>2, <1>4
<1> QED BY <1>1, <1>5

\* The read of a single range or of the whole object keeps the invariant.
LEMMA GetObjectKeeps ==
    ASSUME WorldInv, CacheInv, SrvInv, Same, NEW mood, GetObject(mood)
    PROVE  SrvInv'
<1>1. PICK range : range = IF srv.plan = <<>> THEN None ELSE srv.plan[1]
    OBVIOUS
<1>2. srv.pc = "getting" /\ ~srv.multi /\ ~Measures /\ StreamFromStore(StoreGet(range, mood))
    BY <1>1 DEF GetObject
<1>3. range \in Asked \cup {None} /\ (range # None => range.end = None \/ range.start <= range.end)
  <2>1. CASE srv.plan = <<>>
      BY <1>1, <2>1
  <2>2. CASE srv.plan # <<>>
    <3>1. 1 \in 1..Len(srv.plan) /\ srv.plan[1] \in Spans
        BY <2>2, Fields DEF SrvInv
    <3> QED BY <1>1, <2>2, <3>1, RangeTypes DEF SrvInv, PlanInv
  <2> QED BY <2>1, <2>2
<1>4. srv.meta # None => Known(srv.meta) /\ Permitted(srv.req, srv.meta)
    BY <1>2 DEF SrvInv, MetaInv
<1>5. store.adapter = "gcs" => srv.meta # None
    BY <1>2 DEF Measures, UsablePin
<1>6. srv.meta = None => ~HasConditional(srv.req)
    BY <1>2 DEF SrvInv, NotYet, NeedsHead
<1>7. now \in Nat /\ store \in Stores /\ SrvType
    BY WebReadAssumption DEF WorldInv, SrvInv, WebReadAssumption
<1>8. PICK answer : answer = StoreGet(range, mood)
    OBVIOUS
<1>9. ASSUME answer.kind = "found"
      PROVE  /\ Known(answer.of) /\ answer.source = answer.of
             /\ ~store.tells /\ srv.meta # None => answer.of = srv.meta
             /\ answer.range # None =>
                   /\ answer.range \in Spans /\ answer.range.start <= answer.range.end
                   /\ answer.range.end < answer.of.size
                   /\ (srv.meta # None => srv.meta.size = answer.of.size) =>
                         Serves(<<answer.range>>, srv.req.specs, answer.of.size)
  <2>1. /\ Known(answer.of) /\ answer.source = answer.of
        /\ ~store.tells /\ srv.meta # None => answer.of = srv.meta
        /\ answer.range # None =>
              /\ answer.range \in Spans /\ answer.range.start <= answer.range.end
              /\ answer.range.end < answer.of.size
              /\ range # None /\ answer.range = Clamped(range, answer.of)
      BY <1>3, <1>4, <1>5, <1>7, <1>8, <1>9, GetGives
  <2>2. ASSUME answer.range # None, srv.meta # None => srv.meta.size = answer.of.size
        PROVE  Serves(<<answer.range>>, srv.req.specs, answer.of.size)
    <3>1. srv.plan # <<>> /\ range = srv.plan[1] /\ answer.range = Clamped(range, answer.of)
        BY <1>1, <2>1, <2>2
    <3>2. srv.meta # None
        BY <1>2, <3>1 DEF SrvInv, NotYet
    <3>3. srv.meta.size = answer.of.size /\ Serves(srv.plan, srv.req.specs, srv.meta.size)
        BY <1>2, <2>2, <3>1, <3>2 DEF SrvInv, MetaInv
    <3>4. Len(srv.plan) = 1 /\ srv.plan \in Seq(Spans) /\ 1 \in 1..Len(srv.plan)
        BY <1>2, <3>1, OnePart, Fields DEF SrvInv
    <3>5. range \in Spans /\ range.end < answer.of.size
        BY <3>1, <3>3, <3>4 DEF Serves
    <3>6. answer.range = range
        BY <3>1, <3>5, <2>1, ClampedSame DEF Known
    <3>7. <<answer.range>> = srv.plan
        BY <3>1, <3>4, <3>6
    <3> QED BY <3>3, <3>7
  <2> QED BY <2>1, <2>2
<1>10. StreamFromStore(answer) /\ Before
    BY <1>2, <1>8 DEF Before
<1> QED BY <1>2, <1>4, <1>6, <1>7, <1>9, <1>10, StreamFromStoreKeeps

\* The metadata that gcsStore reads when no head pinned a version keeps the invariant.
LEMMA MeasureKeeps ==
    ASSUME WorldInv, CacheInv, SrvInv, Same, MeasureObject
    PROVE  SrvInv'
<1> DEFINE answer == DescribeGcsObject(store, object, Match)
<1>1. srv.pc = "getting" /\ ~srv.multi /\ store.adapter = "gcs" /\ ~UsablePin(store, srv.meta, Match)
    BY DEF MeasureObject, Measures
<1>2. srv.meta = None
  <2> SUFFICES ASSUME srv.meta # None PROVE FALSE
      OBVIOUS
  <2>1. Known(srv.meta) /\ store.tag = "strong" /\ store \in Stores
      BY <1>1, Kinds DEF SrvInv, MetaInv, WorldInv
  <2>2. RawTag(srv.meta) # None /\ RawTag(srv.meta).strong = TRUE
      BY <2>1, TagTypes DEF Known
  <2>3. Match = TagAt(store, srv.meta)
      BY <2>2 DEF Match, Pinned, RawTag
  <2> QED BY <1>1, <2>3 DEF UsablePin
<1>3. ~NeedsHead(srv.req) /\ srv.plan = <<>> /\ Before
      /\ srv.first = None /\ srv.headers = NoHeaders /\ srv.out = <<>> /\ ~srv.whole
    BY <1>1, <1>2 DEF SrvInv, NotYet, Before, FirstInv
<1>4. CASE answer.kind = "found"
  <2>1. answer.of = object /\ object # None
      BY <1>4 DEF DescribeGcsObject, HeadOf, ClassifyStoreRead, GcsClassifiers, Found, FoundIn,
                  Missing, ObjectChanged, Unavailable, Failed, Throttled
  <2>2. Known(object) /\ object \in Version
      BY <2>1 DEF WorldInv, Known, Version
  <2>3. srv' = [srv EXCEPT !.pc = "opening", !.reading = object]
      BY <1>4, <2>1 DEF MeasureObject
  <2>4. /\ srv'.pc = "opening" /\ srv'.headers = srv.headers /\ srv'.req = srv.req
        /\ srv'.meta = srv.meta /\ srv'.multi = srv.multi /\ srv'.plan = srv.plan
        /\ srv'.first = srv.first /\ srv'.reading = object /\ srv'.out = srv.out
        /\ srv'.whole = srv.whole
      BY <2>3, Fields DEF SrvInv
  <2>5. SrvType'
    <3>1. srv' = [pc |-> "opening", req |-> srv.req, attempt |-> srv.attempt, meta |-> srv.meta,
                  multi |-> srv.multi, plan |-> srv.plan, first |-> srv.first,
                  reading |-> object, headers |-> srv.headers, out |-> srv.out, whole |-> srv.whole]
        BY <2>3, Fields DEF SrvInv
    <3> QED BY <2>2, <3>1, Fields DEF SrvInv, SrvType, Handling
  <2>6. NotYet'
      BY <1>1, <1>2, <1>3, <2>1, <2>2, <2>4, Frozen DEF NotYet, Before, Same
  <2>7. PlanInv' /\ MetaInv'
      BY <1>2, <2>4 DEF SrvInv, PlanInv, MetaInv
  <2>8. FirstInv' /\ StreamInv' /\ SentInv'
      BY <1>3, <2>4 DEF FirstInv, StreamInv, SentInv, Pieces, NoHeaders
  <2> QED BY <2>5, <2>6, <2>7, <2>8 DEF SrvInv
<1>5. CASE answer.kind # "found"
  <2>1. StreamFromStore(answer)
      BY <1>5 DEF MeasureObject
  <2>2. now \in Nat /\ store \in Stores
      BY WebReadAssumption DEF WorldInv, WebReadAssumption
  <2>3. ~HasConditional(srv.req)
      BY <1>3 DEF NeedsHead
  <2> HIDE DEF answer
  <2> QED BY <1>1, <1>2, <1>3, <1>5, <2>1, <2>2, <2>3, StreamFromStoreKeeps
<1> QED BY <1>4, <1>5

\* The read of the generation that the metadata named keeps the invariant.
LEMMA OpenKeeps ==
    ASSUME WorldInv, CacheInv, SrvInv, Same, OpenObject
    PROVE  SrvInv'
<1>1. PICK answer : answer = GcsGetObject(store, srv.reading, object, None)
    OBVIOUS
<1>2. /\ srv.pc = "opening" /\ StreamFromStore(answer) /\ Before
    BY <1>1 DEF OpenObject, Before
<1>3. /\ srv.meta = None /\ ~NeedsHead(srv.req) /\ srv.plan = <<>> /\ Known(srv.reading)
    BY <1>2 DEF SrvInv, NotYet
<1>4. ~srv.multi /\ ~HasConditional(srv.req)
    BY <1>3 DEF SrvInv, PlanInv, NeedsHead
<1>5. answer.kind = "found" => answer.of = srv.reading /\ answer.source = srv.reading /\ answer.range = None
    BY <1>1 DEF GcsGetObject, OpenGcsRead, Clamped, Beyond, FoundIn, ClassifyStoreRead,
       GcsPinnedClassifiers, Missing, ObjectChanged, Unavailable, Failed
<1>6. now \in Nat /\ store \in Stores
    BY WebReadAssumption DEF WorldInv, WebReadAssumption
<1> QED BY <1>2, <1>3, <1>4, <1>5, <1>6, StreamFromStoreKeeps

-------------------------------------------------------------------------------
(* What the kernel decides                                                 *)

\* A single element resolved to its positions is served by a plan of that one part.
LEMMA OneServes ==
    ASSUME NEW specs \in Seq(Specs), Len(specs) = 1, NEW size \in Nat,
           NEW p \in Spans, p.start <= p.end, p.end < size,
           \A pos \in 0..size - 1 :
               Requested(specs[1], pos, size) <=> p.start <= pos /\ pos <= p.end
    PROVE  Serves(<<p>>, specs, size)
<1> SUFFICES ASSUME NEW plan, plan = <<p>> PROVE Serves(plan, specs, size)
    OBVIOUS
<1>1. plan \in Seq(Spans) /\ Len(plan) = 1 /\ plan[1] = p /\ DOMAIN specs = 1..1
    OBVIOUS
<1>2. p.start \in Nat /\ p.end \in Nat
    BY RangeTypes
<1>3. \A k \in 1..Len(plan) : k = 1 /\ plan[k] = p
    BY <1>1
<1>4. \A pos \in 0..size - 1 : Wants(specs, pos, size) <=> p.start <= pos /\ pos <= p.end
    BY <1>1 DEF Wants
<1>5. \A k \in 1..Len(plan) : plan[k].start <= plan[k].end /\ plan[k].end < size
    BY <1>3
<1>6. \A k, l \in 1..Len(plan) : k # l => Disjoint(plan[k], plan[l])
    BY <1>3
<1>7. \A pos \in 0..size - 1 : Wants(specs, pos, size) =>
          \E k \in 1..Len(plan) : plan[k].start <= pos /\ pos <= plan[k].end
    BY <1>1, <1>4
<1>8. \A k \in 1..Len(plan) : \A pos \in plan[k].start..plan[k].end : Filled(specs, pos, size)
  <2> SUFFICES ASSUME NEW pos \in p.start..p.end PROVE Filled(specs, pos, size)
      BY <1>3
  <2>1. pos \in 0..size - 1
      BY <1>2
  <2> QED BY <1>2, <1>4, <2>1 DEF Filled
<1>9. First(specs, p, size, 1)
  <2>1. p.start \in 0..size - 1 /\ p.start \in p.start..p.end
      BY <1>2
  <2>2. Requested(specs[1], p.start, size)
      BY <2>1
  <2> QED BY <2>1, <2>2 DEF First, Touches
<1>10. \E order \in [1..Len(plan) -> DOMAIN specs] :
           /\ \A k \in 1..Len(plan) : First(specs, plan[k], size, order[k])
           /\ \A k, l \in 1..Len(plan) : k < l => order[k] < order[l]
  <2> DEFINE order == [k \in 1..Len(plan) |-> 1]
  <2>1. order \in [1..Len(plan) -> DOMAIN specs]
      BY <1>1
  <2>2. \A k \in 1..Len(plan) : First(specs, plan[k], size, order[k])
      BY <1>3, <1>9
  <2>3. \A k, l \in 1..Len(plan) : ~(k < l)
      BY <1>1
  <2> HIDE DEF order
  <2> QED BY <2>1, <2>2, <2>3
<1> QED BY <1>1, <1>5, <1>6, <1>7, <1>8, <1>10 DEF Serves

\* evaluateConditionalRequest: what it leaves to be served it found under every
\* condition, and a range it hands on is what the request asks for.
Stands(req, tag, date, at) ==
    ~IsPreconditionFailure(req, tag, date) /\ ~IsConditionalFresh(req, tag, date, at)
Fits(range, specs, size) ==
    /\ range \in Spans /\ range.start <= range.end /\ range.end < size
    /\ Serves(<<range>>, specs, size)
Unwanted(specs, size) == \A pos \in 0..size - 1 : ~Wants(specs, pos, size)

\* What evaluateConditionalRequest (kernel.ts) decides: a status, that the conditions of the
\* request stand when a body is sent, and a range only when it fits the header.
LEMMA VerdictSays ==
    ASSUME NEW req \in AnyRequest, NEW tag, NEW date, NEW size \in Nat, NEW at
    PROVE  LET verdict == EvaluateConditionalRequest(req, tag, date, size, at) IN
           /\ verdict.status \in {200, 206, 304, 412, 416}
           /\ req.head => verdict.status \notin {206, 416}
           /\ verdict.status = 416 => Unwanted(req.specs, size)
           /\ verdict.status \in {200, 206} => Stands(req, tag, date, at)
           /\ verdict.range # Ignored => Fits(verdict.range, req.specs, size)
<1>0. req.specs \in Seq(Specs) /\ req.head \in BOOLEAN
    BY DEF AnyRequest
<1> DEFINE range0 == IF ~req.head /\ req.specs # <<>> /\ IsRangeFresh(req, tag, date, at)
                     THEN ParseRangeHeader(req.specs, size) ELSE Ignored
           verdict0 == EvaluateConditionalRequest(req, tag, date, size, at)
           bad == IsPreconditionFailure(req, tag, date)
           fresh == IsConditionalFresh(req, tag, date, at)
<1>a. verdict0 = IF bad THEN [status |-> 412, range |-> Ignored]
                 ELSE IF fresh THEN [status |-> 304, range |-> Ignored]
                 ELSE IF range0 = Unsatisfiable THEN [status |-> 416, range |-> Ignored]
                 ELSE [status |-> IF range0 = Ignored THEN 200 ELSE 206, range |-> range0]
    BY DEF EvaluateConditionalRequest
<1> SUFFICES ASSUME NEW verdict, verdict = verdict0, NEW range, range = range0
             PROVE  /\ verdict.status \in {200, 206, 304, 412, 416}
                    /\ req.head => verdict.status \notin {206, 416}
                    /\ verdict.status = 416 => Unwanted(req.specs, size)
                    /\ verdict.status \in {200, 206} => Stands(req, tag, date, at)
                    /\ verdict.range # Ignored => Fits(verdict.range, req.specs, size)
    OBVIOUS
<1>b. verdict = IF bad THEN [status |-> 412, range |-> Ignored]
                ELSE IF fresh THEN [status |-> 304, range |-> Ignored]
                ELSE IF range = Unsatisfiable THEN [status |-> 416, range |-> Ignored]
                ELSE [status |-> IF range = Ignored THEN 200 ELSE 206, range |-> range]
  <2> HIDE DEF range0, verdict0, bad, fresh
  <2> QED BY <1>a
<1>c. range = IF ~req.head /\ req.specs # <<>> /\ IsRangeFresh(req, tag, date, at)
              THEN ParseRangeHeader(req.specs, size) ELSE Ignored
    OBVIOUS
<1>d. Stands(req, tag, date, at) <=> ~bad /\ ~fresh
    BY DEF Stands
<1> HIDE DEF range0, verdict0, bad, fresh
<1>1. Unsatisfiable # Ignored
    BY DEF Unsatisfiable, Ignored
<1>2. \/ range = Ignored
      \/ ~req.head /\ range = Unsatisfiable /\ Unwanted(req.specs, size)
      \/ ~req.head /\ range # Unsatisfiable /\ Fits(range, req.specs, size)
  <2>1. CASE range = Ignored
      BY <2>1
  <2>2. CASE range # Ignored
    <3>1. ~req.head /\ size # 0 /\ Len(req.specs) = 1 /\ range = ParseOneRange(req.specs[1], size)
        BY <1>c, <2>2 DEF ParseRangeHeader
    <3>2. req.specs[1] \in Specs /\ DOMAIN req.specs = 1..1
        BY <1>0, <3>1
    <3>3. CASE range = Unsatisfiable /\ \A pos \in 0..size - 1 : ~Requested(req.specs[1], pos, size)
        BY <3>1, <3>2, <3>3 DEF Wants, Unwanted
    <3>4. CASE /\ range \in Spans /\ range.start <= range.end /\ range.end < size
               /\ \A pos \in 0..size - 1 :
                     Requested(req.specs[1], pos, size) <=> range.start <= pos /\ pos <= range.end
      <4>1. range # Unsatisfiable
          BY <3>4 DEF Spans, Unsatisfiable
      <4>2. Serves(<<range>>, req.specs, size)
          BY <1>0, <3>1, <3>4, OneServes
      <4> QED BY <3>1, <3>4, <4>1, <4>2 DEF Fits
    <3> QED BY <2>2, <3>1, <3>2, <3>3, <3>4, OneRangeSays
  <2> QED BY <2>1, <2>2
<1>3. CASE bad
    BY <1>3, <1>b
<1>4. CASE ~bad /\ fresh
    BY <1>4, <1>b
<1>5. CASE ~bad /\ ~fresh
  <2>1. CASE range = Unsatisfiable
    <3>1. verdict = [status |-> 416, range |-> Ignored]
        BY <1>5, <1>b, <2>1
    <3>2. ~req.head /\ Unwanted(req.specs, size)
        BY <1>1, <1>2, <2>1
    <3> QED BY <3>1, <3>2
  <2>2. CASE range # Unsatisfiable
    <3>1. verdict = [status |-> IF range = Ignored THEN 200 ELSE 206, range |-> range]
        BY <1>5, <1>b, <2>2
    <3>2. verdict.range = range /\ verdict.status = IF range = Ignored THEN 200 ELSE 206
        BY <3>1
    <3>3. Stands(req, tag, date, at)
        BY <1>5, <1>d
    <3> QED BY <1>2, <2>2, <3>2, <3>3
  <2> QED BY <2>1, <2>2
<1> QED BY <1>3, <1>4, <1>5

\* When the conditions stand for the validators the server sent, the version they were taken
\* from is one that the request permits.
LEMMA NotRefused ==
    ASSUME store \in Stores, NEW req \in AnyRequest, NEW o \in Objects, NEW at,
           Stands(req, TagOf(o), DateOf(o), at)
    PROVE  Permitted(req, o)
<1>1. /\ TagOf(o) \in Tag /\ DateOf(o) \in Dates /\ None \notin Tags /\ None # AnyTag /\ None \notin Int
    BY TagTypes, NoneAssumption DEF NoneAssumption
<1>2. /\ req.ifMatch \in TagLists /\ req.ifNoneMatch \in TagLists /\ req.ifUnmodifiedSince \in Dates
    BY DEF AnyRequest
<1>3. req.ifMatch \notin {None, AnyTag} => TagOf(o) \in req.ifMatch /\ TagOf(o).strong
    BY DEF Stands, IsPreconditionFailure, StronglyMatches
<1>4. ASSUME req.ifUnmodifiedSince # None, req.ifMatch = None, DateOf(o) # None
      PROVE  DateOf(o) <= req.ifUnmodifiedSince
  <2>1. ~(DateOf(o) > req.ifUnmodifiedSince)
      BY <1>4 DEF Stands, IsPreconditionFailure
  <2>2. DateOf(o) \in Nat /\ req.ifUnmodifiedSince \in Nat
      BY <1>1, <1>2, <1>4 DEF Dates
  <2> QED BY <2>1, <2>2
<1>5. ASSUME req.ifNoneMatch # None
      PROVE  req.ifNoneMatch # AnyTag /\ TagOf(o) \notin req.ifNoneMatch
  <2>1. req.ifNoneMatch # AnyTag /\ ~WeaklyMatches(req.ifNoneMatch, TagOf(o))
      BY <1>5 DEF Stands, IsConditionalFresh
  <2>2. req.ifNoneMatch \subseteq Tags
      BY <1>2, <1>5, <2>1, SMTT(60) DEF TagLists
  <2> QED BY <1>1, <2>1, <2>2 DEF WeaklyMatches
<1> QED BY <1>3, <1>4, <1>5 DEF Permitted

\* What is left to serve of a version, in one part, or in several, or whole.
LEMMA PlanSays ==
    ASSUME NEW o \in Objects, srv.req \in AnyRequest, NEW verdict,
           verdict = EvaluateConditionalRequest(srv.req, TagOf(o), DateOf(o), o.size, now),
           NEW plan, plan = Plan(o, verdict)
    PROVE  \/ plan = Unsatisfiable /\ Unwanted(srv.req.specs, o.size)
           \/ /\ plan # Unsatisfiable /\ plan.ranges \in Seq(Spans)
              /\ plan.ranges # <<>> => Serves(plan.ranges, srv.req.specs, o.size)
<1>1. srv.req.specs \in Seq(Specs) /\ o.size \in Nat
    BY VersionType DEF AnyRequest
<1>2. verdict.range # Ignored => verdict.range \in Spans /\ Serves(<<verdict.range>>, srv.req.specs, o.size)
    BY <1>1, VerdictSays DEF Fits
<1>3. PICK set :
        /\ set = IF Len(srv.req.specs) > 1 /\ IsRangeFresh(srv.req, TagOf(o), DateOf(o), now)
                 THEN ParseRanges(srv.req.specs, o.size) ELSE Ignored
        /\ plan = IF set = Unsatisfiable THEN Unsatisfiable
                  ELSE IF set # Ignored /\ (Len(set.ranges) = 1 \/ ~Buffered(set.ranges)
                                     \/ SpanFits(set.ranges))
                  THEN set
                  ELSE [kind |-> "ranges",
                        ranges |-> IF verdict.range = Ignored THEN <<>> ELSE <<verdict.range>>]
    BY DEF Plan
<1>4. \/ set = Ignored
      \/ set = Unsatisfiable /\ Unwanted(srv.req.specs, o.size)
      \/ /\ set = [kind |-> "ranges", ranges |-> set.ranges]
         /\ set.ranges # <<>> /\ Serves(set.ranges, srv.req.specs, o.size)
    BY <1>1, <1>3, ParseRangesSays DEF Unwanted
<1>5. Unsatisfiable # Ignored /\ \A r : [kind |-> "ranges", ranges |-> r] # Unsatisfiable
                                     /\ [kind |-> "ranges", ranges |-> r].ranges = r
    BY DEF Unsatisfiable, Ignored
<1>6. CASE set = Unsatisfiable
    BY <1>3, <1>4, <1>5, <1>6
<1>7. CASE set # Unsatisfiable /\ plan = set /\ set # Ignored
  <2>1. /\ set = [kind |-> "ranges", ranges |-> set.ranges]
        /\ set.ranges # <<>> /\ Serves(set.ranges, srv.req.specs, o.size)
      BY <1>4, <1>7
  <2>2. set.ranges \in Seq(Spans)
      BY <2>1 DEF Serves
  <2> QED BY <1>7, <2>1, <2>2
<1>8. CASE set # Unsatisfiable /\
           plan = [kind |-> "ranges",
                   ranges |-> IF verdict.range = Ignored THEN <<>> ELSE <<verdict.range>>]
  <2>1. plan # Unsatisfiable /\ plan.ranges = IF verdict.range = Ignored THEN <<>> ELSE <<verdict.range>>
      BY <1>5, <1>8
  <2>2. CASE verdict.range = Ignored
      BY <2>1, <2>2
  <2>3. CASE verdict.range # Ignored
      BY <2>1, <2>3, <1>2
  <2> QED BY <2>2, <2>3
<1> QED BY <1>3, <1>6, <1>7, <1>8

-------------------------------------------------------------------------------
(* The steps of the handling, one by one                                   *)

\* The arrival of a request sets up the invariant.
LEMMA ArrivesKeeps ==
    ASSUME SrvInv, NEW req \in AnyRequest, Arrives(req)
    PROVE  SrvInv'
<1>1. PICK pc : pc = IF Speculates(req) THEN "speculating"
                     ELSE IF NeedsHead(req) THEN "heading" ELSE "getting"
    OBVIOUS
<1>2. srv' = [pc |-> pc, req |-> req, attempt |-> 0, meta |-> None, multi |-> FALSE,
              plan |-> <<>>, first |-> None, reading |-> None, headers |-> NoHeaders,
              out |-> <<>>, whole |-> FALSE]
  <2>1. srv' = [Quiet EXCEPT !.req = req, !.pc = pc]
      BY <1>1 DEF Arrives
  <2> QED BY <2>1 DEF Quiet
<1>4. Same
    BY DEF Arrives, Same
<1>3. \/ pc = "heading"
      \/ pc = "speculating" /\ Speculates(req)
      \/ pc = "getting" /\ ~NeedsHead(req)
    BY <1>1
<1> QED BY <1>2, <1>3, <1>4, AfreshKeeps, Zero

\* Evaluating the conditions against a version that was written keeps the invariant.
LEMMA EvaluateKeeps ==
    ASSUME WorldInv, SrvInv, Same, srv.pc = "heading", NEW o, Known(o), Evaluate(o)
    PROVE  SrvInv'
<1> DEFINE verdict0 == EvaluateConditionalRequest(srv.req, TagOf(o), DateOf(o), o.size, now)
           plan0 == Plan(o, verdict0)
           status0 == IF verdict0.status \in {200, 206} /\ ~srv.req.head /\ plan0 = Unsatisfiable
                      THEN 416 ELSE verdict0.status
<1>0. \/ /\ status0 \in {304, 412, 416} \/ srv.req.head
         /\ srv' = [srv EXCEPT !.pc = "answered", !.meta = o,
                               !.headers = [status |-> status0, at |-> now, total |-> o.size,
                                            tag |-> TagOf(o), date |-> DateOf(o)]]
      \/ /\ status0 \in {200, 206} /\ ~srv.req.head
         /\ srv' = [srv EXCEPT !.pc = "getting", !.meta = o, !.plan = plan0.ranges,
                               !.multi = Len(plan0.ranges) > 1]
    BY DEF Evaluate
<1> SUFFICES ASSUME NEW verdict, verdict = verdict0, NEW plan, plan = plan0,
                    NEW status, status = status0
             PROVE  SrvInv'
    OBVIOUS
<1>1a. verdict = EvaluateConditionalRequest(srv.req, TagOf(o), DateOf(o), o.size, now)
    OBVIOUS
<1>1b. plan = Plan(o, verdict)
    OBVIOUS
<1>1c. status = IF verdict.status \in {200, 206} /\ ~srv.req.head /\ plan = Unsatisfiable
                THEN 416 ELSE verdict.status
    OBVIOUS
<1>1d. \/ /\ status \in {304, 412, 416} \/ srv.req.head
          /\ srv' = [srv EXCEPT !.pc = "answered", !.meta = o,
                                !.headers = [status |-> status, at |-> now, total |-> o.size,
                                             tag |-> TagOf(o), date |-> DateOf(o)]]
       \/ /\ status \in {200, 206} /\ ~srv.req.head
          /\ srv' = [srv EXCEPT !.pc = "getting", !.meta = o, !.plan = plan.ranges,
                                !.multi = Len(plan.ranges) > 1]
  <2> HIDE DEF verdict0, plan0, status0
  <2> QED BY <1>0
<1> HIDE DEF verdict0, plan0, status0
<1>2. /\ srv.first = None /\ srv.out = <<>> /\ ~srv.whole /\ srv.headers = NoHeaders
      /\ srv.meta = None /\ srv.plan = <<>>
    BY DEF SrvInv, NotYet, FirstInv, Before
<1>3. srv.multi = FALSE
    BY <1>2, Fields DEF SrvInv, PlanInv
<1>4. /\ o \in Objects /\ o \in Version /\ o # None /\ o.size \in Nat /\ o.size \in Sizes
      /\ TagOf(o) \in Tag /\ DateOf(o) \in Dates /\ now \in Nat /\ store \in Stores
      /\ srv.req \in AnyRequest
  <2>1. o \in Objects /\ store \in Stores /\ srv.req \in AnyRequest
      BY Fields DEF Known, WorldInv, SrvInv
  <2>2. now \in Nat
      BY WebReadAssumption DEF WorldInv, WebReadAssumption
  <2> QED BY <2>1, <2>2, VersionType, TagTypes DEF Version
<1>5. /\ verdict.status \in {200, 206, 304, 412, 416}
      /\ srv.req.head => verdict.status \notin {206, 416}
      /\ verdict.status = 416 => Unwanted(srv.req.specs, o.size)
      /\ verdict.status \in {200, 206} => Stands(srv.req, TagOf(o), DateOf(o), now)
    BY <1>4, <1>1a, VerdictSays
<1>6. \/ plan = Unsatisfiable /\ Unwanted(srv.req.specs, o.size)
      \/ /\ plan # Unsatisfiable /\ plan.ranges \in Seq(Spans)
         /\ plan.ranges # <<>> => Serves(plan.ranges, srv.req.specs, o.size)
    BY <1>1a, <1>1b, <1>4, PlanSays
<1>7. CASE /\ status \in {304, 412, 416} \/ srv.req.head
           /\ srv' = [srv EXCEPT !.pc = "answered", !.meta = o,
                                 !.headers = [status |-> status, at |-> now, total |-> o.size,
                                              tag |-> TagOf(o), date |-> DateOf(o)]]
  <2>1. PICK h : h = [status |-> status, at |-> now, total |-> o.size,
                      tag |-> TagOf(o), date |-> DateOf(o)]
      OBVIOUS
  <2>2. /\ status \in {200, 304, 412, 416}
        /\ status = 416 => Unwanted(srv.req.specs, o.size)
      BY <1>1c, <1>5, <1>6, <1>7
  <2>3. h \in Headers /\ h.status = status /\ h.total = o.size
      BY <1>4, <2>1, <2>2 DEF Headers
  <2>4. srv' = [srv EXCEPT !.pc = "answered", !.meta = o, !.headers = h]
      BY <1>7, <2>1
  <2>5. /\ srv'.pc = "answered" /\ srv'.headers = h /\ srv'.req = srv.req
        /\ srv'.meta = o /\ srv'.multi = FALSE /\ srv'.plan = <<>>
        /\ srv'.first = None /\ srv'.out = <<>> /\ srv'.whole = srv.whole
      BY <1>2, <1>3, <2>4, Fields DEF SrvInv
  <2>6. SrvType'
    <3>1. ASSUME NEW s, s = srv PROVE [s EXCEPT !.pc = "answered", !.meta = o, !.headers = h] \in Handling
      <4>1. s \in Handling
          BY <3>1 DEF SrvInv, SrvType
      <4> QED BY ONLY <4>1, <1>4, <2>3 DEF Handling
    <3> QED BY <3>1, <2>4 DEF SrvType
  <2>7. NotYet' /\ PlanInv'
      BY <2>5 DEF NotYet, Before, PlanInv
  <2>8. MetaInv'
      BY <2>5, Frozen DEF MetaInv, Same
  <2>9. FirstInv'
      BY <1>2, <2>2, <2>3, <2>5 DEF FirstInv, Unwanted
  <2>10. StreamInv' /\ SentInv'
      BY <1>2, <2>5 DEF StreamInv, SentInv, Pieces
  <2> QED BY <2>6, <2>7, <2>8, <2>9, <2>10 DEF SrvInv
<1>8. CASE /\ status \in {200, 206} /\ ~srv.req.head
           /\ srv' = [srv EXCEPT !.pc = "getting", !.meta = o, !.plan = plan.ranges,
                                 !.multi = Len(plan.ranges) > 1]
  <2>1. verdict.status \in {200, 206} /\ plan # Unsatisfiable
      BY <1>1c, <1>5, <1>8
  <2>2. Permitted(srv.req, o)
      BY <2>1, <1>4, <1>5, NotRefused
  <2>3. PICK ranges, several : ranges = plan.ranges /\ several = (Len(ranges) > 1)
      OBVIOUS
  <2>4. ranges \in Seq(Spans) /\ (ranges # <<>> => Serves(ranges, srv.req.specs, o.size))
        /\ several \in BOOLEAN
      BY <1>6, <2>1, <2>3
  <2>5. srv' = [srv EXCEPT !.pc = "getting", !.meta = o, !.plan = ranges, !.multi = several]
      BY <1>8, <2>3
  <2>6. /\ srv'.pc = "getting" /\ srv'.headers = NoHeaders /\ srv'.req = srv.req
        /\ srv'.meta = o /\ srv'.multi = several /\ srv'.plan = ranges
        /\ srv'.first = None /\ srv'.out = <<>> /\ srv'.whole = srv.whole
      BY <1>2, <2>5, Fields DEF SrvInv
  <2>7. SrvType'
    <3>1. ASSUME NEW s, s = srv
          PROVE  [s EXCEPT !.pc = "getting", !.meta = o, !.plan = ranges, !.multi = several] \in Handling
      <4>1. s \in Handling
          BY <3>1 DEF SrvInv, SrvType
      <4> QED BY ONLY <4>1, <1>4, <2>4 DEF Handling
    <3> QED BY <3>1, <2>5 DEF SrvType
  <2>8. NotYet'
      BY <1>4, <2>6 DEF NotYet, Before
  <2>9. \A k \in 1..Len(ranges) : ranges[k].start <= ranges[k].end
      BY <2>4 DEF Serves
  <2>10. several => Parts(ranges, o.size)
      BY <2>3, <2>4 DEF Serves, Parts
  <2>11. PlanInv'
      BY <1>4, <2>3, <2>6, <2>9, <2>10 DEF PlanInv
  <2>12. MetaInv'
      BY <1>8, <2>2, <2>4, <2>6, Frozen DEF MetaInv, Same
  <2>13. FirstInv'
      BY <1>2, <2>6 DEF FirstInv, NoHeaders
  <2>14. StreamInv' /\ SentInv'
    <3>1. Len(ranges) \in Nat
        BY <2>4
    <3> QED BY <3>1, <1>2, <2>6 DEF StreamInv, SentInv, Pieces
  <2> QED BY <2>7, <2>8, <2>11, <2>12, <2>13, <2>14 DEF SrvInv
<1> QED BY <1>1d, <1>7, <1>8

\* The head request keeps the invariant.
LEMMA HeadKeeps ==
    ASSUME WorldInv, CacheInv, SrvInv, Same, HeadObject
    PROVE  SrvInv'
<1>1. srv.pc = "heading" /\ Before
    BY DEF HeadObject, Before
<1>2. CASE StoreHead.kind = "found"
  <2>1. Evaluate(StoreHead.of) /\ Known(StoreHead.of)
      BY <1>2, HeadSays DEF HeadObject
  <2> QED BY <2>1, <1>1, EvaluateKeeps
<1>3. CASE StoreHead.kind # "found"
  <2>1. Refused(StoreHead)
      BY <1>3 DEF HeadObject
  <2> QED BY <2>1, <1>1, RefusedKeeps
<1> QED BY <1>2, <1>3

\* Path B: a range read at once is the one asked for.
LEMMA FastSays ==
    ASSUME NEW req \in AnyRequest, ParseFastRange(req) # None
    PROVE  LET asked == RangeOf(ParseFastRange(req).first, ParseFastRange(req).last) IN
           /\ asked \in Asked /\ (asked.end = None \/ asked.start <= asked.end)
           /\ \A o \in Objects : ~Beyond(asked, o) =>
                 Serves(<<Clamped(asked, o)>>, req.specs, o.size)
<1>1. req.specs \in Seq(Specs)
    BY DEF AnyRequest
<1>2. /\ Len(req.specs) = 1 /\ req.specs[1].first # None
      /\ req.specs[1].last = None \/ req.specs[1].first <= req.specs[1].last
      /\ ParseFastRange(req) = req.specs[1]
    BY DEF ParseFastRange
<1>3. PICK spec : spec = req.specs[1]
    OBVIOUS
<1>4. /\ spec \in Specs /\ spec.first \in Nat /\ spec.last \in Nat \cup {None}
      /\ spec.last = None \/ spec.first <= spec.last
      /\ None \notin Nat
    BY <1>1, <1>2, <1>3, RangeTypes DEF Specs
<1> SUFFICES ASSUME NEW asked, asked = RangeOf(spec.first, spec.last)
             PROVE  /\ asked \in Asked /\ (asked.end = None \/ asked.start <= asked.end)
                    /\ \A o \in Objects : ~Beyond(asked, o) =>
                          Serves(<<Clamped(asked, o)>>, req.specs, o.size)
    BY <1>2, <1>3
<1>5. asked.start = spec.first /\ asked.end = spec.last /\ asked \in Asked /\ asked # None
    BY <1>4, RangeTypes DEF RangeOf, Asked
<1>6. ASSUME NEW o \in Objects, ~Beyond(asked, o)
      PROVE  Serves(<<Clamped(asked, o)>>, req.specs, o.size)
  <2>1. /\ Clamped(asked, o) \in Spans /\ Clamped(asked, o).start <= Clamped(asked, o).end
        /\ Clamped(asked, o).end < o.size /\ Clamped(asked, o).start = spec.first
      BY <1>4, <1>5, <1>6, ClampedSays
  <2>2. o.size \in Nat /\ spec.first < o.size /\ o.size # 0
      BY <1>4, <1>5, <1>6, VersionType DEF Beyond
  <2>3. Clamped(asked, o) = ParseOneRange(spec, o.size)
    <3>1. Clamped(asked, o) =
             RangeOf(spec.first, IF spec.last = None THEN o.size - 1 ELSE Min({spec.last, o.size - 1}))
        BY <1>5 DEF Clamped
    <3>2. ParseOneRange(spec, o.size) =
             RangeOf(spec.first, IF spec.last = None THEN o.size - 1 ELSE Min({spec.last, o.size - 1}))
      <4>1. spec.first # None
          BY <1>4
      <4>2. ~(spec.last # None /\ spec.first > spec.last)
          BY <1>4
      <4>3. ~(spec.first >= o.size)
          BY <1>4, <2>2
      <4> QED BY <4>1, <4>2, <4>3 DEF ParseOneRange
    <3> QED BY <3>1, <3>2
  <2>4. PICK p : p = Clamped(asked, o)
      OBVIOUS
  <2>5. p \in Spans /\ p # Ignored /\ p # Unsatisfiable
      BY <2>1, <2>4 DEF Spans, Ignored, Unsatisfiable
  <2>6. \A pos \in 0..o.size - 1 : Requested(spec, pos, o.size) <=> p.start <= pos /\ pos <= p.end
      BY <1>4, <2>2, <2>3, <2>4, <2>5, OneRangeSays
  <2>7. Serves(<<p>>, req.specs, o.size)
      BY <1>1, <1>2, <1>3, <2>1, <2>2, <2>4, <2>6, OneServes
  <2> QED BY <2>4, <2>7
<1> QED BY <1>4, <1>5, <1>6

\* The read begun before any head, for a request with neither conditions nor several ranges,
\* keeps the invariant.
LEMMA SpeculateKeeps ==
    ASSUME WorldInv, CacheInv, SrvInv, Same, NEW mood, Speculate(mood)
    PROVE  SrvInv'
<1>1. PICK range, answer :
         /\ range = RangeOf(ParseFastRange(srv.req).first, ParseFastRange(srv.req).last)
         /\ answer = StoreGet(range, mood)
    OBVIOUS
<1>2. /\ srv.pc = "speculating" /\ Before
      /\ IF answer.kind \in {"failed", "changed"} THEN srv' = [srv EXCEPT !.pc = "heading"]
         ELSE StreamFromStore(answer)
    BY <1>1 DEF Speculate, Before
<1>3. Speculates(srv.req) /\ srv.meta = None /\ srv.plan = <<>> /\ srv.first = None
      /\ srv.out = <<>> /\ ~srv.whole /\ srv.headers = NoHeaders
    BY <1>2 DEF SrvInv, NotYet, FirstInv, Before
<1>4. ~srv.multi /\ ~HasConditional(srv.req) /\ ParseFastRange(srv.req) # None /\ srv.req \in AnyRequest
      /\ store.adapter # "gcs"
    BY <1>3, Fields DEF SrvInv, PlanInv, Speculates, AuthoritativeRange
<1>5. /\ range \in Asked /\ (range.end = None \/ range.start <= range.end)
      /\ \A o \in Objects : ~Beyond(range, o) =>
            Serves(<<Clamped(range, o)>>, srv.req.specs, o.size)
    BY <1>1, <1>4, FastSays
<1>6. CASE answer.kind \in {"failed", "changed"}
  <2>1. srv' = [srv EXCEPT !.pc = "heading"]
      BY <1>2, <1>6
  <2>2. /\ srv'.pc = "heading" /\ srv'.headers = srv.headers /\ srv'.req = srv.req
        /\ srv'.meta = srv.meta /\ srv'.multi = srv.multi /\ srv'.plan = srv.plan
        /\ srv'.first = srv.first /\ srv'.out = srv.out /\ srv'.whole = srv.whole
      BY <2>1, Fields DEF SrvInv
  <2>3. SrvType'
    <3>1. ASSUME NEW s, s = srv PROVE [s EXCEPT !.pc = "heading"] \in Handling
      <4>1. s \in Handling
          BY <3>1 DEF SrvInv, SrvType
      <4> QED BY ONLY <4>1 DEF Handling
    <3> QED BY <3>1, <2>1 DEF SrvType
  <2>4. NotYet' /\ PlanInv' /\ MetaInv'
      BY <1>3, <1>4, <2>2 DEF NotYet, Before, PlanInv, MetaInv
  <2>5. FirstInv' /\ StreamInv' /\ SentInv'
      BY <1>3, <2>2 DEF FirstInv, StreamInv, SentInv, Pieces, NoHeaders
  <2> QED BY <2>3, <2>4, <2>5 DEF SrvInv
<1>7. CASE answer.kind \notin {"failed", "changed"}
  <2>1. StreamFromStore(answer)
      BY <1>2, <1>7
  <2>2. now \in Nat /\ store \in Stores /\ SrvType
      BY WebReadAssumption DEF WorldInv, SrvInv, WebReadAssumption
  <2>3. ASSUME answer.kind = "found"
        PROVE  /\ Known(answer.of) /\ answer.source = answer.of
               /\ ~store.tells /\ srv.meta # None => answer.of = srv.meta
               /\ answer.range # None =>
                     /\ answer.range \in Spans /\ answer.range.start <= answer.range.end
                     /\ answer.range.end < answer.of.size
                     /\ Serves(<<answer.range>>, srv.req.specs, answer.of.size)
    <3>1. range \in Asked \cup {None} /\ (range # None => range.end = None \/ range.start <= range.end)
          /\ (srv.meta # None => Known(srv.meta)) /\ (store.adapter = "gcs" => srv.meta # None)
        BY <1>3, <1>4, <1>5
    <3>2. /\ Known(answer.of) /\ answer.source = answer.of
          /\ ~store.tells /\ srv.meta # None => answer.of = srv.meta
          /\ \/ answer.range = None
             \/ range # None /\ answer.range = Clamped(range, answer.of) /\ ~Beyond(range, answer.of)
        BY <1>1, <2>2, <2>3, <3>1, GetSays
    <3>3. ASSUME answer.range # None
          PROVE  /\ answer.range \in Spans /\ answer.range.start <= answer.range.end
                 /\ answer.range.end < answer.of.size
                 /\ Serves(<<answer.range>>, srv.req.specs, answer.of.size)
        BY <1>5, <3>2, <3>3, ClampedSays DEF Known
    <3> QED BY <3>2, <3>3
  <2> QED BY <1>2, <1>3, <1>4, <2>1, <2>2, <2>3, StreamFromStoreKeeps
<1> QED BY <1>6, <1>7

\* The response is cut off between two of its parts.
LEMMA ResetKeeps ==
    ASSUME SrvInv, Same, srv.pc = "parting", srv' = [srv EXCEPT !.pc = "answered"]
    PROVE  SrvInv'
<1>1. /\ srv'.pc = "answered" /\ srv'.headers = srv.headers /\ srv'.req = srv.req
      /\ srv'.meta = srv.meta /\ srv'.multi = srv.multi /\ srv'.plan = srv.plan
      /\ srv'.first = srv.first /\ srv'.out = srv.out /\ srv'.whole = srv.whole
    BY Fields DEF SrvInv
<1>2. SrvType'
  <2>1. ASSUME NEW s, s = srv PROVE [s EXCEPT !.pc = "answered"] \in Handling
    <3>1. s \in Handling
        BY <2>1 DEF SrvInv, SrvType
    <3> QED BY ONLY <3>1 DEF Handling
  <2> QED BY <2>1 DEF SrvType
<1>3. NotYet' /\ PlanInv' /\ MetaInv'
    BY <1>1, Frozen DEF NotYet, Before, PlanInv, MetaInv, Same, SrvInv
<1>4. FirstInv'
    BY <1>1, Frozen DEF FirstInv, Described, Same, SrvInv
<1>5. StreamInv'
    BY <1>1, Frozen DEF StreamInv, Same, SrvInv
<1>6. SentInv'
    BY <1>1 DEF SentInv, Pieces, Begin, Owed, SrvInv
<1> QED BY <1>2, <1>3, <1>4, <1>5, <1>6 DEF SrvInv

\* An answer that the store is overloaded keeps the invariant.
LEMMA ThrottleKeeps ==
    ASSUME SrvInv, Same, Throttle
    PROVE  SrvInv'
<1>1. CASE Before /\ Refused(ClassifyStoreRead(503, S3Classifiers))
    BY <1>1, RefusedKeeps
<1>2. CASE srv.pc = "parting" /\ srv' = [srv EXCEPT !.pc = "answered"]
    BY <1>2, ResetKeeps
<1> QED BY <1>1, <1>2 DEF Throttle, Before

\* The span of all parts holds each of them.
LEMMA FirstAsked ==
    ASSUME SrvInv, srv.pc = "getting", srv.multi, NEW asked,
           asked = IF Buffered(srv.plan) THEN Span(srv.plan) ELSE srv.plan[1]
    PROVE  /\ srv.meta # None /\ Known(srv.meta) /\ Permitted(srv.req, srv.meta)
           /\ Len(srv.plan) > 1 /\ srv.plan \in Seq(Spans) /\ srv.plan # <<>>
           /\ Serves(srv.plan, srv.req.specs, srv.meta.size)
           /\ \A k \in 1..Len(srv.plan) :
                 /\ srv.plan[k].start \in Nat /\ srv.plan[k].end \in Nat
                 /\ srv.plan[k].start <= srv.plan[k].end /\ srv.plan[k].end < srv.meta.size
           /\ asked \in Spans /\ asked.start <= asked.end
           /\ srv.plan[1].end <= asked.end
           /\ Buffered(srv.plan) => \A k \in 1..Len(srv.plan) : srv.plan[k].end <= asked.end
<1>1. /\ srv.meta # None /\ Known(srv.meta) /\ Permitted(srv.req, srv.meta)
      /\ Len(srv.plan) > 1 /\ srv.plan \in Seq(Spans) /\ srv.plan # <<>>
      /\ Serves(srv.plan, srv.req.specs, srv.meta.size)
  <2>1. srv.meta # None /\ Len(srv.plan) > 1
      BY DEF SrvInv, PlanInv
  <2>2. srv.plan # <<>> /\ srv.plan \in Seq(Spans)
      BY <2>1, Fields DEF SrvInv
  <2>3. Known(srv.meta) /\ Permitted(srv.req, srv.meta) /\ Serves(srv.plan, srv.req.specs, srv.meta.size)
      BY <2>1, <2>2 DEF SrvInv, MetaInv
  <2> QED BY <2>1, <2>2, <2>3
<1>2. PICK n \in Nat : n = Len(srv.plan) /\ n > 1
    BY <1>1
<1>2a. n \in Nat /\ n > 1 => n # 1
    OBVIOUS
<1>3. \A k \in 1..n : /\ srv.plan[k].start \in Nat /\ srv.plan[k].end \in Nat
                      /\ srv.plan[k].start <= srv.plan[k].end /\ srv.plan[k].end < srv.meta.size
  <2> TAKE k \in 1..n
  <2>1. srv.plan[k] \in Spans
      BY <1>1, <1>2
  <2> QED BY <1>1, <1>2, <2>1, RangeTypes DEF Serves
<1>4. srv.meta.size \in Nat
    BY <1>1, VersionType DEF Known
<1>5. /\ asked \in Spans /\ asked.start <= asked.end
      /\ srv.plan[1].end <= asked.end
      /\ Buffered(srv.plan) => \A k \in 1..n : srv.plan[k].end <= asked.end
  <2>1. CASE ~Buffered(srv.plan)
    <3>1. asked = srv.plan[1] /\ 1 \in 1..n
        BY <1>2, <2>1
    <3>2. asked \in Spans
        BY <1>1, <1>2, <3>1
    <3> QED BY <1>3, <2>1, <3>1, <3>2
  <2>2. CASE Buffered(srv.plan)
    <3> DEFINE starts == {srv.plan[i].start : i \in DOMAIN srv.plan}
               ends == {srv.plan[i].end : i \in DOMAIN srv.plan}
    <3>1. DOMAIN srv.plan = 1..n /\ 1 \in 1..n
        BY <1>1, <1>2
    <3>2. starts \subseteq Nat /\ srv.plan[1].start \in starts
        BY <1>3, <3>1
    <3>3. ends \subseteq Nat /\ (\A k \in 1..n : srv.plan[k].end \in ends)
          /\ \A x \in ends : x <= srv.meta.size
      <4>1. \A k \in 1..n : srv.plan[k].end \in ends
          BY <3>1
      <4>2. ASSUME NEW x \in ends PROVE x \in Nat /\ x <= srv.meta.size
        <5>1. PICK k \in 1..n : x = srv.plan[k].end
            BY <3>1, <4>2
        <5>2. x \in Nat /\ x < srv.meta.size
            BY <1>3, <5>1
        <5> QED BY <1>4, <5>2
      <4> HIDE DEF ends
      <4> QED BY <4>1, <4>2
    <3>4. asked = RangeOf(Min(starts), Max(ends))
        BY <2>2 DEF Span
    <3> HIDE DEF starts, ends
    <3>5. Min(starts) \in starts /\ \A x \in starts : Min(starts) <= x
        BY <3>2, MinOfMany
    <3>6. Max(ends) \in ends /\ \A x \in ends : x <= Max(ends)
        BY <1>4, <3>1, <3>3, MaxOfMany
    <3>7. PICK lo, hi \in Nat : lo = Min(starts) /\ hi = Max(ends) /\ asked = RangeOf(lo, hi)
        BY <3>2, <3>3, <3>4, <3>5, <3>6
    <3>8. asked.start = lo /\ asked.end = hi /\ asked \in Spans
        BY <3>7 DEF RangeOf, Spans
    <3>9. \A k \in 1..n : srv.plan[k].end <= hi
        BY <3>3, <3>6, <3>7
    <3>10. lo <= srv.plan[1].start /\ srv.plan[1].start <= srv.plan[1].end
        BY <1>3, <3>1, <3>2, <3>5, <3>7
    <3>11. srv.plan[1].start \in Nat /\ srv.plan[1].end \in Nat /\ srv.plan[1].end <= hi
        BY <1>3, <3>1, <3>9
    <3>12. lo <= hi
        BY <3>7, <3>10, <3>11
    <3> QED BY <3>8, <3>9, <3>11, <3>12
  <2> QED BY <2>1, <2>2
<1> QED BY <1>1, <1>2, <1>3, <1>5

\* The read of the first of several parts keeps the invariant: it pins the version of the
\* others.
LEMMA GetFirstPartKeeps ==
    ASSUME WorldInv, CacheInv, SrvInv, Same, NEW mood, GetFirstPart(mood)
    PROVE  SrvInv'
<1> DEFINE asked0 == IF Buffered(srv.plan) THEN Span(srv.plan) ELSE srv.plan[1]
           answer0 == StoreGet(asked0, mood)
<1> SUFFICES ASSUME NEW asked, asked = asked0, NEW answer, answer = answer0 PROVE SrvInv'
    OBVIOUS
<1>a. asked = IF Buffered(srv.plan) THEN Span(srv.plan) ELSE srv.plan[1]
    OBVIOUS
<1>b. answer = StoreGet(asked, mood)
    OBVIOUS
<1>c. /\ srv.pc = "getting" /\ srv.multi /\ Before
      /\ IF answer = ObjectChanged THEN Changed
         ELSE IF answer.kind # "found" THEN Refused(answer)
         ELSE IF ~ServedSpanMatches(asked, answer.range) THEN Changed
         ELSE IF ~Accepted(ReadTag(answer.of), ReadDate(answer.of)) THEN Changed
         ELSE LET described == Verified(ReadTag(answer.of), ReadDate(answer.of)) IN
              Streams(answer, srv.plan,
                    [status |-> 206, at |-> now, total |-> srv.meta.size,
                     tag |-> IF described THEN TagOf(srv.meta) ELSE None,
                     date |-> IF described THEN DateOf(srv.meta) ELSE None])
    BY DEF GetFirstPart, Before
<1> HIDE DEF asked0, answer0
<1>0. /\ srv.meta # None /\ Known(srv.meta) /\ Permitted(srv.req, srv.meta)
      /\ Len(srv.plan) > 1 /\ srv.plan \in Seq(Spans) /\ srv.plan # <<>>
      /\ Serves(srv.plan, srv.req.specs, srv.meta.size)
      /\ \A k \in 1..Len(srv.plan) :
            /\ srv.plan[k].start \in Nat /\ srv.plan[k].end \in Nat
            /\ srv.plan[k].start <= srv.plan[k].end /\ srv.plan[k].end < srv.meta.size
      /\ asked \in Spans /\ asked.start <= asked.end
      /\ srv.plan[1].end <= asked.end
      /\ Buffered(srv.plan) => \A k \in 1..Len(srv.plan) : srv.plan[k].end <= asked.end
    BY <1>a, <1>c, FirstAsked
<1>1. /\ srv.meta # None /\ Known(srv.meta) /\ Permitted(srv.req, srv.meta)
      /\ Len(srv.plan) > 1 /\ srv.plan \in Seq(Spans) /\ srv.plan # <<>>
      /\ Serves(srv.plan, srv.req.specs, srv.meta.size)
      /\ SrvType /\ store \in Stores /\ now \in Nat
    BY <1>0, WebReadAssumption DEF SrvInv, WorldInv, WebReadAssumption
<1>2. PICK n \in Nat : n = Len(srv.plan) /\ n > 1
    BY <1>1
<1>2a. n \in Nat /\ n > 1 => n # 1
    OBVIOUS
<1>3. \A k \in 1..n : /\ srv.plan[k].start \in Nat /\ srv.plan[k].end \in Nat
                      /\ srv.plan[k].start <= srv.plan[k].end /\ srv.plan[k].end < srv.meta.size
    BY <1>0, <1>2
<1>4. srv.meta.size \in Nat
    BY <1>1, VersionType DEF Known
<1>5. /\ asked \in Spans /\ asked.start <= asked.end
      /\ srv.plan[1].end <= asked.end
      /\ Buffered(srv.plan) => \A k \in 1..n : srv.plan[k].end <= asked.end
    BY <1>0, <1>2
<1>6. ASSUME answer.kind = "found"
      PROVE  /\ Known(answer.of) /\ answer.source = answer.of
             /\ ~store.tells => answer.of = srv.meta
             /\ answer.range # None => answer.range.end < answer.of.size
  <2>1. asked \in Asked \cup {None} /\ (asked # None => asked.end = None \/ asked.start <= asked.end)
      BY <1>5, RangeTypes
  <2>2. /\ srv.meta # None => Known(srv.meta)
        /\ store.adapter = "gcs" => srv.meta # None
        /\ StoreGet(asked, mood).kind = "found"
      BY <1>b, <1>1, <1>6
  <2>3. LET got == StoreGet(asked, mood) IN
        /\ Known(got.of) /\ got.source = got.of
        /\ ~store.tells /\ srv.meta # None => got.of = srv.meta
        /\ got.range # None => got.range.end < got.of.size
      BY <1>1, <2>1, <2>2, GetGives
  <2> QED BY <1>b, <1>1, <2>3
<1>7. CASE /\ answer # ObjectChanged /\ answer.kind = "found"
           /\ ServedSpanMatches(asked, answer.range)
           /\ Accepted(ReadTag(answer.of), ReadDate(answer.of))
  <2>1. PICK described \in BOOLEAN : described = Verified(ReadTag(answer.of), ReadDate(answer.of))
      BY DEF Verified
  <2>2. PICK headers : headers = [status |-> 206, at |-> now, total |-> srv.meta.size,
                                  tag |-> IF described THEN TagOf(srv.meta) ELSE None,
                                  date |-> IF described THEN DateOf(srv.meta) ELSE None]
      OBVIOUS
  <2>3. Streams(answer, srv.plan, headers)
      BY <1>c, <1>7, <2>1, <2>2
  <2>4. Known(answer.of) /\ answer.source = answer.of /\ Alike(srv.meta, answer.of)
      BY <1>1, <1>6, <1>7, AcceptedSays
  <2>5. Permitted(srv.req, answer.of)
      BY <1>1, <2>4, PermittedAlike
  <2>6. asked.end < answer.of.size
      BY <1>5, <1>6, <1>7, RangeTypes DEF ServedSpanMatches
  <2>7. /\ srv.meta \in Objects /\ srv.meta.size \in Sizes /\ answer.of \in Objects
        /\ TagOf(srv.meta) \in Tag /\ DateOf(srv.meta) \in Dates /\ answer.of.size \in Nat
      BY <1>1, <2>4, TagTypes, VersionType DEF Known
  <2>8. headers \in Headers
      BY <1>1, <2>1, <2>2, <2>7 DEF Headers, Tag, Dates
  <2>9. /\ headers.status = 206 /\ headers.total = srv.meta.size
        /\ headers.tag \in {None, TagOf(srv.meta)} /\ headers.date \in {None, DateOf(srv.meta)}
      BY <2>1, <2>2
  <2>10. headers.tag \in {None, TagOf(answer.of)} /\ headers.date \in {None, DateOf(answer.of)}
      BY <2>4, <2>9 DEF Alike
  <2>11. headers.tag # None \/ headers.date # None => headers.total = answer.of.size
    <3> SUFFICES ASSUME headers.tag # None \/ headers.date # None
                 PROVE  headers.total = answer.of.size
        OBVIOUS
    <3>1. TagOf(answer.of) # None \/ DateOf(answer.of) # None
        BY <2>10
    <3>2. srv.meta.size = answer.of.size
        BY <1>1, <2>4, <2>7, <3>1, SizeAlike
    <3> QED BY <2>9, <3>2
  <2>12. \A k \in 1..Len(srv.plan) : srv.plan[k].start <= srv.plan[k].end
      BY <1>2, <1>3
  <2>13. Len(srv.plan) # 0 /\ (Len(srv.plan) = 1 \/ Buffered(srv.plan)) =>
               \A k \in 1..Len(srv.plan) : srv.plan[k].end < answer.of.size
    <3>0. ~(Len(srv.plan) = 1)
        BY <1>2, <1>2a, Zenon
    <3>1. ASSUME Buffered(srv.plan), NEW k \in 1..n PROVE srv.plan[k].end < answer.of.size
      <4>1. srv.plan[k].end <= asked.end /\ srv.plan[k].end \in Nat /\ asked.end \in Nat
          BY <1>3, <1>5, <3>1, RangeTypes
      <4> QED BY <2>6, <2>7, <4>1
    <3>2. 1..n = 1..Len(srv.plan)
        BY <1>2
    <3> QED BY <3>0, <3>1, <3>2
  <2>14. srv.plan[1].end < answer.of.size
    <3>1. 1 \in 1..n
        BY <1>2
    <3>2. srv.plan[1].end <= asked.end /\ srv.plan[1].end \in Nat /\ asked.end \in Nat
        BY <1>3, <1>5, <3>1, RangeTypes
    <3> QED BY <2>6, <2>7, <3>2
  <2>15. srv.multi <=> Len(srv.plan) > 1
      BY <1>c, <1>1
  <2>16. headers.status = IF srv.plan = <<>> THEN 200 ELSE 206
      BY <1>1, <2>9
  <2>17. Serves(srv.plan, srv.req.specs, headers.total)
      BY <1>1, <2>9
  <2> QED BY <1>c, <1>1, <2>3, <2>4, <2>5, <2>8, <2>10, <2>11, <2>12, <2>13, <2>14, <2>15, <2>16,
             <2>17, StreamsKeep
<1> QED BY <1>c, <1>7, ChangedKeeps, RefusedKeeps

\* sameRepresentation: the read of a further part is of a mate of the first.
LEMMA SameSays ==
    ASSUME store \in Stores, NEW o, Known(o), Known(srv.first),
           SameRepresentation(srv.first, o),
           ~store.tells => o = srv.first
    PROVE  Mate(TRUE, srv.first, o)
<1>1. store.tells \in BOOLEAN /\ store.tag \in {"strong", "weak", "none"} /\ store.dates \in BOOLEAN
      /\ o \in Objects /\ srv.first \in Objects
    BY Kinds DEF Known
<1>2. CASE ~store.tells
    BY <1>2 DEF Mate
<1>3. CASE store.tells /\ store.tag # "none"
  <2>1. RawTag(srv.first) = RawTag(o)
      BY <1>1, <1>3, TagTypes DEF SameRepresentation
  <2> QED BY <1>3, <2>1, KnownByTag DEF Mate
<1>4. CASE store.tells /\ store.tag = "none"
  <2>1. DateOf(srv.first) # None => DateOf(srv.first) = DateOf(o)
      BY <1>1, <1>4, TagTypes DEF SameRepresentation
  <2>2. DateOf(srv.first) = DateOf(o)
    <3>1. CASE store.dates
      <4>1. DateOf(srv.first) = srv.first.mtime /\ srv.first.mtime \in Nat
          BY <1>1, <3>1, TagTypes, VersionType
      <4> QED BY <2>1, <4>1, RangeTypes
    <3>2. CASE ~store.dates
        BY <1>1, <3>2, TagTypes
    <3> QED BY <1>1, <3>1, <3>2
  <2> QED BY <1>4, <2>2 DEF Mate
<1> QED BY <1>1, <1>2, <1>3, <1>4

\* The read of each later part keeps the invariant: it is of a version taken for that of the
\* first, or the answer is reset.
LEMMA NextPartKeeps ==
    ASSUME WorldInv, CacheInv, SrvInv, Same, NEW mood, NextPart(mood)
    PROVE  SrvInv'
<1> DEFINE asked0 == srv.plan[Len(srv.out) + 1]
           answer0 == StoreGet(asked0, mood)
<1> SUFFICES ASSUME NEW asked, asked = asked0, NEW answer, answer = answer0 PROVE SrvInv'
    OBVIOUS
<1>a. asked = srv.plan[Len(srv.out) + 1]
    OBVIOUS
<1>b. answer = StoreGet(asked, mood)
    OBVIOUS
<1>c. /\ srv.pc = "parting"
      /\ srv' = IF /\ answer.kind = "found"
                   /\ ServedSpanMatches(asked, answer.range)
                   /\ SameRepresentation(srv.first, answer.of)
                THEN [srv EXCEPT !.pc = "streaming", !.reading = answer.source]
                ELSE [srv EXCEPT !.pc = "answered"]
    BY DEF NextPart
<1> HIDE DEF asked0, answer0
<1>1. /\ srv.first # None /\ Known(srv.first) /\ srv.multi /\ ~Buffered(srv.plan)
      /\ Len(srv.out) < Len(srv.plan) /\ srv.meta # None /\ Known(srv.meta)
      /\ Alike(srv.meta, srv.first) /\ store \in Stores /\ SrvType
    BY <1>c DEF SrvInv, FirstInv, StreamInv, PlanInv, MetaInv, WorldInv
<1>2. PICK k : k = Len(srv.out) + 1 /\ k \in 1..Len(srv.plan)
    BY <1>1, Fields
<1>3. asked = srv.plan[k] /\ asked \in Spans /\ asked.start <= asked.end
    BY <1>a, <1>1, <1>2, Fields, SMTT(60) DEF SrvInv, PlanInv
<1>4. CASE /\ answer.kind = "found"
           /\ ServedSpanMatches(asked, answer.range)
           /\ SameRepresentation(srv.first, answer.of)
  <2>1. asked \in Asked \cup {None} /\ (asked # None => asked.end = None \/ asked.start <= asked.end)
      BY <1>3, RangeTypes
  <2>2. /\ Known(answer.of) /\ answer.source = answer.of
        /\ ~store.tells => answer.of = srv.meta
        /\ answer.range # None => answer.range.end < answer.of.size
      BY <1>b, <1>1, <1>4, <2>1, GetGives
  <2>3. asked.end < answer.of.size
      BY <1>3, <1>4, <2>2, RangeTypes DEF ServedSpanMatches
  <2>4. ~store.tells => answer.of = srv.first
      BY <1>1, <2>2, Kinds DEF Alike
  <2>5. Mate(TRUE, srv.first, answer.of)
      BY <1>1, <1>4, <2>2, <2>4, SameSays
  <2>6. PICK of : of = answer.of /\ srv' = [srv EXCEPT !.pc = "streaming", !.reading = of]
      BY <1>c, <1>4, <2>2
  <2>7. of \in Version /\ of # None /\ Known(of)
      BY <2>2, <2>6, VersionType DEF Known, Version
  <2>8. /\ srv'.pc = "streaming" /\ srv'.headers = srv.headers /\ srv'.req = srv.req
        /\ srv'.meta = srv.meta /\ srv'.multi = srv.multi /\ srv'.plan = srv.plan
        /\ srv'.first = srv.first /\ srv'.out = srv.out /\ srv'.whole = srv.whole
        /\ srv'.reading = of
      BY <2>6, Fields DEF SrvInv
  <2>9. SrvType'
    <3>1. ASSUME NEW s, s = srv PROVE [s EXCEPT !.pc = "streaming", !.reading = of] \in Handling
      <4>1. s \in Handling
          BY <3>1 DEF SrvInv, SrvType
      <4> QED BY ONLY <4>1, <2>7 DEF Handling
    <3> QED BY <3>1, <2>6 DEF SrvType
  <2>10. NotYet' /\ PlanInv' /\ MetaInv'
      BY <2>8, Frozen DEF NotYet, Before, PlanInv, MetaInv, Same, SrvInv
  <2>11. FirstInv'
    <3>1. srv'.first # None
        BY <1>1, <2>8
    <3> QED BY <1>1, <3>1, <2>8, Frozen DEF FirstInv, Described, Same, SrvInv
  <2>12. StreamInv'
    <3>1. \A i \in 1..Len(srv.plan) : i = Len(srv.out) + 1 \/ Buffered(srv.plan)
                                         => srv.plan[i].end < of.size
        BY <1>1, <1>2, <1>3, <2>3, <2>6
    <3>2. srv.plan # <<>>
        BY <1>1, <1>2
    <3>3. Mate(srv.multi, srv.first, of)
        BY <1>1, <2>5, <2>6 DEF Mate
    <3>4. \A i \in 1..Len(srv.out) : \A j \in 1..Len(srv.out[i]) :
             /\ srv.out[i][j].v \in 1..Len(versions)
             /\ Mate(srv.multi, srv.first, versions[srv.out[i][j].v])
        BY DEF SrvInv, StreamInv
    <3> QED BY <1>1, <2>7, <2>8, <3>1, <3>2, <3>3, <3>4, Frozen DEF StreamInv, Same
  <2>13. SentInv'
      BY <1>c, <2>8 DEF SentInv, Pieces, Begin, Owed, SrvInv
  <2> QED BY <2>9, <2>10, <2>11, <2>12, <2>13 DEF SrvInv
<1>5. CASE ~(/\ answer.kind = "found"
             /\ ServedSpanMatches(asked, answer.range)
             /\ SameRepresentation(srv.first, answer.of))
  <2>1. srv' = [srv EXCEPT !.pc = "answered"]
      BY <1>c, <1>5
  <2> QED BY <1>c, <2>1, ResetKeeps
<1> QED BY <1>4, <1>5

\* Appending one element to a sequence.
LEMMA OneMore ==
    ASSUME NEW S, NEW s \in Seq(S), NEW x \in S
    PROVE  /\ s \o <<x>> \in Seq(S) /\ Len(s \o <<x>>) = Len(s) + 1 /\ s \o <<x>> # <<>>
           /\ \A k \in 1..Len(s) : (s \o <<x>>)[k] = s[k]
           /\ (s \o <<x>>)[Len(s) + 1] = x
OBVIOUS

\* The bytes that a version has from a position on: so many, each of that version and at its
\* place.
LEMMA BytesSay ==
    ASSUME NEW o \in Objects, NEW start \in Nat, NEW n \in Nat
    PROVE  /\ BytesOf(o, start, n) \in Seq(Bytes) /\ Len(BytesOf(o, start, n)) = n
           /\ \A j \in 1..n : /\ BytesOf(o, start, n)[j].v = o.v
                              /\ BytesOf(o, start, n)[j].pos = start + j - 1
<1>1. o.v \in Nat
    BY VersionType
<1>2. ASSUME NEW j \in 1..n PROVE [v |-> o.v, pos |-> start + j - 1] \in Bytes
  <2>1. start + j - 1 \in Nat
      OBVIOUS
  <2> QED BY <1>1, <2>1 DEF Bytes
<1>3. BytesOf(o, start, n) \in [1..n -> Bytes]
    BY <1>2 DEF BytesOf
<1>4. \A j \in 1..n : BytesOf(o, start, n)[j] = [v |-> o.v, pos |-> start + j - 1]
    BY DEF BytesOf
<1>5. BytesOf(o, start, n) \in Seq(Bytes)
    BY <1>3
<1>6. DOMAIN BytesOf(o, start, n) = 1..n
    BY <1>3
<1>7. Len(BytesOf(o, start, n)) = n
    BY <1>3
<1> QED BY <1>4, <1>5, <1>7

\* What a response owes for its current part, and what of it there is to read.
LEMMA PartSays ==
    ASSUME WorldInv, SrvInv, srv.pc = "streaming"
    PROVE  /\ Part.start \in Nat /\ Length(Part) \in Nat
           /\ Part.start = Begin(Len(srv.out) + 1) /\ Length(Part) = Owed(Len(srv.out) + 1)
           /\ Part.end < srv.reading.size
<1>1. /\ srv.reading # None /\ Known(srv.reading) /\ srv.first # None
      /\ IF srv.plan = <<>> THEN srv.out = <<>> ELSE Len(srv.out) < Len(srv.plan)
      /\ srv.reading.size \in Nat /\ srv.headers \in Headers
  <2>1. srv.reading # None /\ Known(srv.reading) /\ srv.first # None
        /\ IF srv.plan = <<>> THEN srv.out = <<>> ELSE Len(srv.out) < Len(srv.plan)
      BY DEF SrvInv, StreamInv, FirstInv
  <2> QED BY <2>1, VersionType, Fields DEF Known, SrvInv
<1>2. CASE srv.plan = <<>>
  <2>0. srv.headers.total \in Sizes \cup {0}
      BY <1>1 DEF Headers
  <2>1. srv.headers.total \in Nat
    <3>1. \A x \in Sizes \cup {0} : x \in Nat
        BY WebReadAssumption DEF WebReadAssumption
    <3> QED BY <2>0, <3>1, Zenon
  <2>2. Part.start = 0 /\ Part.end = srv.headers.total - 1
      BY <1>2 DEF Part, RangeOf
  <2>3. srv.headers.total = srv.first.size
    <3>1. ~srv.multi
      <4>1. Len(srv.plan) = 0
          BY <1>2
      <4> QED BY <4>1 DEF SrvInv, PlanInv
    <3> QED BY <1>1, <3>1 DEF SrvInv, FirstInv
  <2>4. srv.reading = srv.first
    <3>1. ~srv.multi
      <4>1. Len(srv.plan) = 0
          BY <1>2
      <4> QED BY <4>1 DEF SrvInv, PlanInv
    <3>2. Mate(srv.multi, srv.first, srv.reading)
        BY DEF SrvInv, StreamInv
    <3> QED BY <3>1, <3>2 DEF Mate
  <2>5. Length(Part) = srv.headers.total
      BY <2>1, <2>2 DEF Length
  <2> QED BY <1>1, <1>2, <2>1, <2>2, <2>3, <2>4, <2>5 DEF Begin, Owed
<1>3. CASE srv.plan # <<>>
  <2>1. PICK k : k = Len(srv.out) + 1 /\ k \in 1..Len(srv.plan)
      BY <1>1, <1>3, Fields DEF SrvInv
  <2>2. Part = srv.plan[k] /\ srv.plan[k] \in Spans /\ srv.plan[k].start <= srv.plan[k].end
        /\ srv.plan[k].end < srv.reading.size
    <3>1. Part = srv.plan[k]
        BY <1>3, <2>1 DEF Part
    <3>2. srv.plan[k] \in Spans /\ srv.plan[k].start <= srv.plan[k].end
        BY <2>1, Fields DEF SrvInv, PlanInv
    <3>3. srv.plan[k].end < srv.reading.size
        BY <2>1 DEF SrvInv, StreamInv
    <3> QED BY <3>1, <3>2, <3>3
  <2>3. srv.plan[k].start \in Nat /\ srv.plan[k].end \in Nat
      BY <2>2, RangeTypes
  <2>4. Length(Part) = srv.plan[k].end - srv.plan[k].start + 1 /\ Length(Part) \in Nat
      BY <2>2, <2>3 DEF Length
  <2> QED BY <1>3, <2>1, <2>2, <2>3, <2>4 DEF Begin, Owed
<1> QED BY <1>2, <1>3

\* Sending a piece of the body, short or in whole, keeps the invariant.
LEMMA DeliverKeeps ==
    ASSUME WorldInv, SrvInv, Same, Deliver
    PROVE  SrvInv'
<1> DEFINE L0 == Length(Part)
           k0 == Len(srv.out) + 1
<1>a. PICK n \in {0, 1, L0, L0 + 1} :
         LET more == k0 < Len(srv.plan)
             passed == Sends(Passed(n, L0))
         IN srv' = IF ~EndsWell(n, L0)
                   THEN [srv EXCEPT !.out = passed, !.pc = "answered"]
                   ELSE [srv EXCEPT !.out = passed, !.whole = ~more,
                                    !.pc = IF ~more THEN "answered"
                                           ELSE IF Buffered(srv.plan) THEN "streaming"
                                           ELSE "parting"]
    BY DEF Deliver
<1> SUFFICES ASSUME NEW L, L = L0, NEW k, k = k0, NEW m, m = Passed(n, L0),
                    NEW piece, piece = BytesOf(srv.reading, Part.start, m),
                    NEW out, out = srv.out \o <<piece>>
             PROVE  SrvInv'
    OBVIOUS
<1> DEFINE more == k < Len(srv.plan)
<1>b. /\ k = Len(srv.out) + 1 /\ L = Length(Part) /\ n \in {0, 1, L, L + 1} /\ m = Passed(n, L)
      /\ piece = BytesOf(srv.reading, Part.start, m) /\ out = srv.out \o <<piece>>
    OBVIOUS
<1>c. out = Sends(Passed(n, L))
    BY <1>b DEF Sends
<1>d. srv' = IF ~EndsWell(n, L)
             THEN [srv EXCEPT !.out = out, !.pc = "answered"]
             ELSE [srv EXCEPT !.out = out, !.whole = ~more,
                              !.pc = IF ~more THEN "answered"
                                     ELSE IF Buffered(srv.plan) THEN "streaming"
                                     ELSE "parting"]
    BY <1>a, <1>c
<1> HIDE DEF L0, k0
<1>0. srv.pc = "streaming"
    BY DEF Deliver
<1>1. /\ L \in Nat /\ Part.start \in Nat /\ Part.start = Begin(k) /\ L = Owed(k)
    BY <1>b, <1>0, PartSays
<1>2. /\ srv.first # None /\ Known(srv.first) /\ Known(srv.reading) /\ srv.reading \in Objects
      /\ Mate(srv.multi, srv.first, srv.reading) /\ ~srv.whole
      /\ IF srv.plan = <<>> THEN srv.out = <<>> ELSE Len(srv.out) < Len(srv.plan)
    BY <1>0 DEF SrvInv, FirstInv, StreamInv, SentInv, Known
<1>3. m \in Nat /\ m <= L /\ (n = L => m = L)
  <2>1. n \in Int /\ L \in Int
      BY <1>b, <1>1
  <2>2. m = IF n <= L THEN n ELSE L
      BY <1>b, <2>1, MinOfTwo DEF Passed
  <2> QED BY <1>1, <2>2
<1>4. /\ piece \in Seq(Bytes) /\ Len(piece) = m
      /\ \A j \in 1..m : piece[j].v = srv.reading.v /\ piece[j].pos = Begin(k) + j - 1
  <2>1. /\ BytesOf(srv.reading, Part.start, m) \in Seq(Bytes)
        /\ Len(BytesOf(srv.reading, Part.start, m)) = m
        /\ \A j \in 1..m : /\ BytesOf(srv.reading, Part.start, m)[j].v = srv.reading.v
                           /\ BytesOf(srv.reading, Part.start, m)[j].pos = Part.start + j - 1
      BY <1>1, <1>2, <1>3, BytesSay, ZenonT(60)
  <2> QED BY <1>b, <1>1, <2>1
<1>5. PICK c \in Nat : c = Len(srv.out) /\ k = c + 1
  <2>1. srv.out \in Seq(Seq(Bytes))
      BY Fields DEF SrvInv
  <2>2. PICK c \in Nat : c = Len(srv.out)
      BY <2>1
  <2> QED BY <1>b, <2>2
<1>6. /\ out \in Seq(Seq(Bytes)) /\ Len(out) = k /\ out # <<>>
      /\ \A i \in 1..c : out[i] = srv.out[i]
      /\ out[k] = piece
  <2>1. srv.out \in Seq(Seq(Bytes))
      BY Fields DEF SrvInv
  <2> QED BY <1>b, <1>4, <1>5, <2>1, OneMore
<1>7. PICK p \in Nat : p = Len(srv.plan)
    BY Fields, SMTT(60) DEF SrvInv
<1>8. PICK pc, whole : /\ srv' = [srv EXCEPT !.out = out, !.whole = whole, !.pc = pc]
                       /\ whole \in BOOLEAN
                       /\ \/ n # L /\ pc = "answered" /\ whole = FALSE
                          \/ n = L /\ ~(k < p) /\ pc = "answered" /\ whole = TRUE
                          \/ n = L /\ k < p /\ Buffered(srv.plan) /\ pc = "streaming" /\ whole = FALSE
                          \/ n = L /\ k < p /\ ~Buffered(srv.plan) /\ pc = "parting" /\ whole = FALSE
  <2>1. CASE n # L
    <3>1. srv' = [srv EXCEPT !.out = out, !.pc = "answered"]
        BY <1>d, <2>1 DEF EndsWell
    <3>2. [srv EXCEPT !.out = out, !.pc = "answered"] = [srv EXCEPT !.out = out, !.whole = FALSE, !.pc = "answered"]
      <4>1. srv.whole = FALSE /\ srv \in Handling
          BY <1>2, Fields DEF SrvInv, SrvType
      <4> QED BY <4>1 DEF Handling
    <3> QED BY <2>1, <3>1, <3>2
  <2>2. CASE n = L
    <3>1. srv' = [srv EXCEPT !.out = out, !.whole = ~more,
                             !.pc = IF ~more THEN "answered"
                                    ELSE IF Buffered(srv.plan) THEN "streaming" ELSE "parting"]
        BY <1>d, <2>2 DEF EndsWell
    <3>2. more = (k < p)
        BY <1>7
    <3>3. CASE ~(k < p)
        BY <2>2, <3>1, <3>2, <3>3
    <3>4. CASE k < p /\ Buffered(srv.plan)
        BY <2>2, <3>1, <3>2, <3>4
    <3>5. CASE k < p /\ ~Buffered(srv.plan)
        BY <2>2, <3>1, <3>2, <3>5
    <3> QED BY <3>3, <3>4, <3>5
  <2> QED BY <2>1, <2>2
<1>9. /\ srv'.pc = pc /\ srv'.headers = srv.headers /\ srv'.req = srv.req
      /\ srv'.meta = srv.meta /\ srv'.multi = srv.multi /\ srv'.plan = srv.plan
      /\ srv'.first = srv.first /\ srv'.reading = srv.reading /\ srv'.out = out /\ srv'.whole = whole
    BY <1>8, Fields DEF SrvInv
<1>10. SrvType'
  <2>1. ASSUME NEW s, s = srv
        PROVE  [s EXCEPT !.out = out, !.whole = whole, !.pc = pc] \in Handling
    <3>1. s \in Handling
        BY <2>1 DEF SrvInv, SrvType
    <3>2. pc \in {"idle", "speculating", "heading", "getting", "opening", "streaming",
                  "parting", "answered"} /\ whole \in BOOLEAN
        BY <1>8
    <3> QED BY ONLY <3>1, <3>2, <1>6 DEF Handling
  <2>2. [srv EXCEPT !.out = out, !.whole = whole, !.pc = pc] \in Handling
      BY <2>1
  <2> QED BY <1>8, <2>2 DEF SrvType
<1>11. NotYet'
    BY <1>8, <1>9 DEF NotYet, Before
<1>12. PlanInv' /\ MetaInv'
  <2>1. PlanInv'
      BY <1>9 DEF PlanInv, SrvInv
  <2>2. MetaInv'
      BY <1>8, <1>9, Frozen DEF MetaInv, Same, SrvInv
  <2> QED BY <2>1, <2>2
<1>13. FirstInv'
  <2>1. srv'.first # None
      BY <1>2, <1>9
  <2> QED BY <1>2, <1>6, <2>1, <1>9, Frozen DEF FirstInv, Described, Same, SrvInv
<1>14. StreamInv'
  <2>1. ASSUME NEW i \in 1..Len(out), NEW j \in 1..Len(out[i])
        PROVE  /\ out[i][j].v \in 1..Len(versions)
               /\ Mate(srv.multi, srv.first, versions[out[i][j].v])
    <3>1. CASE i = k
      <4>1. out[i][j].v = srv.reading.v
          BY <1>4, <1>6, <2>1, <3>1
      <4> QED BY <1>2, <4>1 DEF Known
    <3>2. CASE i # k
      <4>1. i \in 1..c /\ out[i] = srv.out[i]
          BY <1>5, <1>6, <2>1, <3>2
      <4> QED BY <1>5, <2>1, <4>1 DEF SrvInv, StreamInv
    <3> QED BY <3>1, <3>2
  <2>2. ASSUME pc = "streaming" \/ pc = "parting"
        PROVE  k < p /\ srv.plan # <<>> /\ srv.multi /\ (pc = "parting" => ~Buffered(srv.plan))
               /\ (pc = "streaming" => Buffered(srv.plan))
    <3>1. k < p /\ (pc = "parting" => ~Buffered(srv.plan)) /\ (pc = "streaming" => Buffered(srv.plan))
        BY <1>8, <2>2
    <3>2. p > 1 /\ p # 0
        BY <3>1, <1>5, <1>7
    <3>3. srv.multi /\ srv.plan # <<>>
        BY <1>7, <3>2 DEF SrvInv, PlanInv
    <3> QED BY <3>1, <3>3
  <2>3. ASSUME pc = "streaming"
        PROVE  \A i \in 1..Len(srv.plan) : srv.plan[i].end < srv.reading.size
      BY <1>0, <2>2, <2>3 DEF SrvInv, StreamInv
  <2>4. pc = "streaming" => k < Len(srv.plan)
      BY <1>7, <2>2
  <2>5. pc = "parting" => k < Len(srv.plan)
      BY <1>7, <2>2
  <2>6. (pc = "streaming" =>
          /\ srv.reading # None /\ Known(srv.reading) /\ Mate(srv.multi, srv.first, srv.reading)
          /\ IF srv.plan = <<>> THEN out = <<>> ELSE Len(out) < Len(srv.plan)
          /\ \A i \in 1..Len(srv.plan) :
                i = Len(out) + 1 \/ Buffered(srv.plan) => srv.plan[i].end < srv.reading.size)
    <3>1. srv.reading # None
        BY <1>0 DEF SrvInv, StreamInv
    <3> QED BY <1>2, <1>6, <2>2, <2>3, <2>4, <3>1
  <2>7. pc = "parting" => srv.multi /\ ~Buffered(srv.plan) /\ Len(out) < Len(srv.plan)
      BY <1>6, <2>2, <2>5
  <2> QED BY <1>9, <2>1, <2>6, <2>7, Frozen DEF StreamInv, Same
<1>15. SentInv'
  <2>1. ASSUME NEW i \in 1..Len(out), NEW j \in 1..Len(out[i])
        PROVE  out[i][j].pos = Begin(i) + j - 1
    <3>1. CASE i = k
        BY <1>4, <1>6, <2>1, <3>1
    <3>2. CASE i # k
      <4>1. i \in 1..c /\ out[i] = srv.out[i]
          BY <1>5, <1>6, <2>1, <3>2
      <4> QED BY <1>5, <2>1, <4>1 DEF SrvInv, SentInv
    <3> QED BY <3>1, <3>2
  <2>2. ASSUME n = L, NEW i \in 1..Len(out)
        PROVE  Len(out[i]) = Owed(i)
    <3>1. CASE i = k
        BY <1>1, <1>3, <1>4, <1>6, <2>2, <3>1
    <3>2. CASE i # k
      <4>1. i \in 1..c /\ out[i] = srv.out[i]
          BY <1>5, <1>6, <2>2, <3>2
      <4> QED BY <1>0, <1>5, <2>2, <4>1 DEF SrvInv, SentInv
    <3> QED BY <3>1, <3>2
  <2>3. pc \in {"streaming", "parting"} \/ whole => n = L
      BY <1>8
  <2>4. Len(out) <= Pieces /\ (whole => Len(out) = Pieces /\ pc = "answered")
    <3>1. CASE srv.plan = <<>>
      <4>1. c = 0
          BY <1>2, <1>5, <3>1
      <4> QED BY <1>5, <1>6, <1>8, <3>1, <4>1 DEF Pieces
    <3>2. CASE srv.plan # <<>>
      <4>1. c < p /\ Pieces = p
          BY <1>2, <1>5, <1>7, <3>2 DEF Pieces
      <4> QED BY <1>5, <1>6, <1>8, <4>1
    <3> QED BY <3>1, <3>2
  <2>5. /\ \A i : Begin(i)' = Begin(i) /\ Owed(i)' = Owed(i)
        /\ Pieces' = Pieces
      BY <1>9 DEF Begin, Owed, Pieces
  <2>6. Len(srv'.out) <= Pieces'
      BY <1>9, <2>4, <2>5
  <2>7. \A i \in 1..Len(srv'.out) : \A j \in 1..Len(srv'.out[i]) :
           srv'.out[i][j].pos = Begin(i)' + j - 1
      BY <1>9, <2>1, <2>5
  <2>8. srv'.pc \in {"streaming", "parting"} \/ srv'.whole =>
           \A i \in 1..Len(srv'.out) : Len(srv'.out[i]) = Owed(i)'
      BY <1>9, <2>2, <2>3, <2>5
  <2>9. srv'.whole => Len(srv'.out) = Pieces' /\ srv'.pc = "answered"
      BY <1>9, <2>4, <2>5
  <2> QED BY <2>6, <2>7, <2>8, <2>9 DEF SentInv
<1> QED BY <1>10, <1>11, <1>12, <1>13, <1>14, <1>15 DEF SrvInv

\* Between answers.
LEMMA QuietKeeps ==
    ASSUME Same, srv' = Quiet
    PROVE  SrvInv'
<1>1. /\ srv'.pc = "idle" /\ srv'.headers = NoHeaders /\ srv'.req = Plain /\ srv'.attempt = 0
      /\ srv'.meta = None /\ srv'.multi = FALSE /\ srv'.plan = <<>>
      /\ srv'.first = None /\ srv'.reading = None /\ srv'.out = <<>> /\ srv'.whole = FALSE
    BY DEF Quiet
<1>2. /\ Plain \in AnyRequest /\ NoHeaders \in Headers /\ None \in Version
      /\ <<>> \in Seq(Spans) /\ <<>> \in Seq(Seq(Bytes)) /\ 0 \in 0..1
  <2>1. Plain \in AnyRequest
      BY DEF Plain, AnyRequest, TagLists, Dates
  <2> QED BY <2>1, Zero DEF Version
<1>3. Quiet \in Handling
    BY <1>2 DEF Quiet, Handling
<1>4. SrvType'
    BY <1>3 DEF SrvType
<1>5. NotYet'
    BY <1>1 DEF NotYet, Before
<1>6. PlanInv' /\ MetaInv' /\ FirstInv' /\ StreamInv' /\ SentInv'
    BY <1>1 DEF PlanInv, MetaInv, FirstInv, StreamInv, SentInv, Pieces, NoHeaders
<1> QED BY <1>4, <1>5, <1>6 DEF SrvInv

-------------------------------------------------------------------------------
(* The world, the cache and the client                                     *)

\* What an entry of the cache may be.
Entry(c) ==
    c # None =>
        /\ store.ttl > 0
        /\ c \in [of : Objects, till : Nat, body : Version]
        /\ Known(c.of) /\ c.body \in {None, c.of}

\* What is put in the cache of heads and bodies describes a version that was written.
LEMMA SetSays ==
    ASSUME WorldInv, NEW c, Entry(c), NEW o, Known(o), NEW body \in BOOLEAN
    PROVE  Entry(CacheSet(store, c, o, body, now))
<1>1. /\ store.ttl \in Nat /\ now \in Nat /\ o \in Objects
    BY Kinds, WebReadAssumption DEF WorldInv, WebReadAssumption, Known
<1>2. CASE store.ttl = 0
    BY <1>2 DEF CacheSet, Entry
<1>3. CASE store.ttl > 0
  <2> DEFINE kept0 == IF body THEN o ELSE IF c # None /\ c.of = o THEN c.body ELSE None
  <2> SUFFICES ASSUME NEW kept, kept = kept0 PROVE Entry(CacheSet(store, c, o, body, now))
      OBVIOUS
  <2>1. CacheSet(store, c, o, body, now) = [of |-> o, till |-> now + store.ttl, body |-> kept]
      BY <1>1, <1>3 DEF CacheSet
  <2>2. kept \in {None, o}
      BY DEF Entry
  <2>3. kept \in Version /\ now + store.ttl \in Nat
      BY <1>1, <2>2 DEF Version
  <2> HIDE DEF kept0
  <2>4. [of |-> o, till |-> now + store.ttl, body |-> kept] \in [of : Objects, till : Nat, body : Version]
      BY <1>1, <2>3
  <2> QED BY <1>3, <2>1, <2>2, <2>4 DEF Entry
<1> QED BY <1>1, <1>2, <1>3

\* What is taken from the cache describes a version that was written, however old.
LEMMA HitSays ==
    ASSUME CacheInv PROVE Entry(Hit)
BY DEF CacheInv, Hit, CacheGet, Entry

\* The cache stays sound over every step that leaves the object alone.
LEMMA CacheKept ==
    ASSUME WorldInv, CacheInv, UNCHANGED World,
           \/ UNCHANGED cache
           \/ CacheAfterHead
           \/ \E range : CacheAfterGet(range)
    PROVE  CacheInv'
<1>1. Entry(Hit) /\ Entry(cache) /\ (object # None => Known(object))
    BY HitSays DEF WorldInv, CacheInv, Entry
<1>2. Entry(cache')
  <2>1. CASE UNCHANGED cache
      BY <1>1, <2>1
  <2>2. CASE CacheAfterHead
    <3>1. CASE Hit # None \/ object = None
        BY <1>1, <2>2, <3>1 DEF CacheAfterHead, FsHeadCache
    <3>2. CASE ~(Hit # None \/ object = None)
      <4>1. cache' = CacheSet(store, Hit, object, FALSE, now)
          BY <2>2, <3>2 DEF CacheAfterHead, FsHeadCache
      <4> QED BY <1>1, <3>2, <4>1, SetSays
    <3> QED BY <3>1, <3>2
  <2>3. ASSUME NEW range, CacheAfterGet(range) PROVE Entry(cache')
    <3>1. cache' = IF (Hit # None /\ Hit.body # None) \/ PinnedRead(object, range).kind # "found"
                   THEN Hit
                   ELSE CacheSet(store, Hit, object, BodyIsCacheable(range, object), now)
        BY <2>3 DEF CacheAfterGet, FsGetCache
    <3>2. CASE (Hit # None /\ Hit.body # None) \/ PinnedRead(object, range).kind # "found"
        BY <1>1, <3>1, <3>2
    <3>3. CASE ~((Hit # None /\ Hit.body # None) \/ PinnedRead(object, range).kind # "found")
      <4>1. object # None
          BY <3>3 DEF PinnedRead, Missing
      <4>2. BodyIsCacheable(range, object) \in BOOLEAN
          BY DEF BodyIsCacheable
      <4> QED BY <1>1, <3>1, <3>3, <4>1, <4>2, SetSays
    <3> QED BY <3>2, <3>3
  <2> QED BY <2>1, <2>2, <2>3
<1> QED BY <1>2 DEF CacheInv, Entry, World, Known

\* The versions only grow, and what is said of those there are stays true.
Grows == /\ store' = store /\ Len(versions) <= Len(versions')
         /\ \A i \in 1..Len(versions) : versions'[i] = versions[i]

\* What is known of the versions written so far is not changed by writing another.
LEMMA Grown ==
    ASSUME WorldInv, Grows, versions' \in Seq(Objects)
    PROVE  /\ \A o : Known(o) => Known(o)'
           /\ \A i \in 1..Len(versions) : i \in 1..Len(versions')
           /\ \A o : RawTag(o)' = RawTag(o) /\ TagOf(o)' = TagOf(o) /\ DateOf(o)' = DateOf(o)
           /\ \A req, o : Permitted(req, o)' <=> Permitted(req, o)
           /\ \A a, b : Alike(a, b)' <=> Alike(a, b)
           /\ \A m, a, b : Mate(m, a, b)' <=> Mate(m, a, b)
           /\ \A req : Speculates(req)' <=> Speculates(req)
<1>1. PICK m, n \in Nat : m = Len(versions) /\ n = Len(versions')
    BY DEF WorldInv
<1>2. \A i \in 1..Len(versions) : i \in 1..Len(versions')
    BY <1>1 DEF Grows
<1>3. \A o : Known(o) => Known(o)'
    BY <1>2 DEF Known, Grows
<1> QED BY <1>2, <1>3 DEF RawTag, TagOf, DateOf, Permitted, Alike, Mate, Speculates, Grows

\* Writing another version keeps the invariant of the request being served.
LEMMA GrowsKeeps ==
    ASSUME WorldInv, SrvInv, Grows, versions' \in Seq(Objects), UNCHANGED srv
    PROVE  SrvInv'
<1>1. SrvType' /\ PlanInv' /\ SentInv'
    BY DEF SrvInv, SrvType, PlanInv, SentInv, Pieces, Begin, Owed
<1>2. NotYet'
    BY Grown DEF SrvInv, NotYet, Before, Grows
<1>3. MetaInv'
    BY Grown DEF SrvInv, MetaInv
<1>4. FirstInv'
    BY Grown DEF SrvInv, FirstInv, Described
<1>5. StreamInv'
  <2>1. ASSUME NEW k \in 1..Len(srv.out), NEW j \in 1..Len(srv.out[k])
        PROVE  /\ srv.out[k][j].v \in 1..Len(versions')
               /\ Mate(srv.multi, srv.first, versions'[srv.out[k][j].v])
    <3>1. /\ srv.out[k][j].v \in 1..Len(versions)
          /\ Mate(srv.multi, srv.first, versions[srv.out[k][j].v])
        BY <2>1 DEF SrvInv, StreamInv
    <3>2. versions'[srv.out[k][j].v] = versions[srv.out[k][j].v]
        BY <3>1 DEF Grows
    <3>3. srv.out[k][j].v \in 1..Len(versions')
        BY <3>1, Grown
    <3> QED BY <3>1, <3>2, <3>3
  <2>2. \A k \in 1..Len(srv'.out) : \A j \in 1..Len(srv'.out[k]) :
           /\ srv'.out[k][j].v \in 1..Len(versions')
           /\ Mate(srv.multi, srv.first, versions[srv.out[k][j].v])'
      BY <2>1 DEF Mate, DateOf, DateAt, Grows
  <2>3. (srv.pc = "streaming" =>
          /\ srv.reading # None /\ Known(srv.reading) /\ Mate(srv.multi, srv.first, srv.reading)
          /\ IF srv.plan = <<>> THEN srv.out = <<>> ELSE Len(srv.out) < Len(srv.plan)
          /\ \A k \in 1..Len(srv.plan) :
                k = Len(srv.out) + 1 \/ Buffered(srv.plan) => srv.plan[k].end < srv.reading.size)'
      BY Grown DEF SrvInv, StreamInv
  <2>4. (srv.pc = "parting" =>
          srv.multi /\ ~Buffered(srv.plan) /\ Len(srv.out) < Len(srv.plan))'
      BY DEF SrvInv, StreamInv
  <2> QED BY <2>2, <2>3, <2>4 DEF StreamInv
<1> QED BY <1>1, <1>2, <1>3, <1>4, <1>5 DEF SrvInv

\* Writing another version keeps the cache sound: it may grow stale but never wrong.
LEMMA GrowsCache ==
    ASSUME WorldInv, CacheInv, Grows, versions' \in Seq(Objects), UNCHANGED cache
    PROVE  CacheInv'
BY Grown DEF CacheInv, Grows

\* Overwriting the object keeps the invariant.
LEMMA ReplaceKeeps ==
    ASSUME WorldInv, CacheInv, SrvInv, ClientType,
           NEW size \in Sizes, NEW mtime \in 0..MaxTime, Replace(size, mtime)
    PROVE  WorldInv' /\ CacheInv' /\ SrvInv' /\ ClientType'
<1>0. PICK n \in Nat : n = Len(versions)
    BY DEF WorldInv
<1>1. /\ n < MaxVersions /\ mtime <= now
      /\ object' = [v |-> n + 1, size |-> size, mtime |-> mtime]
      /\ versions' = Append(versions, object')
      /\ UNCHANGED <<store, now, cache, requests, srv, client>>
    BY <1>0, WebReadAssumption DEF Replace, WorldInv, WebReadAssumption
<1>2. object' \in Objects /\ object' # None /\ object'.v = n + 1 /\ object'.mtime = mtime
  <2>1. n + 1 \in 1..MaxVersions
      BY <1>1, WebReadAssumption DEF WebReadAssumption
  <2>2. object' \in Objects
      BY <1>1, <2>1 DEF Objects
  <2> QED BY <1>1, <2>2, VersionType
<1>3. /\ versions' \in Seq(Objects) /\ Len(versions') = n + 1
      /\ \A i \in 1..n : versions'[i] = versions[i]
      /\ versions'[n + 1] = object'
    BY <1>0, <1>1, <1>2 DEF WorldInv
<1>4. Grows
    BY <1>0, <1>1, <1>3 DEF Grows
<1>5. WorldInv'
  <2>1. \A i \in 1..Len(versions') : versions'[i].v = i /\ versions'[i].mtime <= now'
    <3> SUFFICES ASSUME NEW i \in 1..n + 1
                 PROVE  versions'[i].v = i /\ versions'[i].mtime <= now
        BY <1>1, <1>3
    <3>1. CASE i = n + 1
        BY <1>1, <1>2, <1>3, <3>1
    <3>2. CASE i # n + 1
      <4>1. i \in 1..n
          BY <3>2
      <4> QED BY <1>0, <1>3, <4>1 DEF WorldInv
    <3> QED BY <3>1, <3>2
  <2>2. /\ object' \in Objects /\ object'.v \in 1..Len(versions')
        /\ versions'[object'.v] = object' /\ object'.v = Len(versions')
    <3>1. n + 1 \in 1..n + 1
        OBVIOUS
    <3> QED BY <1>2, <1>3, <3>1
  <2>3. Len(versions') <= MaxVersions
      BY <1>1, <1>3, WebReadAssumption DEF WebReadAssumption
  <2>4. (Known(object) /\ object.v = Len(versions))'
    <3>1. Objects' = Objects
        BY DEF Objects
    <3> QED BY <2>2, <3>1 DEF Known
  <2> QED BY <1>1, <1>3, <2>1, <2>3, <2>4 DEF WorldInv
<1> QED BY <1>1, <1>3, <1>4, <1>5, GrowsKeeps, GrowsCache DEF ClientType

\* Whatever leaves the store and its versions as they are.
LEMMA StillKeeps ==
    ASSUME WorldInv, SrvInv, ClientType, UNCHANGED <<store, versions, srv, client>>
    PROVE  SrvInv' /\ ClientType'
<1>1. Grows /\ versions' \in Seq(Objects)
  <2>1. Len(versions) \in Nat /\ versions \in Seq(Objects)
      BY DEF WorldInv
  <2> QED BY <2>1 DEF Grows
<1> QED BY <1>1, GrowsKeeps DEF ClientType

\* Deleting the object, the clock, eviction and a late fill of the cache keep the invariant.
LEMMA WorldSteps ==
    ASSUME WorldInv, CacheInv, SrvInv, ClientType,
           \/ Delete \/ Tick \/ Evict
           \/ \E i \in DOMAIN versions, body \in BOOLEAN : WriteBack(versions[i], body)
    PROVE  WorldInv' /\ CacheInv' /\ SrvInv' /\ ClientType'
<1>0. UNCHANGED <<store, versions, srv, client>>
    BY DEF Delete, Tick, Evict, WriteBack, World
<1>1. SrvInv' /\ ClientType'
    BY <1>0, StillKeeps
<1>2. CASE Delete
    BY <1>1, <1>2 DEF Delete, WorldInv, CacheInv, Known
<1>3. CASE Tick
  <2>1. now' \in 0..MaxTime /\ now' = now + 1 /\ now \in Nat
      BY <1>3, WebReadAssumption DEF Tick, WorldInv, WebReadAssumption
  <2>2. \A i \in 1..Len(versions) : versions[i].v = i /\ versions[i].mtime <= now'
    <3> TAKE i \in 1..Len(versions)
    <3>1. versions[i] \in Objects /\ versions[i].v = i /\ versions[i].mtime <= now
        BY DEF WorldInv
    <3> QED BY <2>1, <3>1, VersionType
  <2> QED BY <1>1, <1>3, <2>1, <2>2 DEF Tick, WorldInv, CacheInv, Known
<1>4. CASE Evict
    BY <1>1, <1>4 DEF Evict, World, WorldInv, CacheInv, Known
<1>5. ASSUME NEW i \in DOMAIN versions, NEW body \in BOOLEAN, WriteBack(versions[i], body)
      PROVE  WorldInv' /\ CacheInv'
  <2>1. Known(versions[i])
    <3>1. i \in 1..Len(versions) /\ versions[i] \in Objects
        BY DEF WorldInv
    <3> QED BY <3>1 DEF WorldInv, Known
  <2>2. Entry(cache)
      BY DEF CacheInv, Entry
  <2>3. (body /\ BodyIsCacheable(None, versions[i])) \in BOOLEAN
      BY DEF BodyIsCacheable
  <2>4. Entry(CacheSet(store, cache, versions[i], body /\ BodyIsCacheable(None, versions[i]), now))
      BY <2>1, <2>2, <2>3, SetSays
  <2>5. Entry(cache')
      BY <1>5, <2>4 DEF WriteBack
  <2> QED BY <1>5, <2>5 DEF WriteBack, World, WorldInv, CacheInv, Entry, Known
<1> QED BY <1>1, <1>2, <1>3, <1>4, <1>5

\* What a client asks for.
LEMMA AskedType ==
    ASSUME ClientType
    PROVE  /\ Plain \in AnyRequest
           /\ ResumeWith # None =>
                 [Plain EXCEPT !.specs = <<[first |-> Len(client.held), last |-> None]>>,
                               !.ifRange = ResumeWith] \in AnyRequest
<1>1. Plain \in AnyRequest
    BY DEF Plain, AnyRequest, TagLists, Dates
<1>2. client.tag \in Tag /\ client.date \in Dates /\ Len(client.held) \in Nat
    BY DEF ClientType
<1>3. ResumeWith # None => ResumeWith \in [tag : Tags \cup {None}, date : Dates]
    BY <1>2 DEF ResumeWith, Tag, Dates
<1>4. <<[first |-> Len(client.held), last |-> None]>> \in Seq(Specs)
  <2>1. Len(client.held) # None
      BY <1>2, NoneAssumption DEF NoneAssumption
  <2>2. [first |-> Len(client.held), last |-> None] \in Specs
      BY <1>2, <2>1 DEF Specs
  <2> QED BY <2>2
<1>5. ASSUME NEW specs \in Seq(Specs), NEW with \in [tag : Tags \cup {None}, date : Dates], NEW r, r = Plain
      PROVE  [r EXCEPT !.specs = specs, !.ifRange = with] \in AnyRequest
  <2>1. r \in AnyRequest
      BY <1>1, <1>5
  <2> QED BY ONLY <2>1, <1>5 DEF AnyRequest
<1> QED BY <1>1, <1>3, <1>4, <1>5

\* The requests that a client sends keep the invariant.
LEMMA AskingKeeps ==
    ASSUME WorldInv, CacheInv, SrvInv, ClientType,
           Request(Plain) \/ Resume \/ \E req \in Probes : Probe(req)
    PROVE  WorldInv' /\ CacheInv' /\ SrvInv' /\ ClientType'
<1>1. PICK req \in AnyRequest : Arrives(req) /\ (requests' = requests + 1 \/ requests' = MaxRequests)
    BY AskedType, WebReadAssumption DEF Request, Resume, Probe, WebReadAssumption
<1>2. SrvInv'
    BY <1>1, ArrivesKeeps
<1>3. requests < MaxRequests /\ UNCHANGED <<store, now, object, versions, cache, client>>
    BY <1>1 DEF Arrives
<1>4. requests' \in 0..MaxRequests
    BY <1>1, <1>3, WebReadAssumption DEF WorldInv, WebReadAssumption
<1> QED BY <1>2, <1>3, <1>4 DEF WorldInv, CacheInv, ClientType, Known

\* A client that takes what it was sent keeps the invariant.
LEMMA TakeKeeps ==
    ASSUME WorldInv, CacheInv, SrvInv, ClientType, Take
    PROVE  WorldInv' /\ CacheInv' /\ SrvInv' /\ ClientType'
<1>1. srv' = Quiet /\ UNCHANGED Still /\ srv.pc = "answered"
    BY DEF Take
<1>2. SrvInv'
    BY <1>1, QuietKeeps DEF Same, Still, World
<1>3. WorldInv' /\ CacheInv'
    BY <1>1 DEF WorldInv, CacheInv, Known, Still, World
<1>4. ClientType'
  <2>0. /\ srv.out \in Seq(Seq(Bytes)) /\ srv.headers \in Headers
        /\ client.held \in Seq(Bytes) /\ client.total \in Sizes \cup {0}
      BY Fields DEF SrvInv, ClientType
  <2>1. CASE srv.headers.status = 200 /\ ~srv.req.head /\ srv.out # <<>>
    <3>1. srv.out[1] \in Seq(Bytes)
        BY <2>0, <2>1
    <3>2. /\ srv.headers.tag \in Tag /\ srv.headers.date \in Dates
          /\ srv.headers.total \in Sizes \cup {0}
        BY <2>0 DEF Headers
    <3>3. (srv.headers.date # None /\ srv.headers.at > srv.headers.date) \in BOOLEAN
        OBVIOUS
    <3>4. client' = [held |-> srv.out[1], tag |-> srv.headers.tag, date |-> srv.headers.date,
                     sure |-> srv.headers.date # None /\ srv.headers.at > srv.headers.date,
                     total |-> srv.headers.total]
        BY <2>1 DEF Take
    <3> QED BY <3>1, <3>2, <3>3, <3>4 DEF ClientType
  <2>2. CASE /\ ~(srv.headers.status = 200 /\ ~srv.req.head /\ srv.out # <<>>)
             /\ srv.headers.status = 206 /\ Resumed /\ srv.plan[1].start = Len(client.held)
    <3>1. srv.out # <<>>
      <4>1. srv.first # None
          BY <2>2 DEF SrvInv, FirstInv
      <4> QED BY <1>1, <4>1 DEF SrvInv, FirstInv
    <3>2. srv.out[1] \in Seq(Bytes)
        BY <2>0, <3>1
    <3>3. client.held \o srv.out[1] \in Seq(Bytes)
        BY <2>0, <3>2
    <3>4. client' = [client EXCEPT !.held = client.held \o srv.out[1]]
        BY <2>2 DEF Take
    <3> QED BY <3>3, <3>4 DEF ClientType
  <2>3. CASE /\ ~(srv.headers.status = 200 /\ ~srv.req.head /\ srv.out # <<>>)
             /\ ~(srv.headers.status = 206 /\ Resumed /\ srv.plan[1].start = Len(client.held))
      BY <2>3 DEF Take, ClientType
  <2> QED BY <2>1, <2>2, <2>3
<1> QED BY <1>2, <1>3, <1>4

\* What the handler does in one go.
Handles ==
    \/ HeadObject
    \/ \E mood \in {"range", "whole", "garbled"} :
           Speculate(mood) \/ GetObject(mood) \/ GetFirstPart(mood) \/ NextPart(mood)
    \/ MeasureObject \/ OpenObject \/ Throttle
    \/ Deliver

\* Serving a request changes neither the object nor the client, and the cache only by what a
\* head or a read puts there.
LEMMA HandlesFrame ==
    ASSUME Handles
    PROVE  /\ UNCHANGED <<World, client>>
           /\ UNCHANGED cache \/ CacheAfterHead \/ \E range : CacheAfterGet(range)
<1>1. CASE HeadObject
    BY <1>1 DEF HeadObject
<1>2. ASSUME NEW mood, Speculate(mood)
      PROVE  UNCHANGED <<World, client>> /\ \E range : CacheAfterGet(range)
    BY <1>2 DEF Speculate
<1>3. ASSUME NEW mood, GetObject(mood)
      PROVE  UNCHANGED <<World, client>> /\ \E range : CacheAfterGet(range)
    BY <1>3 DEF GetObject
<1>4. ASSUME NEW mood, GetFirstPart(mood)
      PROVE  UNCHANGED <<World, client>> /\ \E range : CacheAfterGet(range)
    BY <1>4 DEF GetFirstPart
<1>5. ASSUME NEW mood, NextPart(mood)
      PROVE  UNCHANGED <<World, client>> /\ \E range : CacheAfterGet(range)
    BY <1>5 DEF NextPart
<1>6. CASE MeasureObject \/ OpenObject \/ Throttle \/ Deliver
  <2>1. UNCHANGED <<Still, client>>
      BY <1>6 DEF MeasureObject, OpenObject, Throttle, Deliver
  <2> QED BY <2>1 DEF Still
<1> QED BY <1>1, <1>2, <1>3, <1>4, <1>5, <1>6 DEF Handles

\* Every step of serving a request keeps the invariant.
LEMMA HandlesKeeps ==
    ASSUME WorldInv, CacheInv, SrvInv, ClientType, Handles
    PROVE  WorldInv' /\ CacheInv' /\ SrvInv' /\ ClientType'
<1>1. UNCHANGED <<World, client>> /\ Same
    BY HandlesFrame DEF Same, World
<1>2. CacheInv'
    BY <1>1, HandlesFrame, CacheKept
<1>3. WorldInv' /\ ClientType'
    BY <1>1 DEF WorldInv, ClientType, Known, World
<1>4. SrvInv'
    BY <1>1, HeadKeeps, SpeculateKeeps, GetObjectKeeps, GetFirstPartKeeps, NextPartKeeps,
       MeasureKeeps, OpenKeeps, ThrottleKeeps, DeliverKeeps DEF Handles
<1> QED BY <1>2, <1>3, <1>4

\* The invariant is inductive.
LEMMA Steps ==
    ASSUME IInv, [Next]_vars
    PROVE  IInv'
<1>0. WorldInv /\ CacheInv /\ SrvInv /\ ClientType
    BY DEF IInv, SrvInv
<1>1. CASE UNCHANGED vars
    BY <1>0, <1>1, StillKeeps DEF vars, IInv, SrvInv, WorldInv, CacheInv, Known
<1>2. CASE \E size \in Sizes, mtime \in 0..MaxTime : Replace(size, mtime)
    BY <1>0, <1>2, ReplaceKeeps DEF IInv, SrvInv
<1>3. CASE \/ Delete \/ Tick \/ Evict
           \/ \E i \in DOMAIN versions, body \in BOOLEAN : WriteBack(versions[i], body)
    BY <1>0, <1>3, WorldSteps DEF IInv, SrvInv
<1>4. CASE Request(Plain) \/ Resume \/ \E req \in Probes : Probe(req)
    BY <1>0, <1>4, AskingKeeps DEF IInv, SrvInv
<1>5. CASE Handles
    BY <1>0, <1>5, HandlesKeeps DEF IInv, SrvInv
<1>6. CASE Take
    BY <1>0, <1>6, TakeKeeps DEF IInv, SrvInv
<1> QED BY <1>1, <1>2, <1>3, <1>4, <1>5, <1>6 DEF Next, Handles

\* The invariant holds at the start.
LEMMA Begins ==
    ASSUME Init
    PROVE  IInv
<1>1. WorldInv
  <2>1. versions = <<>> /\ versions \in Seq(Objects) /\ Len(versions) = 0
      BY DEF Init
  <2>2. 0 \in 0..MaxTime /\ 0 \in 0..MaxRequests /\ 0 <= MaxVersions
      BY WebReadAssumption DEF WebReadAssumption
  <2> QED BY <2>1, <2>2 DEF Init, WorldInv
<1>2. CacheInv
    BY DEF Init, CacheInv
<1>3. ClientType
    BY DEF Init, ClientType, Nothing, Tag, Dates
<1>4. /\ srv.pc = "idle" /\ srv.headers = NoHeaders /\ srv.req = Plain /\ srv.attempt = 0
      /\ srv.meta = None /\ srv.multi = FALSE /\ srv.plan = <<>> /\ srv = Quiet
      /\ srv.first = None /\ srv.reading = None /\ srv.out = <<>> /\ srv.whole = FALSE
    BY DEF Init, Quiet
<1>5. SrvType
  <2>1. Plain \in AnyRequest
      BY DEF Plain, AnyRequest, TagLists, Dates
  <2>2. Quiet \in Handling
      BY <2>1, Zero DEF Quiet, Handling, Version
  <2> QED BY <1>4, <2>2 DEF SrvType
<1>6. NotYet
    BY <1>4 DEF NotYet, Before
<1>7. PlanInv /\ MetaInv /\ FirstInv /\ StreamInv /\ SentInv
    BY <1>4 DEF PlanInv, MetaInv, FirstInv, StreamInv, SentInv, Pieces, NoHeaders
<1> QED BY <1>1, <1>2, <1>3, <1>5, <1>6, <1>7 DEF IInv

\* Every reachable state satisfies the inductive invariant.
LEMMA Reached == Spec => []IInv
<1>1. Init => IInv
    BY Begins
<1>2. IInv /\ [Next]_vars => IInv'
    BY Steps
<1> QED BY <1>1, <1>2, PTL DEF Spec

-------------------------------------------------------------------------------
(* What follows from it                                                    *)

\* The version being read holds the part that is owed, and everything has its
\* type, whatever is replaced, deleted or evicted in between (Inv).
THEOREM StreamsHoldTheirPart == Spec => []Inv
<1>1. ASSUME IInv PROVE Inv
  <2>0. WorldInv /\ CacheInv /\ SrvInv /\ ClientType
      BY <1>1 DEF IInv, SrvInv
  <2>1. srv.pc = "streaming" => Part.end < srv.reading.size /\ Length(Part) >= 0
      BY <2>0, PartSays
  <2>2. ToSet(versions) \subseteq Objects
      BY <2>0 DEF WorldInv, ToSet
  <2>3. object \in {None} \cup {versions[i] : i \in DOMAIN versions \cap {Len(versions)}}
    <3> SUFFICES ASSUME object # None
                 PROVE  \E i \in DOMAIN versions \cap {Len(versions)} : object = versions[i]
        OBVIOUS
    <3>1. /\ object.v \in 1..Len(versions) /\ object.v = Len(versions)
          /\ versions[object.v] = object
        BY <2>0 DEF WorldInv, Known
    <3>2. DOMAIN versions = 1..Len(versions)
        BY <2>0 DEF WorldInv
    <3> QED BY <3>1, <3>2
  <2>4. cache # None => cache.of \in Objects /\ cache.body \in Objects \cup {None} /\ cache.till \in Nat
      BY <2>0 DEF CacheInv, Version
  <2>5. /\ srv.pc \in {"idle", "speculating", "heading", "getting", "opening", "streaming",
                       "parting", "answered"}
        /\ srv.attempt \in 0..1
        /\ {srv.meta, srv.first, srv.reading} \subseteq Objects \cup {None}
        /\ srv.headers.status \in {0, 200, 206, 304, 404, 412, 416, 502, 503}
      BY <2>0, Fields DEF SrvInv, Version, Headers
  <2>6. \A i \in DOMAIN srv.plan : srv.plan[i].start <= srv.plan[i].end
    <3>1. srv.plan \in Seq(Spans)
        BY <2>0, Fields DEF SrvInv
    <3>2. DOMAIN srv.plan = 1..Len(srv.plan)
        BY <3>1
    <3> QED BY <2>0, <3>2 DEF SrvInv, PlanInv
  <2>7. client.total \in Sizes \cup {0} /\ client.sure \in BOOLEAN
      BY <2>0 DEF ClientType
  <2>8. TypeOK
      BY <2>0, <2>2, <2>3, <2>4, <2>5, <2>6, <2>7 DEF TypeOK, WorldInv
  <2> QED BY <2>1, <2>8 DEF Inv
<1> QED BY <1>1, Reached, PTL

\* A byte sent, its place and its version.
LEMMA SentSays ==
    ASSUME IInv, NEW sent \in Sent
    PROVE  \E k \in 1..Len(srv.out) : \E j \in 1..Len(srv.out[k]) :
              /\ sent = [part |-> k, at |-> j, byte |-> srv.out[k][j]]
              /\ srv.out[k][j].pos = Begin(k) + j - 1
              /\ srv.first # None /\ Known(srv.first) /\ Permitted(srv.req, srv.first)
              /\ Source(sent.byte) \in Objects
              /\ Mate(srv.multi, srv.first, Source(sent.byte))
<1>1. srv.out \in Seq(Seq(Bytes)) /\ versions \in Seq(Objects)
    BY Fields DEF IInv, WorldInv
<1>2. PICK k \in DOMAIN srv.out : sent \in {[part |-> k, at |-> j, byte |-> srv.out[k][j]] : j \in DOMAIN srv.out[k]}
    BY DEF Sent
<1>3. k \in 1..Len(srv.out) /\ srv.out[k] \in Seq(Bytes)
    BY <1>1
<1>4. PICK j \in 1..Len(srv.out[k]) : sent = [part |-> k, at |-> j, byte |-> srv.out[k][j]]
  <2>1. DOMAIN srv.out[k] = 1..Len(srv.out[k])
      BY <1>3
  <2> QED BY <1>2, <2>1
<1>5. sent.byte = srv.out[k][j]
    BY <1>4
<1>6. srv.out # <<>>
    BY <1>1, <1>3
<1>7. srv.first # None /\ Known(srv.first) /\ Permitted(srv.req, srv.first)
    BY <1>6 DEF IInv, FirstInv
<1>8. /\ srv.out[k][j].v \in 1..Len(versions)
      /\ Mate(srv.multi, srv.first, versions[srv.out[k][j].v])
    BY <1>3 DEF IInv, StreamInv
<1>9. srv.out[k][j].pos = Begin(k) + j - 1
    BY <1>3 DEF IInv, SentInv
<1>10. versions[srv.out[k][j].v] \in Objects
    BY <1>1, <1>8
<1> QED BY <1>3, <1>4, <1>5, <1>7, <1>8, <1>9, <1>10 DEF Source

\* Each byte sent belongs to a version that the headers describe, however many
\* versions came between the HEAD, the GETs and the last byte
\* (HeadersDescribeBody).
THEOREM BodiesAreDescribed == Spec => []HeadersDescribeBody
<1>1. ASSUME IInv PROVE HeadersDescribeBody
  <2> SUFFICES ASSUME Serving, NEW sent \in Sent, NEW o, o = Source(sent.byte)
               PROVE  /\ srv.headers.date \in {None, DateOf(o)}
                      /\ ~srv.multi \/ store.tag # "none" =>
                            /\ srv.headers.tag \in {None, TagOf(o)}
                            /\ Described => srv.headers.total = o.size
      BY DEF HeadersDescribeBody
  <2>1. srv.first # None /\ Mate(srv.multi, srv.first, o)
      BY <1>1, SentSays
  <2>2. /\ srv.headers.tag \in {None, TagOf(srv.first)}
        /\ srv.headers.date \in {None, DateOf(srv.first)}
        /\ Described => srv.headers.total = srv.first.size
      BY <1>1, <2>1 DEF IInv, FirstInv
  <2> QED BY <2>1, <2>2 DEF Mate
<1> QED BY <1>1, Reached, PTL

\* The conditions of the request, decided on a HEAD, hold of every byte sent
\* afterwards (ConditionsHoldOfBody).
THEOREM ConditionsOutliveTheHead == Spec => []ConditionsHoldOfBody
<1>1. ASSUME IInv PROVE ConditionsHoldOfBody
  <2> SUFFICES ASSUME Serving, NEW sent \in Sent, NEW o, o = Source(sent.byte)
               PROVE  /\ srv.req.ifMatch \notin {None, AnyTag} => TagOf(o) \in srv.req.ifMatch
                      /\ srv.req.ifUnmodifiedSince # None /\ srv.req.ifMatch = None
                         /\ DateOf(o) # None => o.mtime <= srv.req.ifUnmodifiedSince
                      /\ srv.req.ifNoneMatch # None /\ (~srv.multi \/ store.tag # "none")
                            => TagOf(o) \notin srv.req.ifNoneMatch
      BY DEF ConditionsHoldOfBody
  <2>1. /\ Mate(srv.multi, srv.first, o) /\ srv.first \in Objects /\ o \in Objects
        /\ Permitted(srv.req, srv.first) /\ store \in Stores /\ srv.req \in AnyRequest
      BY <1>1, SentSays, Fields DEF IInv, Known, WorldInv
  <2>2. DateOf(o) = DateOf(srv.first) /\ (DateOf(o) # None => DateOf(o) = o.mtime)
      BY <2>1, TagTypes DEF Mate
  <2>3. ~srv.multi \/ store.tag # "none" => o = srv.first
      BY <2>1 DEF Mate
  <2>4. ASSUME srv.req.ifMatch \notin {None, AnyTag} PROVE TagOf(o) \in srv.req.ifMatch
    <3>1. TagOf(srv.first) \in srv.req.ifMatch /\ TagOf(srv.first).strong
        BY <2>1, <2>4 DEF Permitted
    <3>2. srv.req.ifMatch \in SUBSET Tags
        BY <2>1, <2>4 DEF AnyRequest, TagLists
    <3>3. TagOf(srv.first) # None
        BY <3>1, <3>2, NoneAssumption DEF NoneAssumption
    <3>4. store.tag # "none"
      <4>1. TagOf(srv.first) # None /\ store.tag = "none" => TagOf(srv.first).strong = FALSE
          BY <2>1, TagTypes DEF Weak
      <4> QED BY <3>1, <3>3, <4>1
    <3> QED BY <2>3, <3>1, <3>4
  <2>5. srv.req.ifUnmodifiedSince # None /\ srv.req.ifMatch = None /\ DateOf(o) # None
           => o.mtime <= srv.req.ifUnmodifiedSince
      BY <2>1, <2>2 DEF Permitted
  <2>6. srv.req.ifNoneMatch # None /\ (~srv.multi \/ store.tag # "none")
           => TagOf(o) \notin srv.req.ifNoneMatch
      BY <2>1, <2>3 DEF Permitted
  <2> QED BY <2>4, <2>5, <2>6
<1> QED BY <1>1, Reached, PTL

\* The bytes of an answer delivered in full are those of its parts, each once.
LEMMA WholeSays ==
    ASSUME IInv, srv.whole
    PROVE  /\ srv.first # None /\ Pieces \in Nat
           /\ srv.headers.total \in Nat
           /\ \A k \in 1..Pieces : Begin(k) \in Nat /\ Owed(k) \in Nat
           /\ \A sent \in Sent : \E k \in 1..Pieces : \E j \in 1..Owed(k) :
                 sent = [part |-> k, at |-> j, byte |-> srv.out[k][j]]
                 /\ sent.byte.pos = Begin(k) + j - 1
           /\ \A k \in 1..Pieces : \A j \in 1..Owed(k) :
                 \E sent \in Sent : sent.byte.pos = Begin(k) + j - 1
<1>1. /\ srv.first # None /\ Len(srv.out) = Pieces
      /\ \A k \in 1..Len(srv.out) : Len(srv.out[k]) = Owed(k)
      /\ srv.out \in Seq(Seq(Bytes)) /\ srv.plan \in Seq(Spans) /\ srv.headers \in Headers
    BY Fields DEF IInv, FirstInv, SentInv
<1>2. Pieces \in Nat
    BY <1>1
<1>3. srv.headers.total \in Nat
  <2>1. srv.headers.total \in Sizes \cup {0}
      BY <1>1 DEF Headers
  <2>2. \A x \in Sizes \cup {0} : x \in Nat
      BY WebReadAssumption DEF WebReadAssumption
  <2> QED BY <2>1, <2>2, Zenon
<1>4. \A k \in 1..Pieces : Begin(k) \in Nat /\ Owed(k) \in Nat
  <2> TAKE k \in 1..Pieces
  <2>1. CASE srv.plan = <<>>
      BY <1>3, <2>1 DEF Begin, Owed
  <2>2. CASE srv.plan # <<>>
    <3>1. k \in 1..Len(srv.plan)
        BY <2>2 DEF Pieces
    <3>2. srv.plan[k] \in Spans /\ srv.plan[k].start <= srv.plan[k].end
        BY <1>1, <3>1 DEF IInv, PlanInv
    <3>3. srv.plan[k].start \in Nat /\ srv.plan[k].end \in Nat
        BY <3>2, RangeTypes
    <3> QED BY <2>2, <3>2, <3>3 DEF Begin, Owed
  <2> QED BY <2>1, <2>2
<1>5. ASSUME NEW sent \in Sent
      PROVE  \E k \in 1..Pieces : \E j \in 1..Owed(k) :
                 sent = [part |-> k, at |-> j, byte |-> srv.out[k][j]]
                 /\ sent.byte.pos = Begin(k) + j - 1
  <2>0. PICK k \in 1..Len(srv.out) : \E j \in 1..Len(srv.out[k]) :
              /\ sent = [part |-> k, at |-> j, byte |-> srv.out[k][j]]
              /\ srv.out[k][j].pos = Begin(k) + j - 1
      BY <1>5, SentSays
  <2>1. PICK j \in 1..Len(srv.out[k]) :
              /\ sent = [part |-> k, at |-> j, byte |-> srv.out[k][j]]
              /\ srv.out[k][j].pos = Begin(k) + j - 1
      BY <2>0
  <2> QED BY <1>1, <2>1
<1>6. ASSUME NEW k \in 1..Pieces, NEW j \in 1..Owed(k)
      PROVE  \E sent \in Sent : sent.byte.pos = Begin(k) + j - 1
  <2>1. k \in 1..Len(srv.out) /\ j \in 1..Len(srv.out[k])
      BY <1>1
  <2>2. k \in DOMAIN srv.out /\ j \in DOMAIN srv.out[k]
      BY <1>1, <2>1
  <2>3. [part |-> k, at |-> j, byte |-> srv.out[k][j]] \in Sent
      BY <2>2 DEF Sent
  <2>4. srv.out[k][j].pos = Begin(k) + j - 1
      BY <2>1 DEF IInv, SentInv
  <2> QED BY <2>3, <2>4
<1> QED BY <1>1, <1>2, <1>3, <1>4, <1>5, <1>6

\* A complete body has each position of the object at most once.
LEMMA OnceEach ==
    ASSUME IInv, srv.whole, NEW s \in Sent, NEW t \in Sent, s.byte.pos = t.byte.pos
    PROVE  s = t
<1>a. PICK k \in 1..Pieces : \E j \in 1..Owed(k) :
          s = [part |-> k, at |-> j, byte |-> srv.out[k][j]] /\ s.byte.pos = Begin(k) + j - 1
    BY WholeSays
<1>1. PICK j \in 1..Owed(k) :
          s = [part |-> k, at |-> j, byte |-> srv.out[k][j]] /\ s.byte.pos = Begin(k) + j - 1
    BY <1>a
<1>b. PICK l \in 1..Pieces : \E i \in 1..Owed(l) :
          t = [part |-> l, at |-> i, byte |-> srv.out[l][i]] /\ t.byte.pos = Begin(l) + i - 1
    BY WholeSays
<1>2. PICK i \in 1..Owed(l) :
          t = [part |-> l, at |-> i, byte |-> srv.out[l][i]] /\ t.byte.pos = Begin(l) + i - 1
    BY <1>b
<1>3. /\ Begin(k) \in Nat /\ Owed(k) \in Nat /\ Begin(l) \in Nat /\ Owed(l) \in Nat
      /\ Pieces \in Nat /\ j \in Nat /\ i \in Nat /\ k \in Nat /\ l \in Nat
      /\ Begin(k) + j - 1 = Begin(l) + i - 1
  <2>1. Begin(k) \in Nat /\ Owed(k) \in Nat /\ Begin(l) \in Nat /\ Owed(l) \in Nat /\ Pieces \in Nat
      BY WholeSays
  <2> QED BY <1>1, <1>2, <2>1
<1>4. k = l
  <2> SUFFICES ASSUME k # l PROVE FALSE
      OBVIOUS
  <2>1. Pieces > 1
      BY <1>3
  <2>2. srv.plan # <<>> /\ Pieces = Len(srv.plan)
      BY <2>1 DEF Pieces
  <2>3. Disjoint(srv.plan[k], srv.plan[l])
      BY <2>1, <2>2 DEF IInv, PlanInv, Parts
  <2>4. /\ srv.plan[k].start \in Nat /\ srv.plan[k].end \in Nat
        /\ srv.plan[l].start \in Nat /\ srv.plan[l].end \in Nat
    <3>1. srv.plan \in Seq(Spans)
        BY Fields DEF IInv
    <3>2. srv.plan[k] \in Spans /\ srv.plan[l] \in Spans
        BY <2>2, <3>1
    <3> QED BY <3>2, RangeTypes
  <2>5. /\ Begin(k) = srv.plan[k].start /\ Owed(k) = srv.plan[k].end - srv.plan[k].start + 1
        /\ Begin(l) = srv.plan[l].start /\ Owed(l) = srv.plan[l].end - srv.plan[l].start + 1
      BY <2>2 DEF Begin, Owed
  <2>6. j <= Owed(k) /\ i <= Owed(l) /\ 1 <= j /\ 1 <= i
      BY <1>1, <1>2, <1>3
  <2> QED BY <1>3, <2>3, <2>4, <2>5, <2>6 DEF Disjoint
<1>5. i = j
    BY <1>3, <1>4
<1> QED BY <1>1, <1>2, <1>4, <1>5

\* The elements of the request are touched in the order of the parts.
LEMMA FirstUnique ==
    ASSUME NEW span, NEW i \in DOMAIN srv.req.specs, srv.req.specs \in Seq(Specs),
           First(srv.req.specs, span, srv.headers.total, i)
    PROVE  FirstAsking(span) = i
<1> DEFINE Is(j) == First(srv.req.specs, span, srv.headers.total, j)
<1>1. FirstAsking(span) = CHOOSE j \in DOMAIN srv.req.specs : Is(j)
    BY DEF FirstAsking, First, Touches
<1>2. ASSUME NEW j \in DOMAIN srv.req.specs, Is(j) PROVE j = i
  <2>1. i \in Nat /\ j \in Nat /\ i >= 1 /\ j >= 1
      BY <1>2
  <2>2. CASE i < j
    <3>1. i \in 1..j - 1
        BY <2>1, <2>2
    <3> QED BY <1>2, <3>1 DEF First
  <2>3. CASE j < i
    <3>1. j \in 1..i - 1
        BY <2>1, <2>3
    <3> QED BY <1>2, <3>1 DEF First
  <2> QED BY <2>1, <2>2, <2>3
<1>3. Is(i)
    OBVIOUS
<1> HIDE DEF Is
<1> QED BY <1>1, <1>2, <1>3

\* What is delivered in full holds what was asked for, each byte once, and 416 is
\* said when nothing asked for exists (RangesAnswerRequest).
THEOREM AnswersWhatWasAsked == Spec => []RangesAnswerRequest
<1>1. ASSUME IInv PROVE RangesAnswerRequest
  <2> DEFINE wanted == Wanted(srv.headers.total)
             given == {sent.byte.pos : sent \in Sent}
             specs == srv.req.specs
             total == srv.headers.total
  <2>1. /\ srv.plan \in Seq(Spans) /\ specs \in Seq(Specs)
        /\ DOMAIN srv.plan = 1..Len(srv.plan)
    <3>1. srv.req \in AnyRequest /\ srv.plan \in Seq(Spans)
        BY <1>1, Fields DEF IInv
    <3> QED BY <3>1 DEF AnyRequest
  <2>2. \A pos \in 0..total - 1 : pos \in wanted <=> Wants(specs, pos, total)
      BY DEF Wanted, Wants
  <2>3. wanted \subseteq 0..total - 1
      BY DEF Wanted
  <2>4. ASSUME srv.whole
        PROVE  /\ \A pos \in given : \E k \in 1..Pieces : \E j \in 1..Owed(k) : pos = Begin(k) + j - 1
               /\ \A k \in 1..Pieces : \A j \in 1..Owed(k) : Begin(k) + j - 1 \in given
      BY <1>1, <2>4, WholeSays
  <2>5. ASSUME Serving, srv.whole PROVE Cardinality(given) = Cardinality(Sent)
    <3>1. PICK bound \in Nat : \A pos \in given : pos \in Nat /\ pos <= bound
      <4>1. PICK bound \in Nat : \A k \in 1..Pieces : Begin(k) + Owed(k) <= bound
        <5>1. CASE srv.plan = <<>>
          <6>1. total \in Nat
              BY <1>1, <2>5, WholeSays
          <6> WITNESS total \in Nat
          <6> QED BY <5>1, <6>1 DEF Begin, Owed
        <5>2. CASE srv.plan # <<>> /\ ~srv.multi
          <6>1. Len(srv.plan) = 1
              BY <1>1, <5>2, OnePart DEF IInv, SrvInv
          <6>2. srv.plan[1] \in Spans
              BY <2>1, <6>1
          <6>3. srv.plan[1].end + 1 \in Nat /\ srv.plan[1].start \in Nat /\ srv.plan[1].end \in Nat
              BY <6>2, RangeTypes
          <6>4. Pieces = 1 /\ Begin(1) + Owed(1) = srv.plan[1].end + 1
              BY <5>2, <6>1, <6>3 DEF Pieces, Begin, Owed
          <6> QED BY <6>3, <6>4
        <5>3. CASE srv.plan # <<>> /\ srv.multi
          <6>1. Known(srv.meta) /\ Parts(srv.plan, srv.meta.size)
              BY <1>1, <5>3 DEF IInv, PlanInv, MetaInv
          <6>2. srv.meta.size \in Nat
              BY <6>1, VersionType DEF Known
          <6>3. \A k \in 1..Pieces : Begin(k) + Owed(k) <= srv.meta.size
            <7> TAKE k \in 1..Pieces
            <7>1. k \in 1..Len(srv.plan)
                BY <5>3 DEF Pieces
            <7>2. srv.plan[k] \in Spans /\ srv.plan[k].end < srv.meta.size
                BY <2>1, <6>1, <7>1 DEF Parts
            <7>3. srv.plan[k].start \in Nat /\ srv.plan[k].end \in Nat
                BY <7>2, RangeTypes
            <7> QED BY <5>3, <6>2, <7>2, <7>3 DEF Begin, Owed
          <6> QED BY <6>2, <6>3
        <5> QED BY <5>1, <5>2, <5>3
      <4>2. ASSUME NEW pos \in given PROVE pos \in Nat /\ pos <= bound
        <5>1. PICK k \in 1..Pieces : \E j \in 1..Owed(k) : pos = Begin(k) + j - 1
            BY <2>4, <2>5, <4>2
        <5>2. PICK j \in 1..Owed(k) : pos = Begin(k) + j - 1
            BY <5>1
        <5>3. Begin(k) \in Nat /\ Owed(k) \in Nat /\ Begin(k) + Owed(k) <= bound
            BY <1>1, <2>5, <4>1, WholeSays
        <5> QED BY <5>2, <5>3
      <4> QED BY <4>2
    <3>2. IsFiniteSet(given)
      <4>1. given \in SUBSET Nat
          BY <3>1
      <4> HIDE DEF given
      <4> QED BY <3>1, <4>1, FS_BoundedSetOfNaturals
    <3> DEFINE f == [pos \in given |-> CHOOSE sent \in Sent : sent.byte.pos = pos]
    <3>3. \A pos \in given : f[pos] \in Sent /\ f[pos].byte.pos = pos
        OBVIOUS
    <3>4. \A sent \in Sent : sent.byte.pos \in given /\ f[sent.byte.pos] = sent
      <4> TAKE sent \in Sent
      <4>1. sent.byte.pos \in given
          OBVIOUS
      <4>2. f[sent.byte.pos] \in Sent /\ f[sent.byte.pos].byte.pos = sent.byte.pos
          BY <3>3, <4>1
      <4> HIDE DEF f
      <4> QED BY <1>1, <2>5, <4>1, <4>2, OnceEach
    <3>5. f \in [given -> Sent]
        BY <3>3
    <3> HIDE DEF f, given
    <3>6. f \in Bijection(given, Sent)
        BY <3>3, <3>4, <3>5 DEF Bijection, Injection, Surjection, IsInjective
    <3>7. ExistsBijection(given, Sent)
        BY <3>6 DEF ExistsBijection
    <3> QED BY <3>2, <3>7, FS_Bijection
  <2>6. ASSUME srv.headers.status = 206, srv.whole, Described
        PROVE  /\ wanted \subseteq given
               /\ \A pos \in given \ wanted : \E a, b \in wanted :
                     a < pos /\ pos < b /\ b - a - 1 <= Gap
               /\ \A i, j \in DOMAIN srv.plan :
                     i < j => FirstAsking(srv.plan[i]) < FirstAsking(srv.plan[j])
    <3>1. srv.first # None /\ total \in Nat
        BY <1>1, <2>6, WholeSays
    <3>2. srv.plan # <<>> /\ Serves(srv.plan, specs, total)
        BY <1>1, <2>6, <3>1 DEF IInv, FirstInv
    <3>3. \A k \in 1..Len(srv.plan) : /\ srv.plan[k].start \in Nat /\ srv.plan[k].end \in Nat
                                      /\ srv.plan[k].start <= srv.plan[k].end
                                      /\ srv.plan[k].end < total
      <4> TAKE k \in 1..Len(srv.plan)
      <4>1. srv.plan[k] \in Spans
          BY <2>1
      <4> QED BY <3>2, <4>1, RangeTypes DEF Serves
    <3>4. /\ Pieces = Len(srv.plan)
          /\ \A k : Begin(k) = srv.plan[k].start /\ Owed(k) = srv.plan[k].end - srv.plan[k].start + 1
        BY <3>2 DEF Pieces, Begin, Owed
    <3>5. \A k \in 1..Len(srv.plan) : \A pos \in srv.plan[k].start..srv.plan[k].end : pos \in given
      <4> TAKE k \in 1..Len(srv.plan)
      <4> TAKE pos \in srv.plan[k].start..srv.plan[k].end
      <4>0. PICK a, b \in Nat : a = srv.plan[k].start /\ b = srv.plan[k].end
          BY <3>3
      <4>1. Begin(k) = a /\ Owed(k) = b - a + 1 /\ pos \in a..b /\ k \in 1..Pieces
          BY <3>4, <4>0
      <4>2. \A d \in Nat, e \in Nat : \A p \in d..e : p - d + 1 \in 1..e - d + 1 /\ d + (p - d + 1) - 1 = p
          OBVIOUS
      <4>3. pos - a + 1 \in 1..Owed(k) /\ Begin(k) + (pos - a + 1) - 1 = pos
          BY <4>1, <4>2
      <4> HIDE DEF given
      <4> QED BY <2>4, <2>6, <4>1, <4>3
    <3>6. \A pos \in given : \E k \in 1..Len(srv.plan) : pos \in srv.plan[k].start..srv.plan[k].end
      <4> TAKE pos \in given
      <4>1. PICK k \in 1..Pieces : \E j \in 1..Owed(k) : pos = Begin(k) + j - 1
          BY <2>4, <2>6
      <4>2. PICK j \in 1..Owed(k) : pos = Begin(k) + j - 1
          BY <4>1
      <4>3. k \in 1..Len(srv.plan)
          BY <3>4
      <4>4. PICK a, b \in Nat : a = srv.plan[k].start /\ b = srv.plan[k].end
          BY <3>3, <4>3
      <4>5. Begin(k) = a /\ Owed(k) = b - a + 1
          BY <3>4, <4>4
      <4>6. j \in 1..b - a + 1 /\ pos = a + j - 1
          BY <4>2, <4>5
      <4>7. pos \in a..b
          BY <4>6
      <4> QED BY <4>3, <4>4, <4>7
    <3> HIDE DEF given, wanted
    <3>7. wanted \subseteq given
      <4> SUFFICES ASSUME NEW pos \in wanted PROVE pos \in given
          OBVIOUS
      <4>1. pos \in 0..total - 1 /\ Wants(specs, pos, total)
          BY <2>2, <2>3
      <4>2. PICK k \in 1..Len(srv.plan) : srv.plan[k].start <= pos /\ pos <= srv.plan[k].end
          BY <3>2, <4>1 DEF Serves
      <4>3. pos \in srv.plan[k].start..srv.plan[k].end
          BY <3>1, <3>3, <4>1, <4>2
      <4> QED BY <3>5, <4>3
    <3>8. ASSUME NEW pos \in given \ wanted
          PROVE  \E a, b \in wanted : a < pos /\ pos < b /\ b - a - 1 <= Gap
      <4>1. PICK k \in 1..Len(srv.plan) : pos \in srv.plan[k].start..srv.plan[k].end
          BY <3>6, <3>8
      <4>2. Filled(specs, pos, total)
          BY <3>2, <4>1 DEF Serves
      <4>3. pos \in 0..total - 1
          BY <3>1, <3>3, <4>1
      <4>4. ~Wants(specs, pos, total)
          BY <2>2, <3>8, <4>3
      <4>5. PICK a, b \in 0..total - 1 :
                /\ Wants(specs, a, total) /\ Wants(specs, b, total)
                /\ a < pos /\ pos < b /\ b - a - 1 <= Gap
          BY <4>2, <4>4 DEF Filled
      <4>6. a \in wanted /\ b \in wanted
          BY <2>2, <4>5
      <4> QED BY <4>5, <4>6
    <3>9. ASSUME NEW i \in DOMAIN srv.plan, NEW j \in DOMAIN srv.plan, i < j
          PROVE  FirstAsking(srv.plan[i]) < FirstAsking(srv.plan[j])
      <4>1. PICK order \in [1..Len(srv.plan) -> DOMAIN specs] :
                /\ \A k \in 1..Len(srv.plan) : First(specs, srv.plan[k], total, order[k])
                /\ \A k, l \in 1..Len(srv.plan) : k < l => order[k] < order[l]
          BY <3>2 DEF Serves
      <4>2. i \in 1..Len(srv.plan) /\ j \in 1..Len(srv.plan)
          BY <2>1
      <4>3. FirstAsking(srv.plan[i]) = order[i] /\ FirstAsking(srv.plan[j]) = order[j]
          BY <2>1, <4>1, <4>2, FirstUnique
      <4> QED BY <3>9, <4>1, <4>2, <4>3
    <3> QED BY <3>7, <3>8, <3>9
  <2>7. ASSUME srv.headers.status = 200, srv.whole PROVE given = 0..total - 1
    <3>1. srv.first # None /\ total \in Nat
        BY <1>1, <2>7, WholeSays
    <3>2. srv.plan = <<>>
        BY <1>1, <2>7, <3>1 DEF IInv, FirstInv
    <3>3. Pieces = 1 /\ Begin(1) = 0 /\ Owed(1) = total
        BY <3>2 DEF Pieces, Begin, Owed
    <3>4. ASSUME NEW pos \in 0..total - 1 PROVE pos \in given
      <4>1. pos + 1 \in 1..Owed(1) /\ Begin(1) + (pos + 1) - 1 = pos /\ 1 \in 1..Pieces
          BY <3>1, <3>3
      <4> HIDE DEF given
      <4> QED BY <2>4, <2>7, <4>1
    <3>5. ASSUME NEW pos \in given PROVE pos \in 0..total - 1
      <4>1. PICK k \in 1..Pieces : \E j \in 1..Owed(k) : pos = Begin(k) + j - 1
          BY <2>4, <2>7, <3>5
      <4>2. PICK j \in 1..Owed(k) : pos = Begin(k) + j - 1
          BY <4>1
      <4>3. k = 1
          BY <3>3
      <4> HIDE DEF given
      <4> QED BY <3>1, <3>3, <4>2, <4>3
    <3> HIDE DEF given
    <3> QED BY <3>4, <3>5
  <2>8. srv.headers.status = 416 => wanted = {}
      BY <1>1, <2>2, <2>3 DEF IInv, FirstInv
  <2> QED BY <2>5, <2>6, <2>7, <2>8 DEF RangesAnswerRequest, Serving
<1> QED BY <1>1, Reached, PTL

-------------------------------------------------------------------------------
(* The inductive invariant behind ResumeAssemblesOne: of what the client    *)
(* holds, and of a request for the rest of it                              *)

StrongTag(tag) == tag # None /\ tag.strong
\* A version none of the later ones has the time of.
LastOfDate(o) == \A i \in 1..Len(versions) : i > o.v => versions[i].mtime # o.mtime
Base == versions[client.held[1].v]
Asking == srv.pc # "idle" /\ Resumed

\* A client that asked nothing has nothing; a date older than the answer it came
\* with names one version for good.
ReplyInv ==
    /\ requests = 0 => client = Nothing /\ srv = Quiet
    /\ srv.multi => Len(srv.req.specs) > 1
    /\ srv.headers.at <= now
    /\ srv.first # None /\ srv.headers.status = 200 /\ srv.headers.date # None
          => (srv.headers.at > srv.headers.date /\ ~StrongTag(srv.headers.tag)
                 => LastOfDate(srv.first))
HeldInv ==
    /\ \A i \in 1..Len(client.held) : /\ client.held[i].v = client.held[1].v
                                      /\ client.held[i].pos = i - 1
    /\ client.sure => client.date # None /\ client.date < now
    /\ client.held # <<>> =>
          /\ client.held[1].v \in 1..Len(versions)
          /\ client.tag \in {None, TagOf(Base)}
          /\ client.sure => client.date = DateOf(Base)
          /\ client.sure /\ ~StrongTag(client.tag) => LastOfDate(Base)
ResumeInv ==
    Asking =>
        IF client.held = <<>> THEN client = Nothing
        ELSE /\ srv.req.ifRange = ResumeWith
             /\ srv.pc = "getting" /\ srv.plan # <<>> => srv.meta = Base
             /\ srv.headers.status = 206 => srv.first = Base

CInv == store.ttl = 0 => ReplyInv /\ HeldInv /\ ResumeInv

\* Without a cache a HEAD and a GET are of the present object, but for the
\* generation gcsStore has been told of.
LEMMA HeadPresent ==
    ASSUME WorldInv, CacheInv, store.ttl = 0, StoreHead.kind = "found"
    PROVE  object # None /\ StoreHead.of = object
<1>1. store.adapter \in {"s3", "azure", "r2", "http", "memory", "gcs", "fs", "custom"} /\ store.ttl \in Nat
    BY Kinds DEF WorldInv
<1>2. Hit = None
    BY <1>1 DEF Hit, CacheGet, CacheInv
<1>4. ASSUME NEW c \in {S3Classifiers, AzureClassifiers, GcsClassifiers}
      PROVE  HeadOf(object, c).kind = "found" => object # None /\ HeadOf(object, c).of = object
    BY DEF HeadOf, ClassifyStoreRead, Found, FoundIn, S3Classifiers, AzureClassifiers,
           GcsClassifiers, Missing, ObjectChanged, Unavailable, Failed, Throttled
<1>5. CASE store.adapter \in {"s3", "azure", "gcs"}
    BY <1>4, <1>5 DEF StoreHead, S3HeadObject, AzureHeadObject, GcsHeadObject
<1>6. CASE store.adapter = "fs"
    BY <1>2, <1>6 DEF StoreHead, FsHeadObject, Found, FoundIn, Missing
<1>7. CASE store.adapter \in {"r2", "http", "memory", "custom"}
    BY <1>7 DEF StoreHead, R2HeadObject, HttpHeadObject, MemoryHeadObject, Found, FoundIn, Missing
<1> QED BY <1>1, <1>5, <1>6, <1>7

\* Without the cache and away from GCS, which reads the version it pinned, a read finds the
\* object as it now is.
LEMMA GetPresent ==
    ASSUME WorldInv, CacheInv, SrvType, NEW range \in Asked \cup {None}, NEW mood,
           srv.meta # None => Known(srv.meta),
           store.ttl = 0, store.adapter # "gcs",
           StoreGet(range, mood).kind = "found"
    PROVE  object # None /\ StoreGet(range, mood).of = object
<1> SUFFICES ASSUME NEW answer, answer = StoreGet(range, mood)
             PROVE  object # None /\ answer.of = object
    OBVIOUS
<1>1. /\ store.adapter \in {"s3", "azure", "r2", "http", "memory", "fs", "custom"}
      /\ answer.kind = "found" /\ store \in Stores /\ store.ttl \in Nat
    BY Kinds DEF WorldInv
<1>2. object # None => Known(object)
    BY DEF WorldInv
<1>3. object \in Version
    BY <1>2 DEF Known, Version
<1>4. Match \in Tag
  <2>1. srv.meta # None => RawTag(srv.meta) \in Tag
      BY <1>1, TagTypes DEF Known
  <2> QED BY <2>1 DEF Match, Pinned, Tag
<1>6. CASE store.adapter \in {"s3", "azure"}
  <2>1. /\ object # None /\ ~Beyond(range, object)
        /\ answer = FoundIn(object, object, Clamped(range, object))
      BY <1>1, <1>6, ReadSays DEF StoreGet, S3GetObject, AzureGetObject
  <2> QED BY <2>1 DEF FoundIn
<1>7. CASE store.adapter \in {"r2", "memory"}
  <2>1. /\ object # None
        /\ answer = FoundIn(object, object, Clamped(range, object))
      BY <1>1, <1>7 DEF StoreGet, R2GetObject, MemoryGetObject, ServedSpan, Found, FoundIn,
         Missing, ObjectChanged, Failed
  <2> QED BY <2>1 DEF FoundIn
<1>8. CASE store.adapter = "http"
  <2>1. answer = HttpGetObject(store, object, range, Match, mood)
      BY <1>8 DEF StoreGet
  <2> QED BY <2>1, <1>1, <1>3, <1>4, HttpSays
<1>10. CASE store.adapter = "fs"
  <2>1. answer = FsGetObject(Hit, object, range) /\ Hit = None
      BY <1>1, <1>10 DEF StoreGet, Hit, CacheGet, CacheInv
  <2>2. object # None /\ answer = ServedBounds(object, object, range)
      BY <2>1, <1>1 DEF FsGetObject, PinnedRead, Missing
  <2>3. answer = FoundIn(object, object, Clamped(range, object))
      BY <2>2, <1>1 DEF ServedBounds, Failed
  <2> QED BY <2>2, <2>3 DEF FoundIn
<1>11. CASE store.adapter = "custom"
  <2>1. answer = CustomGetObject(store, object, range, Match)
      BY <1>11 DEF StoreGet
  <2>2. object # None /\ answer = FoundIn(object, object, Clamped(range, object))
      BY <2>1, <1>1 DEF CustomGetObject, Status, Found, Missing, ObjectChanged, Failed
  <2> QED BY <2>2 DEF FoundIn
<1> QED BY <1>1, <1>6, <1>7, <1>8, <1>10, <1>11

\* What the validators the client resumes by can name.
LEMMA LastIsBase ==
    ASSUME WorldInv, object # None, client.held # <<>>, client.held[1].v \in 1..Len(versions),
           DateOf(Base) # None, DateOf(object) = DateOf(Base), LastOfDate(Base)
    PROVE  object = Base
<1>1. /\ object \in Objects /\ object.v = Len(versions) /\ versions[object.v] = object
      /\ object.v \in 1..Len(versions) /\ store \in Stores
    BY DEF WorldInv, Known
<1>2. Base \in Objects /\ Base.v = client.held[1].v
    BY DEF WorldInv, Base
<1>3. object.mtime = Base.mtime
    BY <1>1, <1>2, TagTypes
<1>4. ~(object.v > Base.v)
    BY <1>1, <1>3 DEF LastOfDate
<1>5. PICK n, m \in Nat : n = object.v /\ m = Base.v /\ n = Len(versions)
    BY <1>1, <1>2, VersionType
<1>6. m <= n
    BY <1>2, <1>5
<1>7. m = n
    BY <1>4, <1>5, <1>6
<1> QED BY <1>1, <1>2, <1>5, <1>7 DEF Base

\* An If-Range that holds against the object names the version that the client holds bytes of:
\* a strong tag names one version, and a date is honoured only when it is older than its answer
\* (isRangeFresh, kernel.ts).
LEMMA FreshIsBase ==
    ASSUME WorldInv, ClientType, HeldInv, object # None, client.held # <<>>,
           srv.req.ifRange # None, srv.req.ifRange = ResumeWith,
           IsRangeFresh(srv.req, TagOf(object), DateOf(object), now)
    PROVE  object = Base
<1>1. /\ client.held[1].v \in 1..Len(versions) /\ client.tag \in {None, TagOf(Base)}
      /\ store \in Stores /\ object \in Objects /\ Known(object)
    BY DEF HeldInv, WorldInv, Known
<1>2. Base \in Objects /\ Known(Base)
    BY <1>1 DEF WorldInv, Base, Known
<1>3. CASE StrongTag(client.tag)
  <2>1. srv.req.ifRange.tag = client.tag /\ client.tag # None
      BY <1>3 DEF ResumeWith, StrongTag
  <2>2. StronglyMatches({client.tag}, TagOf(object))
      BY <2>1 DEF IsRangeFresh
  <2>3. TagOf(object) = TagOf(Base) /\ TagOf(object).strong
      BY <2>1, <2>2, <1>1 DEF StronglyMatches
  <2>4. store.tag = "strong"
    <3>1. store.tag = "none" => TagOf(object) = None \/ TagOf(object).strong = FALSE
        BY <1>1, TagTypes DEF Weak
    <3>2. store.tag = "weak" => TagOf(object).strong = FALSE
        BY <1>1, TagTypes
    <3>3. store.tag \in {"strong", "weak", "none"}
        BY <1>1, Kinds
    <3>4. TagOf(object) # None
        BY <2>2 DEF StronglyMatches
    <3> QED BY <2>3, <3>1, <3>2, <3>3, <3>4
  <2>5. RawTag(object) = RawTag(Base)
      BY <1>1, <1>2, <2>3, <2>4, TagTypes
  <2> QED BY <1>1, <1>2, <2>4, <2>5, KnownByTag
<1>4. CASE ~StrongTag(client.tag)
  <2>1. client.sure /\ srv.req.ifRange = [tag |-> None, date |-> client.date]
      BY <1>4 DEF ResumeWith, StrongTag
  <2>2. srv.req.ifRange.tag = None /\ srv.req.ifRange.date = client.date
      BY <2>1
  <2>3. DateOf(object) # None /\ DateOf(object) = client.date
      BY <2>2 DEF IsRangeFresh, SameSecond
  <2>4. client.date = DateOf(Base) /\ LastOfDate(Base)
      BY <1>4, <2>1 DEF HeldInv
  <2> QED BY <1>1, <2>3, <2>4, LastIsBase
<1> QED BY <1>3, <1>4

\* What a HEAD leaves to serve: a part only if If-Range allows it.
LEMMA PlanFresh ==
    ASSUME NEW o, NEW verdict,
           verdict = EvaluateConditionalRequest(srv.req, TagOf(o), DateOf(o), o.size, now),
           NEW plan, plan = Plan(o, verdict), plan # Unsatisfiable
    PROVE  /\ plan.ranges # <<>> => IsRangeFresh(srv.req, TagOf(o), DateOf(o), now)
           /\ Len(plan.ranges) > 1 => Len(srv.req.specs) > 1
<1> DEFINE fresh == IsRangeFresh(srv.req, TagOf(o), DateOf(o), now)
           set == IF Len(srv.req.specs) > 1 /\ fresh
                  THEN ParseRanges(srv.req.specs, o.size) ELSE Ignored
<1>1. verdict.range # Ignored => fresh
    BY DEF EvaluateConditionalRequest
<1>2. \/ plan = set /\ set # Ignored
      \/ plan = [kind |-> "ranges",
                 ranges |-> IF verdict.range = Ignored THEN <<>> ELSE <<verdict.range>>]
    BY DEF Plan
<1>3. set # Ignored => Len(srv.req.specs) > 1 /\ fresh
    OBVIOUS
<1> HIDE DEF set, fresh
<1>4. CASE plan = set /\ set # Ignored
    BY <1>3, <1>4 DEF fresh
<1>5. CASE plan = [kind |-> "ranges",
                   ranges |-> IF verdict.range = Ignored THEN <<>> ELSE <<verdict.range>>]
  <2>1. plan.ranges = IF verdict.range = Ignored THEN <<>> ELSE <<verdict.range>>
      BY <1>5
  <2>2. ~(Len(plan.ranges) > 1)
    <3>1. Len(plan.ranges) = 0 \/ Len(plan.ranges) = 1
        BY <2>1
    <3>2. ~(0 > 1) /\ ~(1 > 1)
        OBVIOUS
    <3> QED BY <3>1, <3>2, Zenon
  <2> QED BY <1>1, <2>1, <2>2 DEF fresh
<1> QED BY <1>2, <1>4, <1>5

-------------------------------------------------------------------------------
(* The steps of the handler, as the client will see them                   *)

Stays ==
    /\ srv'.headers = srv.headers /\ srv'.first = srv.first /\ srv'.multi = srv.multi
    /\ srv'.plan = srv.plan /\ srv'.meta = srv.meta
    /\ srv'.pc = "getting" => srv.pc = "getting"
Refuses ==
    /\ srv'.first = None /\ srv'.headers.at = 0 /\ srv'.headers.status \notin {200, 206}
    /\ srv'.multi \in {FALSE, srv.multi} /\ srv'.pc # "getting"
Begun ==
    /\ srv'.pc = "streaming" /\ srv'.headers.at = now
    /\ srv'.multi = srv.multi /\ srv'.meta = srv.meta
    /\ \/ object # None /\ srv'.first = object
       \/ store.adapter = "gcs" /\ (srv'.headers.status = 200 => StrongTag(srv'.headers.tag))
    /\ srv'.headers.status = 206 /\ Asking => srv.pc = "getting" /\ srv.plan # <<>>
Evaluates == srv.pc = "heading" /\ object # None /\ Evaluate(object)

Goes == /\ srv.pc # "idle" /\ srv'.pc # "idle" /\ srv'.req = srv.req
        /\ Stays \/ Refuses \/ Begun \/ Evaluates

\* An error answer leaves what the resume rests on.
LEMMA AnswerGoes ==
    ASSUME SrvInv, Before, NEW status \in {404, 502, 503}, Answer(status)
    PROVE  Goes
<1>1. srv.first = None /\ srv.pc # "idle"
    BY DEF SrvInv, NotYet, Before
<1>2. /\ srv'.pc = "answered" /\ srv'.req = srv.req /\ srv'.first = srv.first
      /\ srv'.multi = srv.multi
      /\ srv'.headers = [NoHeaders EXCEPT !.status = status]
    BY Fields DEF Answer, SrvInv
<1>3. srv'.headers.at = 0 /\ srv'.headers.status = status
    BY <1>2 DEF NoHeaders
<1> QED BY <1>1, <1>2, <1>3 DEF Goes, Refuses

\* A refusal of the store leaves what the resume rests on.
LEMMA RefusedGoes ==
    ASSUME SrvInv, Before, NEW answer, Refused(answer)
    PROVE  Goes
<1>1. \E status \in {404, 502, 503} : Answer(status)
    BY RefusedSays
<1> QED BY <1>1, AnswerGoes

\* Starting over, or giving up, leaves what the resume rests on.
LEMMA ChangedGoes ==
    ASSUME SrvInv, Before, Changed
    PROVE  Goes
<1>1. CASE srv.meta # None /\ srv.attempt = 0
  <2>1. srv' = [Quiet EXCEPT !.req = srv.req, !.attempt = 1, !.pc = "heading"]
      BY <1>1 DEF Changed
  <2>2. /\ srv'.pc = "heading" /\ srv'.req = srv.req /\ srv'.first = None
        /\ srv'.multi = FALSE /\ srv'.headers = NoHeaders
      BY <2>1 DEF Quiet
  <2>3. srv.pc # "idle" /\ NoHeaders.at = 0 /\ NoHeaders.status = 0
      BY DEF Before, NoHeaders
  <2>4. srv'.multi \in {FALSE, srv.multi}
      BY <2>2
  <2>5. srv'.headers.at = 0 /\ srv'.headers.status = 0
      BY <2>2, <2>3
  <2>7. srv'.first = None /\ srv'.pc # "getting"
      BY <2>2
  <2>8. srv'.headers.status \notin {200, 206}
      BY <2>5
  <2>6. Refuses
      BY <2>4, <2>5, <2>7, <2>8, Zenon DEF Refuses
  <2> QED BY <2>2, <2>3, <2>6 DEF Goes
<1>2. CASE ~(srv.meta # None /\ srv.attempt = 0)
  <2>1. Answer(502)
      BY <1>2 DEF Changed
  <2> QED BY <2>1, AnswerGoes
<1> QED BY <1>1, <1>2

\* Beginning a body of the object as it now is, or of a version that GCS pinned, leaves what
\* the resume rests on.
LEMMA StreamsGoes ==
    ASSUME SrvInv, Before, NEW answer, NEW plan, NEW headers, Streams(answer, plan, headers),
           headers.at = now,
           \/ object # None /\ answer.of = object
           \/ store.adapter = "gcs" /\ (headers.status = 200 => StrongTag(headers.tag)),
           headers.status = 206 /\ Asking => srv.pc = "getting" /\ srv.plan # <<>>
    PROVE  Goes
<1>1. srv' = [srv EXCEPT !.pc = "streaming", !.first = answer.of, !.reading = answer.source,
                         !.plan = plan, !.headers = headers]
    BY DEF Streams
<1>2. /\ srv'.pc = "streaming" /\ srv'.req = srv.req /\ srv'.first = answer.of
      /\ srv'.multi = srv.multi /\ srv'.meta = srv.meta /\ srv'.headers = headers
    BY <1>1, Fields DEF SrvInv
<1>3. srv.pc # "idle"
    BY DEF Before
<1> QED BY <1>2, <1>3 DEF Goes, Begun

\* A read of the store that begins a body leaves what the resume rests on.
LEMMA StreamFromStoreGoes ==
    ASSUME SrvInv, Before, store \in Stores, NEW answer, StreamFromStore(answer),
           answer.kind = "found" =>
               /\ Known(answer.of)
               /\ store.adapter = "gcs" \/ (object # None /\ answer.of = object)
               /\ Asking /\ answer.range # None => srv.pc = "getting" /\ srv.plan # <<>>
    PROVE  Goes
<1>1. CASE answer = ObjectChanged
    BY <1>1, ChangedGoes DEF StreamFromStore
<1>2. CASE answer # ObjectChanged /\ answer.kind # "found"
    BY <1>2, RefusedGoes DEF StreamFromStore
<1>3. CASE answer # ObjectChanged /\ answer.kind = "found"
           /\ ~Accepted(ReadTag(answer.of), ReadDate(answer.of))
    BY <1>3, ChangedGoes DEF StreamFromStore
<1>4. CASE answer # ObjectChanged /\ answer.kind = "found"
           /\ Accepted(ReadTag(answer.of), ReadDate(answer.of))
  <2> DEFINE status == IF answer.range = None THEN 200 ELSE 206
             plan0 == IF answer.range = None THEN <<>> ELSE <<answer.range>>
  <2> SUFFICES ASSUME NEW headers, headers = HeadersOfRead(answer.of, status), NEW plan, plan = plan0
               PROVE  Goes
      OBVIOUS
  <2>1. Streams(answer, plan, headers)
      BY <1>4 DEF StreamFromStore
  <2>2. /\ headers.at = now /\ headers.status = status
        /\ headers.tag = IF ReadTag(answer.of) # None \/ ~Verified(ReadTag(answer.of), ReadDate(answer.of))
                         THEN ReadTag(answer.of) ELSE TagOf(srv.meta)
      BY DEF HeadersOfRead
  <2>3. store.adapter = "gcs" => StrongTag(headers.tag)
    <3> SUFFICES ASSUME store.adapter = "gcs" PROVE StrongTag(headers.tag)
        OBVIOUS
    <3>1. store.tells /\ store.tag = "strong"
        BY Kinds
    <3>2. ReadTag(answer.of) = RawTag(answer.of) /\ RawTag(answer.of) # None /\ RawTag(answer.of).strong = TRUE
        BY <1>4, <3>1, TagTypes DEF ReadTag, Known
    <3> QED BY <2>2, <3>2 DEF StrongTag
  <2>4. headers.status = 206 => answer.range # None
      BY <2>2
  <2> HIDE DEF status, plan0
  <2>5. \/ object # None /\ answer.of = object
        \/ store.adapter = "gcs" /\ (headers.status = 200 => StrongTag(headers.tag))
      BY <1>4, <2>3
  <2>6. headers.status = 206 /\ Asking => srv.pc = "getting" /\ srv.plan # <<>>
      BY <1>4, <2>4
  <2>7. headers.at = now
      BY <2>2
  <2> QED BY <2>1, <2>5, <2>6, <2>7, StreamsGoes
<1> QED BY <1>1, <1>2, <1>3, <1>4

\* What the evaluation of a request leaves: an answer, or what there is to read.
LEMMA EvaluatedSays ==
    ASSUME SrvInv, NEW o, Evaluate(o)
    PROVE  /\ srv'.pc # "idle" /\ srv'.req = srv.req /\ srv'.first = srv.first /\ srv'.meta = o
           /\ \/ /\ srv'.pc = "answered" /\ srv'.headers.at = now
                 /\ srv'.multi = srv.multi /\ srv'.plan = srv.plan
              \/ /\ srv'.pc = "getting" /\ srv'.headers = srv.headers
                 /\ srv'.plan # <<>> => IsRangeFresh(srv.req, TagOf(o), DateOf(o), now)
                 /\ srv'.multi => Len(srv.req.specs) > 1
<1> DEFINE verdict0 == EvaluateConditionalRequest(srv.req, TagOf(o), DateOf(o), o.size, now)
           plan0 == Plan(o, verdict0)
           status0 == IF verdict0.status \in {200, 206} /\ ~srv.req.head /\ plan0 = Unsatisfiable
                      THEN 416 ELSE verdict0.status
<1>0. \/ /\ status0 \in {304, 412, 416} \/ srv.req.head
         /\ srv' = [srv EXCEPT !.pc = "answered", !.meta = o,
                               !.headers = [status |-> status0, at |-> now, total |-> o.size,
                                            tag |-> TagOf(o), date |-> DateOf(o)]]
      \/ /\ status0 \in {200, 206} /\ ~srv.req.head
         /\ srv' = [srv EXCEPT !.pc = "getting", !.meta = o, !.plan = plan0.ranges,
                               !.multi = Len(plan0.ranges) > 1]
    BY DEF Evaluate
<1>1. status0 \in {200, 206} /\ ~srv.req.head => plan0 # Unsatisfiable
  <2> HIDE DEF verdict0, plan0
  <2> QED OBVIOUS
<1>2. plan0 # Unsatisfiable =>
         /\ plan0.ranges # <<>> => IsRangeFresh(srv.req, TagOf(o), DateOf(o), now)
         /\ Len(plan0.ranges) > 1 => Len(srv.req.specs) > 1
    BY PlanFresh
<1> HIDE DEF verdict0, plan0, status0
<1>3. CASE /\ status0 \in {304, 412, 416} \/ srv.req.head
           /\ srv' = [srv EXCEPT !.pc = "answered", !.meta = o,
                                 !.headers = [status |-> status0, at |-> now, total |-> o.size,
                                              tag |-> TagOf(o), date |-> DateOf(o)]]
    BY <1>3, Fields DEF SrvInv
<1>4. CASE /\ status0 \in {200, 206} /\ ~srv.req.head
           /\ srv' = [srv EXCEPT !.pc = "getting", !.meta = o, !.plan = plan0.ranges,
                                 !.multi = Len(plan0.ranges) > 1]
  <2>1. /\ srv'.pc = "getting" /\ srv'.meta = o /\ srv'.plan = plan0.ranges
        /\ srv'.multi = (Len(plan0.ranges) > 1) /\ srv'.req = srv.req
        /\ srv'.first = srv.first /\ srv'.headers = srv.headers
      BY <1>4, Fields DEF SrvInv
  <2>2. plan0 # Unsatisfiable
      BY <1>1, <1>4
  <2> QED BY <1>2, <2>1, <2>2
<1> QED BY <1>0, <1>3, <1>4

\* The head request leaves what the resume rests on.
LEMMA HeadGoes ==
    ASSUME WorldInv, CacheInv, SrvInv, store.ttl = 0, HeadObject
    PROVE  Goes
<1>1. srv.pc = "heading" /\ Before
    BY DEF HeadObject, Before
<1>2. CASE StoreHead.kind = "found"
  <2>1. object # None /\ Evaluate(object)
      BY <1>2, HeadPresent DEF HeadObject
  <2>2. srv'.pc # "idle" /\ srv'.req = srv.req
      BY <2>1, EvaluatedSays
  <2> QED BY <1>1, <2>1, <2>2 DEF Goes, Evaluates
<1>3. CASE StoreHead.kind # "found"
  <2>1. Refused(StoreHead)
      BY <1>3 DEF HeadObject
  <2> QED BY <2>1, <1>1, RefusedGoes
<1> QED BY <1>2, <1>3

\* The read before any head leaves what the resume rests on.
LEMMA SpeculateGoes ==
    ASSUME WorldInv, CacheInv, SrvInv, store.ttl = 0, NEW mood, Speculate(mood)
    PROVE  Goes
<1>1. PICK range, answer :
         /\ range = RangeOf(ParseFastRange(srv.req).first, ParseFastRange(srv.req).last)
         /\ answer = StoreGet(range, mood)
    OBVIOUS
<1>2. /\ srv.pc = "speculating" /\ Before
      /\ IF answer.kind \in {"failed", "changed"} THEN srv' = [srv EXCEPT !.pc = "heading"]
         ELSE StreamFromStore(answer)
    BY <1>1 DEF Speculate, Before
<1>3. Speculates(srv.req) /\ srv.meta = None
    BY <1>2 DEF SrvInv, NotYet
<1>4. ParseFastRange(srv.req) # None /\ srv.req \in AnyRequest /\ store.adapter # "gcs" /\ ~Asking
    BY <1>3, Fields DEF SrvInv, Speculates, AuthoritativeRange, Asking, Resumed
<1>5. range \in Asked /\ (range.end = None \/ range.start <= range.end)
    BY <1>1, <1>4, FastSays
<1>6. CASE answer.kind \in {"failed", "changed"}
  <2>1. srv' = [srv EXCEPT !.pc = "heading"]
      BY <1>2, <1>6
  <2>2. /\ srv'.pc = "heading" /\ srv'.headers = srv.headers /\ srv'.req = srv.req
        /\ srv'.meta = srv.meta /\ srv'.multi = srv.multi /\ srv'.plan = srv.plan
        /\ srv'.first = srv.first
      BY <2>1, Fields DEF SrvInv
  <2> QED BY <1>2, <2>2 DEF Goes, Stays
<1>7. CASE answer.kind \notin {"failed", "changed"}
  <2>1. StreamFromStore(answer) /\ store \in Stores /\ SrvType
      BY <1>2, <1>7 DEF WorldInv, SrvInv
  <2>2. ASSUME answer.kind = "found" PROVE Known(answer.of) /\ object # None /\ answer.of = object
    <3>1. range \in Asked \cup {None} /\ (srv.meta # None => Known(srv.meta))
        BY <1>3, <1>5
    <3>2. object # None /\ answer.of = object
        BY <1>1, <1>4, <2>1, <2>2, <3>1, GetPresent
    <3> QED BY <3>2 DEF WorldInv
  <2> QED BY <1>2, <1>4, <2>1, <2>2, StreamFromStoreGoes
<1> QED BY <1>6, <1>7

\* The read of the object leaves what the resume rests on.
LEMMA GetObjectGoes ==
    ASSUME WorldInv, CacheInv, SrvInv, store.ttl = 0, NEW mood, GetObject(mood)
    PROVE  Goes
<1>1. PICK range : range = IF srv.plan = <<>> THEN None ELSE srv.plan[1]
    OBVIOUS
<1>2. PICK answer : answer = StoreGet(range, mood)
    OBVIOUS
<1>3. srv.pc = "getting" /\ Before /\ ~Measures /\ StreamFromStore(answer)
    BY <1>1, <1>2 DEF GetObject, Before
<1>4. range \in Asked \cup {None} /\ (range # None => range.end = None \/ range.start <= range.end)
  <2>1. CASE srv.plan = <<>>
      BY <1>1, <2>1
  <2>2. CASE srv.plan # <<>>
    <3>1. 1 \in 1..Len(srv.plan) /\ srv.plan[1] \in Spans
        BY <2>2, Fields DEF SrvInv
    <3> QED BY <1>1, <2>2, <3>1, RangeTypes DEF SrvInv, PlanInv
  <2> QED BY <2>1, <2>2
<1>5. /\ srv.meta # None => Known(srv.meta)
      /\ store.adapter = "gcs" => srv.meta # None
      /\ store \in Stores /\ SrvType
    BY <1>3 DEF SrvInv, MetaInv, Measures, UsablePin, WorldInv
<1>6. ASSUME answer.kind = "found"
      PROVE  /\ Known(answer.of)
             /\ store.adapter = "gcs" \/ (object # None /\ answer.of = object)
             /\ answer.range # None => srv.plan # <<>>
  <2>1. Known(answer.of) /\ (answer.range # None => range # None)
      BY <1>2, <1>4, <1>5, <1>6, GetGives
  <2>2. store.adapter # "gcs" => object # None /\ answer.of = object
      BY <1>2, <1>4, <1>5, <1>6, GetPresent
  <2> QED BY <1>1, <2>1, <2>2
<1> QED BY <1>3, <1>5, <1>6, StreamFromStoreGoes

\* The metadata that gcsStore reads leaves what the resume rests on.
LEMMA MeasureGoes ==
    ASSUME WorldInv, CacheInv, SrvInv, MeasureObject
    PROVE  Goes
<1>1. PICK answer : answer = DescribeGcsObject(store, object, Match)
    OBVIOUS
<1>2. /\ srv.pc = "getting" /\ Before
      /\ IF answer.kind = "found" THEN srv' = [srv EXCEPT !.pc = "opening", !.reading = answer.of]
         ELSE StreamFromStore(answer)
    BY <1>1 DEF MeasureObject, Before
<1>3. CASE answer.kind = "found"
  <2>1. srv' = [srv EXCEPT !.pc = "opening", !.reading = answer.of]
      BY <1>2, <1>3
  <2>2. /\ srv'.pc = "opening" /\ srv'.headers = srv.headers /\ srv'.req = srv.req
        /\ srv'.meta = srv.meta /\ srv'.multi = srv.multi /\ srv'.plan = srv.plan
        /\ srv'.first = srv.first
      BY <2>1, Fields DEF SrvInv
  <2> QED BY <1>2, <2>2 DEF Goes, Stays
<1>4. CASE answer.kind # "found"
  <2>1. StreamFromStore(answer) /\ store \in Stores
      BY <1>2, <1>4 DEF WorldInv
  <2> QED BY <1>2, <1>4, <2>1, StreamFromStoreGoes
<1> QED BY <1>3, <1>4

\* The read of the generation that the metadata named leaves what the resume rests on.
LEMMA OpenGoes ==
    ASSUME WorldInv, CacheInv, SrvInv, OpenObject
    PROVE  Goes
<1>1. PICK answer : answer = GcsGetObject(store, srv.reading, object, None)
    OBVIOUS
<1>2. /\ srv.pc = "opening" /\ StreamFromStore(answer) /\ Before /\ store \in Stores
    BY <1>1 DEF OpenObject, Before, WorldInv
<1>3. store.adapter = "gcs" /\ Known(srv.reading)
    BY <1>2 DEF SrvInv, NotYet
<1>4. answer.kind = "found" => answer.of = srv.reading /\ answer.range = None
    BY <1>1 DEF GcsGetObject, OpenGcsRead, Clamped, Beyond, FoundIn, ClassifyStoreRead,
       GcsPinnedClassifiers, Missing, ObjectChanged, Unavailable, Failed
<1> QED BY <1>2, <1>3, <1>4, StreamFromStoreGoes

\* The read of the first of several parts leaves what the resume rests on.
LEMMA GetFirstPartGoes ==
    ASSUME WorldInv, CacheInv, SrvInv, store.ttl = 0, NEW mood, GetFirstPart(mood)
    PROVE  Goes
<1> DEFINE asked0 == IF Buffered(srv.plan) THEN Span(srv.plan) ELSE srv.plan[1]
           answer0 == StoreGet(asked0, mood)
<1> SUFFICES ASSUME NEW asked, asked = asked0, NEW answer, answer = answer0 PROVE Goes
    OBVIOUS
<1>a. asked = IF Buffered(srv.plan) THEN Span(srv.plan) ELSE srv.plan[1]
    OBVIOUS
<1>b. answer = StoreGet(asked, mood)
    OBVIOUS
<1>c. /\ srv.pc = "getting" /\ srv.multi /\ Before
      /\ IF answer = ObjectChanged THEN Changed
         ELSE IF answer.kind # "found" THEN Refused(answer)
         ELSE IF ~ServedSpanMatches(asked, answer.range) THEN Changed
         ELSE IF ~Accepted(ReadTag(answer.of), ReadDate(answer.of)) THEN Changed
         ELSE LET described == Verified(ReadTag(answer.of), ReadDate(answer.of)) IN
              Streams(answer, srv.plan,
                    [status |-> 206, at |-> now, total |-> srv.meta.size,
                     tag |-> IF described THEN TagOf(srv.meta) ELSE None,
                     date |-> IF described THEN DateOf(srv.meta) ELSE None])
    BY DEF GetFirstPart, Before
<1> HIDE DEF asked0, answer0
<1>1. srv.meta # None /\ Known(srv.meta) /\ srv.plan # <<>> /\ SrvType
  <2>1. srv.meta # None /\ Len(srv.plan) > 1
      BY <1>c DEF SrvInv, PlanInv
  <2> QED BY <2>1, Fields DEF SrvInv, MetaInv
<1>2. asked \in Asked \cup {None}
    BY <1>a, <1>c, FirstAsked, RangeTypes
<1>3. CASE /\ answer # ObjectChanged /\ answer.kind = "found"
           /\ ServedSpanMatches(asked, answer.range)
           /\ Accepted(ReadTag(answer.of), ReadDate(answer.of))
  <2>1. PICK headers : headers = [status |-> 206, at |-> now, total |-> srv.meta.size,
             tag |-> IF Verified(ReadTag(answer.of), ReadDate(answer.of)) THEN TagOf(srv.meta) ELSE None,
             date |-> IF Verified(ReadTag(answer.of), ReadDate(answer.of)) THEN DateOf(srv.meta) ELSE None]
      BY ZenonT(60)
  <2>2. Streams(answer, srv.plan, headers) /\ headers.status = 206 /\ headers.at = now
      BY <1>c, <1>3, <2>1
  <2>3. store.adapter # "gcs" => object # None /\ answer.of = object
      BY <1>b, <1>1, <1>2, <1>3, GetPresent
  <2>4. /\ \/ object # None /\ answer.of = object
           \/ store.adapter = "gcs" /\ (headers.status = 200 => StrongTag(headers.tag))
      BY <2>2, <2>3, SMTT(60)
  <2> QED BY <1>c, <1>1, <2>2, <2>4, StreamsGoes
<1> QED BY <1>c, <1>3, ChangedGoes, RefusedGoes

\* Sending a piece changes only what was sent and where the request stands.
LEMMA DeliverShape ==
    ASSUME Deliver
    PROVE  \E out, whole : \E pc \in {"answered", "streaming", "parting"} :
              \/ srv' = [srv EXCEPT !.out = out, !.pc = pc]
              \/ srv' = [srv EXCEPT !.out = out, !.whole = whole, !.pc = pc]
<1> DEFINE more == Len(srv.out) + 1 < Len(srv.plan)
           next == IF ~more THEN "answered" ELSE IF Buffered(srv.plan) THEN "streaming"
                   ELSE "parting"
<1>1. PICK n : LET passed == Sends(Passed(n, Length(Part)))
               IN srv' = IF ~EndsWell(n, Length(Part))
                         THEN [srv EXCEPT !.out = passed, !.pc = "answered"]
                         ELSE [srv EXCEPT !.out = passed, !.whole = ~more, !.pc = next]
    BY DEF Deliver
<1>2. next \in {"answered", "streaming", "parting"}
    OBVIOUS
<1> DEFINE out == Sends(Passed(n, Length(Part)))
<1> HIDE DEF more, next
<1>3. \/ srv' = [srv EXCEPT !.out = out, !.pc = "answered"]
      \/ srv' = [srv EXCEPT !.out = out, !.whole = ~more, !.pc = next]
    BY <1>1
<1> DEFINE whole == ~more
<1> HIDE DEF out
<1>4. CASE srv' = [srv EXCEPT !.out = out, !.pc = "answered"]
  <2>1. "answered" \in {"answered", "streaming", "parting"}
      OBVIOUS
  <2> QED BY <1>4, <2>1
<1>5. CASE srv' = [srv EXCEPT !.out = out, !.whole = whole, !.pc = next]
  <2> HIDE DEF whole
  <2> QED BY <1>2, <1>5
<1> QED BY <1>3, <1>4, <1>5, ZenonT(60)

\* The object as it now is has no later version, of its date or of any other.
LEMMA PresentIsLast ==
    ASSUME WorldInv, object # None
    PROVE  LastOfDate(object)
<1>1. object.v = Len(versions) /\ versions \in Seq(Objects)
    BY DEF WorldInv
<1>2. \A i \in 1..Len(versions) : ~(i > Len(versions))
    BY <1>1
<1> QED BY <1>1, <1>2 DEF LastOfDate

\* A partial body begun for a resume is of the version that the client holds.
LEMMA BegunIsBase ==
    ASSUME WorldInv, SrvInv', HeldInv, store' = store, Begun, Asking, client.held # <<>>,
           srv.req.ifRange = ResumeWith, srv.req.ifRange # None,
           srv.pc = "getting" /\ srv.plan # <<>> => srv.meta = Base,
           srv'.headers.status = 206
    PROVE  srv'.first = Base
<1>1. /\ srv.meta = Base /\ srv'.meta = Base
      /\ (object # None /\ srv'.first = object) \/ store.adapter = "gcs"
    BY DEF Begun
<1>2. /\ client.held[1].v \in 1..Len(versions) /\ client.tag \in {None, TagOf(Base)}
      /\ store \in Stores
    BY DEF HeldInv, WorldInv
<1>3. Base \in Objects /\ Base # None
  <2>1. Base \in Objects
      BY <1>2 DEF WorldInv, Base
  <2> QED BY <2>1, VersionType
<1>4. srv'.first # None
    BY DEF SrvInv, FirstInv, Begun
<1>5. Alike(srv'.meta, srv'.first)
  <2>1. Alike(srv.meta, srv.first)'
      BY <1>1, <1>3, <1>4 DEF SrvInv, FirstInv
  <2> QED BY <2>1 DEF Alike, TagOf, RawTag, DateOf
<1>6. CASE store.tag # "none"
    BY <1>1, <1>5, <1>6 DEF Alike
<1>7. CASE store.tag = "none"
  <2>1. object # None /\ srv'.first = object
      BY <1>1, <1>2, <1>7, Kinds
  <2>2. ~StrongTag(client.tag)
    <3>1. TagOf(Base) = None \/ TagOf(Base).strong = FALSE
        BY <1>2, <1>3, <1>7, TagTypes DEF Weak
    <3> QED BY <1>2, <3>1 DEF StrongTag
  <2>3. client.sure
      BY <2>2 DEF ResumeWith, StrongTag
  <2>4. DateOf(Base) # None /\ LastOfDate(Base)
      BY <2>2, <2>3 DEF HeldInv
  <2>5. DateOf(object) = DateOf(Base)
      BY <1>1, <1>5, <2>1 DEF Alike
  <2> QED BY <1>2, <2>1, <2>4, <2>5, LastIsBase
<1> QED BY <1>6, <1>7

\* Sending a piece leaves what the resume rests on.
LEMMA DeliverGoes ==
    ASSUME WorldInv, SrvInv, Deliver
    PROVE  Goes
<1>1. PICK out, whole, pc :
         /\ pc \in {"answered", "streaming", "parting"}
         /\ \/ srv' = [srv EXCEPT !.out = out, !.pc = pc]
            \/ srv' = [srv EXCEPT !.out = out, !.whole = whole, !.pc = pc]
    BY DeliverShape, ZenonT(60)
<1>2. /\ srv'.pc = pc /\ srv'.headers = srv.headers /\ srv'.req = srv.req
      /\ srv'.meta = srv.meta /\ srv'.multi = srv.multi /\ srv'.plan = srv.plan
      /\ srv'.first = srv.first
    BY <1>1, Fields DEF SrvInv
<1>3. srv.pc = "streaming"
    BY DEF Deliver
<1> QED BY <1>1, <1>2, <1>3, SMTT(60) DEF Goes, Stays

\* The read of a later part leaves what the resume rests on.
LEMMA NextPartGoes ==
    ASSUME WorldInv, SrvInv, NEW mood, NextPart(mood)
    PROVE  Goes
<1>1. PICK answer : answer = StoreGet(srv.plan[Len(srv.out) + 1], mood)
    OBVIOUS
<1>2. /\ srv.pc = "parting"
      /\ \/ srv' = [srv EXCEPT !.pc = "streaming", !.reading = answer.source]
         \/ srv' = [srv EXCEPT !.pc = "answered"]
    BY <1>1 DEF NextPart
<1>3. /\ srv'.pc \in {"answered", "streaming"} /\ srv'.headers = srv.headers /\ srv'.req = srv.req
      /\ srv'.meta = srv.meta /\ srv'.multi = srv.multi /\ srv'.plan = srv.plan
      /\ srv'.first = srv.first
    BY <1>2, Fields DEF SrvInv
<1> QED BY <1>2, <1>3 DEF Goes, Stays

\* An overloaded store leaves what the resume rests on.
LEMMA ThrottleGoes ==
    ASSUME SrvInv, Throttle
    PROVE  Goes
<1>1. CASE Before /\ Refused(ClassifyStoreRead(503, S3Classifiers))
    BY <1>1, RefusedGoes
<1>2. CASE srv.pc = "parting" /\ srv' = [srv EXCEPT !.pc = "answered"]
  <2>1. /\ srv'.pc = "answered" /\ srv'.headers = srv.headers /\ srv'.req = srv.req
        /\ srv'.meta = srv.meta /\ srv'.multi = srv.multi /\ srv'.plan = srv.plan
        /\ srv'.first = srv.first
      BY <1>2, Fields DEF SrvInv
  <2> QED BY <1>2, <2>1 DEF Goes, Stays
<1> QED BY <1>1, <1>2 DEF Throttle, Before

\* Every step of serving a request leaves what the resume rests on.
LEMMA HandlesGoes ==
    ASSUME WorldInv, CacheInv, SrvInv, store.ttl = 0, Handles
    PROVE  Goes
BY HeadGoes, SpeculateGoes, GetObjectGoes, GetFirstPartGoes, NextPartGoes, MeasureGoes,
   OpenGoes, ThrottleGoes, DeliverGoes DEF Handles

\* Whatever the handler does, of a request for the rest of what the client holds
\* nothing but the version it holds is sent as a part.
LEMMA HandlesResume ==
    ASSUME IInv, IInv', ReplyInv, HeldInv, ResumeInv, store.ttl = 0, Handles
    PROVE  ReplyInv' /\ HeldInv' /\ ResumeInv'
<1>0. /\ WorldInv /\ CacheInv /\ SrvInv /\ ClientType /\ SrvInv' /\ now \in Nat
      /\ store \in Stores
  <2>1. WorldInv /\ CacheInv /\ SrvInv /\ ClientType /\ SrvInv'
      BY DEF IInv, SrvInv
  <2> QED BY <2>1, WebReadAssumption DEF WorldInv, WebReadAssumption
<1>1. Goes
    BY <1>0, HandlesGoes
<1>2. UNCHANGED <<store, now, object, versions, requests, client>>
    BY HandlesFrame DEF World
<1>3. /\ srv.pc # "idle" /\ srv'.pc # "idle" /\ srv'.req = srv.req
      /\ Stays \/ Refuses \/ Begun \/ Evaluates
    BY <1>1 DEF Goes
<1>4. HeldInv'
    BY <1>2 DEF HeldInv, Base, LastOfDate, TagOf, RawTag, DateOf
<1>5. /\ (\A o : LastOfDate(o)' <=> LastOfDate(o)) /\ Base' = Base
      /\ ResumeWith' = ResumeWith /\ (Asking' <=> Asking)
      /\ (\A o : TagOf(o)' = TagOf(o) /\ DateOf(o)' = DateOf(o))
    BY <1>2, <1>3 DEF LastOfDate, Base, ResumeWith, Asking, Resumed, TagOf, RawTag, DateOf
<1>6. requests # 0
    BY <1>3 DEF ReplyInv, Quiet
<1>7. Evaluates =>
         /\ srv'.first = None /\ srv'.meta = object /\ object # None
         /\ \/ /\ srv'.pc = "answered" /\ srv'.headers.at = now
               /\ srv'.multi = srv.multi /\ srv'.plan = srv.plan
            \/ /\ srv'.pc = "getting" /\ srv'.headers = srv.headers
               /\ srv'.plan # <<>> => IsRangeFresh(srv.req, TagOf(object), DateOf(object), now)
               /\ srv'.multi => Len(srv.req.specs) > 1
    BY <1>0, EvaluatedSays DEF Evaluates, SrvInv, NotYet, Before
<1>8. ReplyInv'
  <2>1. srv'.multi => Len(srv'.req.specs) > 1
    <3>1. srv.multi => Len(srv.req.specs) > 1
        BY DEF ReplyInv
    <3>2. CASE Stays \/ Begun
        BY <3>1, <3>2, <1>3 DEF Stays, Begun
    <3>3. CASE Refuses
        BY <3>1, <3>3, <1>3 DEF Refuses
    <3>4. CASE Evaluates
        BY <3>1, <3>4, <1>3, <1>7
    <3> QED BY <1>3, <3>2, <3>3, <3>4
  <2>2. srv'.headers.at <= now
    <3>1. srv.headers.at <= now
        BY DEF ReplyInv
    <3>2. CASE Stays \/ Begun
        BY <1>0, <3>1, <3>2 DEF Stays, Begun
    <3>3. CASE Refuses
        BY <1>0, <3>1, <3>3 DEF Refuses
    <3>4. CASE Evaluates
        BY <1>0, <3>1, <3>4, <1>7
    <3> QED BY <1>3, <3>2, <3>3, <3>4
  <2>3. ASSUME srv'.first # None, srv'.headers.status = 200, srv'.headers.date # None,
               srv'.headers.at > srv'.headers.date, ~StrongTag(srv'.headers.tag)
        PROVE  LastOfDate(srv'.first)
    <3>1. CASE Stays
        BY <2>3, <3>1 DEF Stays, ReplyInv
    <3>2. CASE Begun
      <4>1. object # None /\ srv'.first = object
          BY <2>3, <3>2 DEF Begun
      <4> QED BY <1>0, <4>1, PresentIsLast
    <3> QED BY <1>3, <1>7, <2>3, <3>1, <3>2 DEF Refuses
  <2> QED BY <1>2, <1>5, <1>6, <2>1, <2>2, <2>3 DEF ReplyInv
<1>9. ResumeInv'
  <2> SUFFICES ASSUME Asking
               PROVE  IF client.held = <<>> THEN client = Nothing
                      ELSE /\ srv'.req.ifRange = ResumeWith
                           /\ srv'.pc = "getting" /\ srv'.plan # <<>> => srv'.meta = Base
                           /\ srv'.headers.status = 206 => srv'.first = Base
      BY <1>2, <1>5 DEF ResumeInv
  <2>1. CASE client.held = <<>>
      BY <2>1 DEF ResumeInv
  <2>2. CASE client.held # <<>>
    <3>1. /\ srv.req.ifRange = ResumeWith /\ srv.req.ifRange # None
          /\ srv.pc = "getting" /\ srv.plan # <<>> => srv.meta = Base
          /\ srv.headers.status = 206 => srv.first = Base
        BY <2>2 DEF ResumeInv, Asking, Resumed
    <3>2. ASSUME srv'.pc = "getting", srv'.plan # <<>> PROVE srv'.meta = Base
      <4>1. CASE Stays
          BY <3>1, <3>2, <4>1 DEF Stays
      <4>2. CASE Evaluates
        <5>1. IsRangeFresh(srv.req, TagOf(object), DateOf(object), now) /\ object # None
              /\ srv'.meta = object
            BY <1>7, <3>2, <4>2
        <5> QED BY <1>0, <2>2, <3>1, <5>1, FreshIsBase
      <4> QED BY <1>3, <3>2, <4>1, <4>2 DEF Refuses, Begun
    <3>3. ASSUME srv'.headers.status = 206 PROVE srv'.first = Base
      <4>1. CASE Stays
          BY <3>1, <3>3, <4>1 DEF Stays
      <4>2. CASE Begun
          BY <1>0, <1>2, <1>5, <2>2, <3>1, <3>3, <4>2, BegunIsBase
      <4>3. CASE Evaluates
          BY <1>0, <1>7, <3>3, <4>3 DEF SrvInv, FirstInv
      <4> QED BY <1>3, <3>3, <4>1, <4>2, <4>3 DEF Refuses
    <3> QED BY <1>3, <2>2, <3>1, <3>2, <3>3
  <2> QED BY <2>1, <2>2
<1> QED BY <1>4, <1>8, <1>9

-------------------------------------------------------------------------------
(* The other steps                                                         *)

\* A version that was there before this second stays the last of its date.
LEMMA StaysLast ==
    ASSUME WorldInv, NEW size, NEW mtime \in 0..MaxTime, Replace(size, mtime), NEW o, Known(o),
           LastOfDate(o), o.mtime < now
    PROVE  LastOfDate(o)'
<1>0. PICK n \in Nat : n = Len(versions)
    BY DEF WorldInv
<1>1. /\ object' = [v |-> n + 1, size |-> size, mtime |-> mtime]
      /\ versions' = Append(versions, object')
      /\ mtime = now \/ (mtime < now /\ \A i \in DOMAIN versions : versions[i].mtime # mtime)
    BY <1>0 DEF Replace
<1>2. /\ Len(versions') = n + 1 /\ versions'[n + 1].mtime = mtime
      /\ \A i \in 1..n : versions'[i] = versions[i]
    BY <1>0, <1>1 DEF WorldInv
<1>3. o.v \in DOMAIN versions /\ versions[o.v].mtime = o.mtime
    BY DEF Known, WorldInv
<1>4. mtime # o.mtime
    BY <1>1, <1>3
<1> SUFFICES ASSUME NEW i \in 1..n + 1, i > o.v PROVE versions'[i].mtime # o.mtime
    BY <1>2 DEF LastOfDate
<1>5. CASE i = n + 1
    BY <1>2, <1>4, <1>5
<1>6. CASE i # n + 1
  <2>1. i \in 1..n
      BY <1>6
  <2> QED BY <1>0, <1>2, <2>1 DEF LastOfDate
<1> QED BY <1>5, <1>6

\* An overwrite keeps the invariant of the resume: a date that was older than its answer is not
\* the date of any later version.
LEMMA ReplaceResume ==
    ASSUME IInv, IInv', ReplyInv, HeldInv, ResumeInv,
           NEW size \in Sizes, NEW mtime \in 0..MaxTime, Replace(size, mtime)
    PROVE  ReplyInv' /\ HeldInv' /\ ResumeInv'
<1>0. /\ WorldInv /\ SrvInv /\ ClientType /\ now \in Nat /\ store \in Stores
  <2>1. WorldInv /\ SrvInv /\ ClientType
      BY DEF IInv, SrvInv
  <2> QED BY <2>1, WebReadAssumption DEF WorldInv, WebReadAssumption
<1>1. UNCHANGED <<store, now, cache, requests, srv, client>>
    BY DEF Replace
<1>2. (\A o : TagOf(o)' = TagOf(o) /\ DateOf(o)' = DateOf(o)) /\ ResumeWith' = ResumeWith
      /\ (Asking' <=> Asking)
    BY <1>1 DEF TagOf, RawTag, DateOf, ResumeWith, Asking, Resumed
<1>3. /\ \A i \in 1..Len(versions) : i \in 1..Len(versions') /\ versions'[i] = versions[i]
  <2>1. PICK n \in Nat : n = Len(versions)
      BY <1>0 DEF WorldInv
  <2>2. versions' = Append(versions, object')
      BY DEF Replace
  <2>3. Len(versions') = n + 1 /\ \A i \in 1..n : versions'[i] = versions[i]
      BY <1>0, <2>1, <2>2 DEF WorldInv
  <2> QED BY <2>1, <2>3
<1>4. client.held # <<>> =>
          /\ Base' = Base /\ client.held[1].v \in 1..Len(versions) /\ Known(Base)
          /\ Base \in Objects
    BY <1>0, <1>1, <1>3 DEF HeldInv, Base, WorldInv, Known
<1>5. ReplyInv'
  <2>1. ASSUME srv.first # None, srv.headers.status = 200, srv.headers.date # None,
               srv.headers.at > srv.headers.date, ~StrongTag(srv.headers.tag)
        PROVE  LastOfDate(srv.first)'
    <3>1. LastOfDate(srv.first) /\ srv.headers.at <= now
        BY <2>1 DEF ReplyInv
    <3>2. Known(srv.first) /\ srv.headers.date = DateOf(srv.first)
        BY <1>0, <2>1 DEF SrvInv, FirstInv
    <3>3. srv.headers.date = srv.first.mtime /\ srv.first.mtime \in Nat /\ srv.headers.at \in Nat
      <4>1. srv.headers.at \in Nat
          BY <1>0, Fields DEF SrvInv, Headers
      <4> QED BY <1>0, <2>1, <3>2, <4>1, TagTypes, VersionType, ZenonT(60) DEF Known
    <3>4. srv.first.mtime < now
        BY <1>0, <2>1, <3>1, <3>3
    <3>5. LastOfDate(srv.first) /\ Known(srv.first) /\ UNCHANGED srv
        BY <1>1, <3>1, <3>2
    <3>6. \A o : o = srv.first => (LastOfDate(o)')
        BY <1>0, <3>4, <3>5, StaysLast
    <3> QED BY <1>1, <3>6 DEF LastOfDate
  <2> QED BY <1>1, <2>1 DEF ReplyInv, LastOfDate
<1>6. HeldInv'
  <2>1. ASSUME client.held # <<>>, client.sure, ~StrongTag(client.tag)
        PROVE  LastOfDate(Base)'
    <3>1. LastOfDate(Base) /\ client.date # None /\ client.date < now /\ client.date = DateOf(Base)
        BY <2>1 DEF HeldInv
    <3>2. client.date = Base.mtime
        BY <1>0, <1>4, <2>1, <3>1, TagTypes
    <3>3. \A o : o = Base => (LastOfDate(o)')
        BY <1>0, <1>4, <2>1, <3>1, <3>2, StaysLast
    <3> QED BY <1>4, <2>1, <3>3 DEF LastOfDate
  <2> QED BY <1>1, <1>2, <1>3, <1>4, <2>1 DEF HeldInv
<1>7. ResumeInv'
  <2>1. client.held # <<>> => Base' = Base
      BY <1>4
  <2> QED BY <1>1, <1>2, <2>1 DEF ResumeInv
<1> QED BY <1>5, <1>6, <1>7

\* Time passes, and the object and the cache go: what the client has it keeps.
LEMMA WorldResume ==
    ASSUME WorldInv, SrvInv, ClientType, ReplyInv, HeldInv, ResumeInv,
           UNCHANGED <<store, versions, requests, srv, client>>, now' \in Nat, now <= now'
    PROVE  ReplyInv' /\ HeldInv' /\ ResumeInv'
<1>0. now \in Nat /\ srv.headers.at \in Nat /\ client.date \in Dates
    BY WebReadAssumption, Fields DEF WorldInv, WebReadAssumption, SrvInv, Headers, ClientType
<1>1. /\ (\A o : LastOfDate(o)' <=> LastOfDate(o)) /\ Base' = Base
      /\ ResumeWith' = ResumeWith /\ (Asking' <=> Asking)
      /\ (\A o : TagOf(o)' = TagOf(o) /\ DateOf(o)' = DateOf(o))
    BY DEF LastOfDate, Base, ResumeWith, Asking, Resumed, TagOf, RawTag, DateOf
<1>2. ReplyInv'
    BY <1>0, <1>1 DEF ReplyInv
<1>3. HeldInv'
  <2>1. client.sure => client.date < now'
    <3> SUFFICES ASSUME client.sure PROVE client.date < now'
        OBVIOUS
    <3>1. client.date # None /\ client.date < now
        BY DEF HeldInv
    <3> QED BY <1>0, <3>1 DEF Dates
  <2> QED BY <1>1, <2>1 DEF HeldInv
<1>4. ResumeInv'
    BY <1>1 DEF ResumeInv
<1> QED BY <1>2, <1>3, <1>4

\* A request for the rest of what is held names the version it is of.
LEMMA AskingResume ==
    ASSUME IInv, ReplyInv, HeldInv,
           Request(Plain) \/ Resume \/ \E req \in Probes : Probe(req)
    PROVE  ReplyInv' /\ HeldInv' /\ ResumeInv'
<1>0. requests \in Nat /\ MaxRequests \in Nat
    BY WebReadAssumption DEF IInv, WorldInv, WebReadAssumption
<1>1. PICK req : /\ Arrives(req)
                 /\ requests' = requests + 1 \/ requests' = MaxRequests
                 /\ \/ req = Plain
                    \/ client.held # <<>> /\ req.ifRange = ResumeWith
                    \/ requests = 0
  <2>1. CASE Request(Plain)
      BY <2>1 DEF Request
  <2>2. CASE Resume
    <3> DEFINE rest == [Plain EXCEPT !.specs = <<[first |-> Len(client.held), last |-> None]>>,
                                     !.ifRange = ResumeWith]
    <3>1. Request(rest) /\ client.held # <<>>
        BY <2>2 DEF Resume
    <3>2. rest.ifRange = ResumeWith
        BY DEF Plain
    <3> HIDE DEF rest
    <3> QED BY <3>1, <3>2 DEF Request
  <2>3. CASE \E req \in Probes : Probe(req)
      BY <2>3 DEF Probe
  <2> QED BY <2>1, <2>2, <2>3
<1>2. /\ srv'.req = req /\ srv'.headers = NoHeaders /\ srv'.first = None /\ srv'.multi = FALSE
      /\ srv'.plan = <<>>
    BY <1>1 DEF Arrives, Quiet
<1>3. UNCHANGED <<store, now, versions, client>> /\ requests < MaxRequests
    BY <1>1 DEF Arrives
<1>4. requests' # 0
    BY <1>0, <1>1, <1>3
<1>5. NoHeaders.status = 0 /\ NoHeaders.at = 0 /\ now \in Nat
    BY WebReadAssumption DEF NoHeaders, IInv, WorldInv, WebReadAssumption
<1>6. ReplyInv'
    BY <1>2, <1>3, <1>4, <1>5 DEF ReplyInv
<1>7. HeldInv'
    BY <1>3 DEF HeldInv, Base, LastOfDate, TagOf, RawTag, DateOf
<1>8. ResumeInv'
  <2>1. CASE req = Plain
      BY <1>2, <2>1 DEF ResumeInv, Asking, Resumed, Plain
  <2>2. CASE client.held # <<>> /\ req.ifRange = ResumeWith
      BY <1>2, <1>3, <1>5, <2>2 DEF ResumeInv, ResumeWith
  <2>3. CASE requests = 0
    <3>1. client = Nothing /\ client.held = <<>>
        BY <2>3 DEF ReplyInv, Nothing
    <3> QED BY <1>3, <3>1 DEF ResumeInv
  <2> QED BY <1>1, <2>1, <2>2, <2>3
<1> QED BY <1>6, <1>7, <1>8

\* The first part of an answer that is one.
LEMMA OutOne ==
    ASSUME IInv, ~srv.multi, srv.out # <<>>
    PROVE  /\ srv.first # None /\ Known(srv.first) /\ srv.out[1] \in Seq(Bytes)
           /\ \A j \in 1..Len(srv.out[1]) : /\ srv.out[1][j].v = srv.first.v
                                            /\ srv.out[1][j].pos = Begin(1) + j - 1
<1>1. SrvType /\ WorldInv /\ srv.first # None /\ Known(srv.first)
    BY DEF IInv, FirstInv
<1>2. 1 \in 1..Len(srv.out) /\ srv.out[1] \in Seq(Bytes)
    BY <1>1, Fields
<1>3. ASSUME NEW j \in 1..Len(srv.out[1])
      PROVE  srv.out[1][j].v = srv.first.v /\ srv.out[1][j].pos = Begin(1) + j - 1
  <2>1. /\ srv.out[1][j].v \in 1..Len(versions)
        /\ Mate(srv.multi, srv.first, versions[srv.out[1][j].v])
        /\ srv.out[1][j].pos = Begin(1) + j - 1
      BY <1>2, <1>3 DEF IInv, StreamInv, SentInv
  <2>2. srv.first = versions[srv.out[1][j].v]
      BY <2>1 DEF Mate
  <2>3. versions[srv.out[1][j].v].v = srv.out[1][j].v
      BY <1>1, <2>1 DEF WorldInv
  <2> QED BY <2>1, <2>2, <2>3
<1> QED BY <1>1, <1>2, <1>3

\* The elements of a concatenation are those of its two halves.
LEMMA Appended ==
    ASSUME NEW s \in Seq(Bytes), NEW t \in Seq(Bytes)
    PROVE  /\ s \o t \in Seq(Bytes)
           /\ \A i \in 1..Len(s) : (s \o t)[i] = s[i]
           /\ \A i \in 1..Len(s \o t) :
                 i \in 1..Len(s) \/ \E j \in 1..Len(t) : i = Len(s) + j /\ (s \o t)[i] = t[j]
<1>1. PICK m, n \in Nat : m = Len(s) /\ n = Len(t)
    OBVIOUS
<1>2. Len(s \o t) = m + n /\ s \o t \in Seq(Bytes)
    BY <1>1
<1>3. \A i \in 1..m : (s \o t)[i] = s[i]
    BY <1>1
<1>4. ASSUME NEW i \in 1..m + n, i \notin 1..m
      PROVE  \E j \in 1..n : i = m + j /\ (s \o t)[i] = t[j]
  <2>1. i - m \in 1..n /\ i = m + (i - m) /\ (s \o t)[i] = t[i - m]
      BY <1>1, <1>4
  <2> QED BY <2>1
<1> QED BY <1>1, <1>2, <1>3, <1>4

\* A client that adds what it was sent to what it holds still holds one version.
LEMMA TakeResume ==
    ASSUME IInv, ReplyInv, HeldInv, ResumeInv, Take
    PROVE  ReplyInv' /\ HeldInv' /\ ResumeInv'
<1>0. /\ WorldInv /\ SrvInv /\ ClientType /\ now \in Nat /\ store \in Stores
      /\ SrvType /\ srv.headers \in Headers
  <2>1. WorldInv /\ SrvInv /\ ClientType /\ SrvType
      BY DEF IInv, SrvInv
  <2> QED BY <2>1, Fields, WebReadAssumption DEF WorldInv, WebReadAssumption
<1>1. srv' = Quiet /\ UNCHANGED <<store, now, object, versions, requests, cache>> /\ srv.pc = "answered"
    BY DEF Take, Still, World
<1>2. requests # 0
    BY <1>1 DEF ReplyInv, Quiet
<1>3. ReplyInv'
  <2>1. /\ srv'.multi = FALSE /\ srv'.headers.at = 0 /\ srv'.first = None
      BY <1>1 DEF Quiet, NoHeaders
  <2> QED BY <1>0, <1>1, <1>2, <2>1 DEF ReplyInv
<1>4. ResumeInv'
    BY <1>1 DEF ResumeInv, Asking, Quiet
<1>5. /\ \A o : LastOfDate(o)' <=> LastOfDate(o)
      /\ \A o : TagOf(o)' = TagOf(o) /\ DateOf(o)' = DateOf(o)
    BY <1>1 DEF LastOfDate, TagOf, RawTag, DateOf
<1>6. CASE srv.headers.status = 200 /\ ~srv.req.head /\ srv.out # <<>>
  <2>1. srv.first # None /\ Known(srv.first) /\ srv.plan = <<>>
      BY <1>6 DEF IInv, FirstInv
  <2>2. ~srv.multi
    <3>1. Len(srv.plan) = 0
        BY <2>1
    <3> QED BY <3>1 DEF IInv, PlanInv
  <2>3. /\ srv.out[1] \in Seq(Bytes)
        /\ \A j \in 1..Len(srv.out[1]) : /\ srv.out[1][j].v = srv.first.v
                                         /\ srv.out[1][j].pos = Begin(1) + j - 1
      BY <1>6, <2>2, OutOne
  <2>4. Begin(1) = 0
      BY <2>1 DEF Begin
  <2>5. /\ client'.held = srv.out[1] /\ client'.tag = srv.headers.tag
        /\ client'.date = srv.headers.date
        /\ client'.sure = (srv.headers.date # None /\ srv.headers.at > srv.headers.date)
      BY <1>6 DEF Take
  <2>6. PICK n \in Nat : n = Len(srv.out[1])
      BY <2>3
  <2>7. \A i \in 1..n : srv.out[1][i].v = srv.out[1][1].v /\ srv.out[1][i].pos = i - 1
    <3> TAKE i \in 1..n
    <3>1. 1 \in 1..n
        OBVIOUS
    <3> QED BY <2>3, <2>4, <2>6, <3>1
  <2>8. ASSUME srv.headers.date # None, srv.headers.at > srv.headers.date
        PROVE  srv.headers.date < now
    <3>1. srv.headers.at <= now
        BY DEF ReplyInv
    <3>2. srv.headers.at \in Nat /\ srv.headers.date \in Nat
        BY <1>0, <2>8 DEF Headers, Dates
    <3> QED BY <1>0, <2>8, <3>1, <3>2
  <2>9. ASSUME srv.out[1] # <<>>
        PROVE  /\ srv.out[1][1].v \in 1..Len(versions)
               /\ versions[srv.out[1][1].v] = srv.first
    <3>1. 1 \in 1..n
        BY <2>3, <2>6, <2>9
    <3> QED BY <2>1, <2>3, <2>6, <3>1 DEF Known
  <2>10. /\ srv.headers.tag \in {None, TagOf(srv.first)}
         /\ srv.headers.date \in {None, DateOf(srv.first)}
      BY <2>1 DEF IInv, FirstInv
  <2>11. ASSUME srv.headers.date # None, srv.headers.at > srv.headers.date,
                ~StrongTag(srv.headers.tag)
         PROVE  LastOfDate(srv.first)
      BY <1>6, <2>1, <2>11 DEF ReplyInv
  <2>12. srv.out[1] # <<>> => Base' = srv.first
      BY <1>1, <2>5, <2>9 DEF Base
  <2>13. \A i \in 1..Len(client'.held) : /\ client'.held[i].v = client'.held[1].v
                                         /\ client'.held[i].pos = i - 1
      BY <2>5, <2>6, <2>7
  <2>14. client'.sure => client'.date # None /\ client'.date < now
      BY <2>5, <2>8
  <2>15. client'.held # <<>> =>
           /\ client'.held[1].v \in 1..Len(versions)
           /\ client'.tag \in {None, TagOf(srv.first)}
           /\ client'.sure => client'.date = DateOf(srv.first)
           /\ client'.sure /\ ~StrongTag(client'.tag) => LastOfDate(srv.first)
      BY <2>5, <2>9, <2>10, <2>11
  <2>16. HeldInv'
      BY <1>1, <1>5, <2>5, <2>12, <2>13, <2>14, <2>15 DEF HeldInv
  <2> QED BY <1>3, <1>4, <2>16
<1>7. CASE /\ ~(srv.headers.status = 200 /\ ~srv.req.head /\ srv.out # <<>>)
           /\ srv.headers.status = 206 /\ Resumed /\ srv.plan[1].start = Len(client.held)
  <2>1. /\ client' = [client EXCEPT !.held = client.held \o srv.out[1]]
        /\ client.held \in Seq(Bytes) /\ Asking
      BY <1>0, <1>1, <1>7 DEF Take, ClientType, Asking
  <2>2. /\ client'.held = client.held \o srv.out[1] /\ client'.tag = client.tag
        /\ client'.date = client.date /\ client'.sure = client.sure
      BY <1>0, <2>1 DEF ClientType
  <2>3. /\ srv.first # None /\ srv.out # <<>> /\ srv.plan # <<>>
    <3>1. srv.first # None
        BY <1>7 DEF IInv, FirstInv
    <3>2. srv.headers.status = IF srv.plan = <<>> THEN 200 ELSE 206
        BY <3>1 DEF IInv, FirstInv
    <3> QED BY <1>1, <1>7, <3>1, <3>2 DEF IInv, FirstInv
  <2>4. ~srv.multi
      BY <1>7 DEF ReplyInv, Resumed
  <2>5. /\ srv.out[1] \in Seq(Bytes) /\ Known(srv.first)
        /\ \A j \in 1..Len(srv.out[1]) : /\ srv.out[1][j].v = srv.first.v
                                         /\ srv.out[1][j].pos = Begin(1) + j - 1
      BY <2>3, <2>4, OutOne
  <2>6. Begin(1) = Len(client.held)
      BY <1>7, <2>3 DEF Begin
  <2>7. PICK m, n \in Nat : m = Len(client.held) /\ n = Len(srv.out[1])
      BY <2>1, <2>5, SMTT(60)
  <2>8. CASE client.held = <<>>
    <3>1. client = Nothing /\ m = 0
        BY <2>1, <2>7, <2>8 DEF ResumeInv
    <3>2. client'.held = srv.out[1] /\ client'.tag = None /\ client'.sure = FALSE
        BY <2>2, <2>5, <2>8, <3>1 DEF Nothing
    <3>3. \A i \in 1..n : srv.out[1][i].v = srv.out[1][1].v /\ srv.out[1][i].pos = i - 1
      <4> TAKE i \in 1..n
      <4>1. 1 \in 1..n
          OBVIOUS
      <4> QED BY <2>5, <2>6, <2>7, <3>1, <4>1
    <3>4. srv.out[1] # <<>> => srv.out[1][1].v \in 1..Len(versions)
      <4> SUFFICES ASSUME srv.out[1] # <<>> PROVE srv.out[1][1].v \in 1..Len(versions)
          OBVIOUS
      <4>1. 1 \in 1..n
          BY <2>5, <2>7
      <4> QED BY <2>5, <2>7, <4>1 DEF Known
    <3>5. HeldInv'
        BY <1>1, <2>7, <3>2, <3>3, <3>4 DEF HeldInv
    <3> QED BY <1>3, <1>4, <3>5
  <2>9. CASE client.held # <<>>
    <3>1. /\ srv.first = Base /\ client.held[1].v \in 1..Len(versions)
          /\ 1 \in 1..m
        BY <1>7, <2>1, <2>7, <2>9 DEF ResumeInv, HeldInv
    <3>2. Base.v = client.held[1].v
        BY <1>0, <3>1 DEF Base, WorldInv
    <3>3. PICK held : held = client.held \o srv.out[1]
        OBVIOUS
    <3>4. /\ held \in Seq(Bytes) /\ held # <<>>
          /\ \A i \in 1..m : held[i] = client.held[i]
          /\ \A i \in 1..Len(held) :
                i \in 1..m \/ \E j \in 1..n : i = m + j /\ held[i] = srv.out[1][j]
      <4>1. /\ held \in Seq(Bytes)
            /\ \A i \in 1..Len(client.held) : held[i] = client.held[i]
            /\ \A i \in 1..Len(held) :
                  \/ i \in 1..Len(client.held)
                  \/ \E j \in 1..Len(srv.out[1]) :
                        i = Len(client.held) + j /\ held[i] = srv.out[1][j]
          BY <2>1, <2>5, <3>3, Appended, ZenonT(60)
      <4>2. held # <<>>
          BY <2>1, <2>5, <2>9, <3>3
      <4> QED BY <2>7, <4>1, <4>2
    <3>5. ASSUME NEW i \in 1..Len(held)
          PROVE  held[i].v = held[1].v /\ held[i].pos = i - 1
      <4>1. CASE i \in 1..m
          BY <2>7, <3>1, <3>4, <4>1 DEF HeldInv
      <4>2. CASE \E j \in 1..n : i = m + j /\ held[i] = srv.out[1][j]
        <5>1. PICK j \in 1..n : i = m + j /\ held[i] = srv.out[1][j]
            BY <4>2
        <5>2. held[i].v = Base.v /\ held[i].pos = m + j - 1
            BY <2>5, <2>6, <2>7, <3>1, <5>1
        <5>3. held[1] = client.held[1]
            BY <3>1, <3>4
        <5> QED BY <3>2, <5>1, <5>2, <5>3
      <4> QED BY <3>4, <4>1, <4>2
    <3>6. client'.held = held /\ held[1] = client.held[1]
        BY <2>2, <3>1, <3>3, <3>4
    <3>7. Base' = Base
        BY <1>1, <3>6 DEF Base
    <3>8. HeldInv'
        BY <1>1, <1>5, <2>2, <2>9, <3>4, <3>5, <3>6, <3>7 DEF HeldInv
    <3> QED BY <1>3, <1>4, <3>8
  <2> QED BY <2>8, <2>9
<1>8. CASE /\ ~(srv.headers.status = 200 /\ ~srv.req.head /\ srv.out # <<>>)
           /\ ~(srv.headers.status = 206 /\ Resumed /\ srv.plan[1].start = Len(client.held))
  <2>1. client' = client
      BY <1>8 DEF Take
  <2>2. HeldInv'
      BY <1>1, <1>5, <2>1 DEF HeldInv, Base
  <2> QED BY <1>3, <1>4, <2>2
<1> QED BY <1>6, <1>7, <1>8

\* The invariant of the resume is inductive, given the invariant of the request.
LEMMA CSteps ==
    ASSUME IInv, IInv', CInv, [Next]_vars
    PROVE  CInv'
<1>0. WorldInv /\ CacheInv /\ SrvInv /\ ClientType /\ now \in Nat
  <2>1. WorldInv /\ CacheInv /\ SrvInv /\ ClientType
      BY DEF IInv, SrvInv
  <2> QED BY <2>1, WebReadAssumption, SMTT(60) DEF WorldInv, WebReadAssumption
<1>a. store' = store
  <2>1. Handles => store' = store
      BY HandlesFrame DEF World
  <2> QED BY <2>1 DEF Next, Handles, vars, Replace, Delete, Tick, WriteBack, Evict, Request,
             Resume, Probe, Arrives, Take, Still, World
<1> SUFFICES ASSUME store.ttl = 0, ReplyInv, HeldInv, ResumeInv
             PROVE  ReplyInv' /\ HeldInv' /\ ResumeInv'
    BY <1>a DEF CInv
<1>1. CASE UNCHANGED vars
    BY <1>0, <1>1, WorldResume DEF vars
<1>2. CASE \E size \in Sizes, mtime \in 0..MaxTime : Replace(size, mtime)
    BY <1>2, ReplaceResume
<1>3. CASE \/ Delete \/ Tick \/ Evict
           \/ \E i \in DOMAIN versions, body \in BOOLEAN : WriteBack(versions[i], body)
  <2>1. UNCHANGED <<store, versions, requests, srv, client>>
      BY <1>3 DEF Delete, Tick, Evict, WriteBack, World
  <2>2. now' = now \/ now' = now + 1
      BY <1>3 DEF Delete, Tick, Evict, WriteBack, World
  <2>3. now' \in Nat /\ now <= now'
      BY <1>0, <2>2
  <2> QED BY <1>0, <2>1, <2>3, WorldResume
<1>4. CASE Request(Plain) \/ Resume \/ \E req \in Probes : Probe(req)
    BY <1>4, AskingResume
<1>5. CASE Handles
    BY <1>5, HandlesResume
<1>6. CASE Take
    BY <1>6, TakeResume
<1> QED BY <1>1, <1>2, <1>3, <1>4, <1>5, <1>6 DEF Next, Handles

\* The invariant of the resume holds at the start.
LEMMA CBegins ==
    ASSUME Init
    PROVE  CInv
<1>1. client = Nothing /\ srv = Quiet /\ now = 0 /\ versions = <<>>
    BY DEF Init
<1>2. /\ Quiet.multi = FALSE /\ Quiet.headers.at = 0 /\ Quiet.first = None /\ Quiet.pc = "idle"
      /\ Nothing.held = <<>> /\ Nothing.sure = FALSE
    BY DEF Quiet, NoHeaders, Nothing
<1>3. ReplyInv
    BY <1>1, <1>2 DEF ReplyInv
<1>4. HeldInv
    BY <1>1, <1>2 DEF HeldInv
<1>5. ResumeInv
    BY <1>1, <1>2 DEF ResumeInv, Asking
<1> QED BY <1>3, <1>4, <1>5 DEF CInv

\* Appending what a broken download's If-Range requests bring assembles one
\* version, of any store that is read without fsStore's cache.
THEOREM ResumesAssembleOne == Spec => []ResumeAssemblesOne
<1>1. Init => IInv /\ CInv
    BY Begins, CBegins
<1>2. IInv /\ CInv /\ [Next]_vars => (IInv /\ CInv)'
    BY Steps, CSteps
<1>3. IInv /\ CInv => ResumeAssemblesOne
  <2> SUFFICES ASSUME ClientType, HeldInv, NEW i \in DOMAIN client.held
               PROVE  client.held[i] = [v |-> client.held[1].v, pos |-> i - 1]
      BY DEF IInv, CInv, ResumeAssemblesOne
  <2>1. i \in 1..Len(client.held) /\ client.held[i] \in Bytes
      BY DEF ClientType
  <2>2. client.held[i] = [v |-> client.held[i].v, pos |-> client.held[i].pos]
      BY <2>1 DEF Bytes
  <2> QED BY <2>1, <2>2 DEF HeldInv
<1> QED BY <1>1, <1>2, <1>3, PTL DEF Spec
===============================================================================
