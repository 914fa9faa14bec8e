-------------------------- MODULE PublishingProofs --------------------------
(***************************************************************************)
(* Proofs about Publishing: the routing table after any number of          *)
(* registrations, and the extremes after any number of fetches by any      *)
(* number of workers.                                                      *)
(***************************************************************************)
EXTENDS Publishing, WellFoundedInduction, SequenceTheorems, FiniteSetTheorems, TLAPS

\* A set of naturals that is not empty has a least element.
LEMMA LeastElement ==
  ASSUME NEW S \in SUBSET Nat, S # {}
  PROVE  Min(S) \in S /\ \A k \in S : Min(S) <= k
<1> DEFINE R == OpToRel(<, Nat)
<1>1. \E x \in S : \A y \in S : ~(<<y, x>> \in R)
  BY NatLessThanWellFounded, WFMin, Zenon
<1>2. PICK x \in S : \A y \in S : ~(<<y, x>> \in R)
  BY <1>1, Zenon
<1>3. \A y \in S : y < x => <<y, x>> \in R
  BY DEF OpToRel
<1>4. \A y \in S : ~(y < x)
  BY <1>2, <1>3, Zenon
<1>5. \A y \in S : x <= y
  BY <1>4
<1> QED  BY <1>5, Zenon DEF Min

\* The entry of the slice with index i, and what the loops look for.
LEMMA FirstIndex ==
  ASSUME NEW n \in Nat, NEW S \in SUBSET (1..n), S # {}
  PROVE  Min(S) \in S /\ Min(S) \in 1..n /\ \A k \in S : Min(S) <= k
<1>1. S \in SUBSET Nat
  OBVIOUS
<1> QED  BY <1>1, LeastElement, Zenon

\* RemoveAt and InsertAt, index by index.
LEMMA RemoveAtIndices ==
  ASSUME NEW S, NEW s \in Seq(S), NEW i \in 1..Len(s)
  PROVE  /\ RemoveAt(s, i) \in Seq(S)
         /\ Len(RemoveAt(s, i)) = Len(s) - 1
         /\ \A k \in 1..(Len(s) - 1) : RemoveAt(s, i)[k] = IF k < i THEN s[k] ELSE s[k+1]
<1> DEFINE a == SubSeq(s, 1, i-1)
           b == SubSeq(s, i+1, Len(s))
<1>1. a \in Seq(S) /\ Len(a) = i - 1 /\ \A k \in 1..(i-1) : a[k] = s[k]
  OBVIOUS
<1>2. b \in Seq(S) /\ Len(b) = Len(s) - i /\ \A k \in 1..(Len(s)-i) : b[k] = s[k+i]
  OBVIOUS
<1> HIDE DEF a, b
<1>3. /\ a \o b \in Seq(S)
      /\ Len(a \o b) = Len(a) + Len(b)
      /\ \A k \in 1..(Len(a) + Len(b)) :
           (a \o b)[k] = IF k <= Len(a) THEN a[k] ELSE b[k - Len(a)]
  BY <1>1, <1>2, ConcatProperties, Zenon
<1>4. \A k \in 1..(Len(s) - 1) : (a \o b)[k] = IF k < i THEN s[k] ELSE s[k+1]
  <2> SUFFICES ASSUME NEW k \in 1..(Len(s) - 1)
               PROVE  (a \o b)[k] = IF k < i THEN s[k] ELSE s[k+1]
    BY Zenon
  <2> HIDE DEF a, b
  <2>1. (a \o b)[k] = IF k < i THEN a[k] ELSE b[k - (i-1)]
    BY <1>1, <1>2, <1>3, SMTT(30), Z3T(30)
  <2> QED  BY <2>1, <1>1, <1>2, SMTT(30), Z3T(30)
<1>5. Len(a \o b) = Len(s) - 1
  BY <1>1, <1>2, <1>3
<1> QED  BY <1>3, <1>4, <1>5, Zenon DEF RemoveAt, a, b

LEMMA InsertAtIndices ==
  ASSUME NEW S, NEW s \in Seq(S), NEW i \in 1..Len(s), NEW e \in S
  PROVE  /\ InsertAt(s, i, e) \in Seq(S)
         /\ Len(InsertAt(s, i, e)) = Len(s) + 1
         /\ \A k \in 1..(Len(s) + 1) :
              InsertAt(s, i, e)[k] = IF k < i THEN s[k] ELSE IF k = i THEN e ELSE s[k-1]
<1> DEFINE a == SubSeq(s, 1, i - 1)
           b == SubSeq(s, i, Len(s))
           m == a \o <<e>>
<1>1. a \in Seq(S) /\ Len(a) = i - 1 /\ \A k \in 1..(i-1) : a[k] = s[k]
  OBVIOUS
<1>2. /\ b \in Seq(S)
      /\ Len(b) = Len(s) - i + 1
      /\ \A k \in 1..(Len(s) - i + 1) : b[k] = s[k + i - 1]
  OBVIOUS
<1> HIDE DEF a, b
<1>3. /\ m \in Seq(S)
      /\ Len(m) = i
      /\ \A k \in 1..i : m[k] = IF k < i THEN s[k] ELSE e
  BY <1>1
<1> HIDE DEF m
<1>4. /\ m \o b \in Seq(S)
      /\ Len(m \o b) = Len(m) + Len(b)
      /\ \A k \in 1..(Len(m) + Len(b)) :
           (m \o b)[k] = IF k <= Len(m) THEN m[k] ELSE b[k - Len(m)]
  BY <1>2, <1>3, ConcatProperties, Zenon
<1>5. Len(m \o b) = Len(s) + 1
  BY <1>2, <1>3, <1>4
<1>6. ASSUME NEW k \in 1..(Len(s) + 1)
      PROVE  (m \o b)[k] = IF k < i THEN s[k] ELSE IF k = i THEN e ELSE s[k-1]
  <2>1. (m \o b)[k] = IF k <= i THEN m[k] ELSE b[k - i]
    BY <1>2, <1>3, <1>4, SMTT(30), Z3T(30)
  <2>2. k > i => k - i \in 1..(Len(s) - i + 1) /\ k - i + i - 1 = k - 1
    OBVIOUS
  <2> QED
    BY <2>1, <2>2, <1>2, <1>3, SMT, Z3, Zenon
<1>7. InsertAt(s, i, e) = m \o b
  BY DEF InsertAt, m, a, b
<1> QED
  BY <1>4, <1>5, <1>6, <1>7, Zenon

-----------------------------------------------------------------------------
(* The routing table *)

\* Longer prefixes come first, and no prefix comes twice.
Ordered(s) ==
  \A i, j \in 1..Len(s) : i < j => /\ Len(s[i].prefix) >= Len(s[j].prefix)
                                   /\ s[i].prefix # s[j].prefix

\* The slice holds exactly what was registered last for each prefix.
Current ==
  /\ \A i \in 1..Len(prefixes) : prefixes[i].queueURL = registered[prefixes[i].prefix]
  /\ \A p \in Patterns : registered[p] # NoQueue
                            => \E i \in 1..Len(prefixes) : prefixes[i].prefix = p

RouterInv == RouterTypeOK /\ Ordered(prefixes) /\ Current

\* Every prefix has a length.
LEMMA PrefixLength ==
  ASSUME NEW r \in PrefixRoute
  PROVE  r.prefix \in Patterns /\ r.queueURL \in Queues /\ Len(r.prefix) \in Nat
<1>1. r.prefix \in Patterns /\ r.queueURL \in Queues
  BY DEF PrefixRoute
<1>2. r.prefix \in Seq(STRING)
  BY <1>1, RouterAssumption DEF RouterAssumption, Strings
<1> QED  BY <1>1, <1>2, LenProperties

\* Removing the entry of a prefix leaves the others, in order.
LEMMA WithoutIsOrdered ==
  ASSUME prefixes \in Seq(PrefixRoute), Ordered(prefixes), NEW p \in Patterns
  PROVE  /\ Without(p) \in Seq(PrefixRoute)
         /\ Ordered(Without(p))
         /\ \A k \in 1..Len(Without(p)) :
              /\ Without(p)[k].prefix # p
              /\ \E i \in 1..Len(prefixes) : Without(p)[k] = prefixes[i]
         /\ \A i \in 1..Len(prefixes) : prefixes[i].prefix # p
              => \E k \in 1..Len(Without(p)) : Without(p)[k] = prefixes[i]
<1> DEFINE I == {i \in 1..Len(prefixes) : prefixes[i].prefix = p}
           n == Len(prefixes)
<1>0. n \in Nat
  BY LenProperties
<1>1. CASE I = {}
  <2>1. Without(p) = prefixes
    BY <1>1 DEF Without, SelectInSeq
  <2> QED  BY <1>1, <2>1
<1>2. CASE I # {}
  <2> DEFINE i == Min(I)
             s == RemoveAt(prefixes, i)
  <2>1. i \in I /\ i \in 1..n
    BY <1>0, <1>2, FirstIndex, ZenonT(30)
  <2>2. Without(p) = s
    BY <1>2, <2>1 DEF Without, SelectInSeq
  <2>3. /\ s \in Seq(PrefixRoute)
        /\ Len(s) = n - 1
        /\ \A k \in 1..(n - 1) : s[k] = IF k < i THEN prefixes[k] ELSE prefixes[k+1]
    BY <2>1, RemoveAtIndices, Zenon
  <2> DEFINE at(k) == IF k < i THEN k ELSE k + 1
  <2> HIDE DEF s, i
  <2>4. \A k \in 1..Len(s) : at(k) \in 1..n /\ at(k) # i /\ s[k] = prefixes[at(k)]
    BY <1>0, <2>1, <2>3
  <2>5. \A k, l \in 1..Len(s) : k < l => at(k) < at(l)
    BY <1>0, <2>1, <2>3
  <2> HIDE DEF at
  <2>6. Ordered(s)
    BY <2>4, <2>5 DEF Ordered
  <2>7. \A j \in 1..n : j # i => prefixes[j].prefix # p
    BY <2>1 DEF Ordered
  <2>8. ASSUME NEW j \in 1..n, prefixes[j].prefix # p
        PROVE  \E k \in 1..Len(s) : s[k] = prefixes[j]
    <3>1. j # i
      BY <2>1, <2>8
    <3>2. CASE j < i
      BY <3>2, <1>0, <2>1, <2>3, SMT, Z3, Zenon
    <3>3. CASE j > i
      <4>1. j - 1 \in 1..Len(s) /\ s[j - 1] = prefixes[j]
        BY <3>3, <1>0, <2>1, <2>3, SMTT(30), Z3T(30)
      <4> QED  BY <4>1
    <3> QED  BY <3>1, <3>2, <3>3, <2>1, <1>0, SMTT(30), Z3T(30)
  <2> QED  BY <2>2, <2>3, <2>4, <2>6, <2>7, <2>8, SMTT(30), Z3T(30)
<1> QED  BY <1>1, <1>2

\* Inserting a new prefix keeps the order and the other entries.
LEMMA InsertIsOrdered ==
  ASSUME NEW s \in Seq(PrefixRoute), Ordered(s), NEW r \in PrefixRoute,
         \A k \in 1..Len(s) : s[k].prefix # r.prefix
  PROVE  /\ Insert(s, r) \in Seq(PrefixRoute)
         /\ Ordered(Insert(s, r))
         /\ \E j \in 1..Len(Insert(s, r)) : Insert(s, r)[j] = r
         /\ \A j \in 1..Len(Insert(s, r)) :
              Insert(s, r)[j] = r \/ \E k \in 1..Len(s) : Insert(s, r)[j] = s[k]
         /\ \A k \in 1..Len(s) : \E j \in 1..Len(Insert(s, r)) : Insert(s, r)[j] = s[k]
<1> DEFINE n == Len(s)
           I == {k \in 1..n : Len(r.prefix) > Len(s[k].prefix)}
<1>0. n \in Nat /\ \A k \in 1..n : s[k] \in PrefixRoute
  BY LenProperties, ElementOfSeq
<1>a. Len(r.prefix) \in Nat /\ \A k \in 1..n : Len(s[k].prefix) \in Nat
  BY <1>0, PrefixLength
<1>1. CASE I = {}
  <2> DEFINE t == Append(s, r)
  <2>1. Insert(s, r) = t
    BY <1>1 DEF Insert, SelectInSeq
  <2>2. /\ t \in Seq(PrefixRoute)
        /\ Len(t) = n + 1
        /\ \A k \in 1..n : t[k] = s[k]
        /\ t[n + 1] = r
    BY AppendProperties
  <2>3. \A k \in 1..n : Len(s[k].prefix) >= Len(r.prefix)
    BY <1>1, <1>a, SMT, Z3, Zenon
  <2> HIDE DEF t
  <2>4. Ordered(t)
    <3> SUFFICES ASSUME NEW i \in 1..(n+1), NEW j \in 1..(n+1), i < j
                 PROVE  Len(t[i].prefix) >= Len(t[j].prefix) /\ t[i].prefix # t[j].prefix
      BY <2>2 DEF Ordered
    <3>1. i \in 1..n /\ t[i] = s[i]
      BY <1>0, <2>2, SMT, Z3, Zenon
    <3>2. CASE j \in 1..n
      BY <3>1, <3>2, <2>2, SMT, Z3, Zenon DEF Ordered
    <3>3. CASE j = n + 1
      BY <3>1, <3>3, <2>2, <2>3, SMT, Z3, Zenon
    <3> QED  BY <3>2, <3>3, <1>0, SMT, Z3, Zenon
  <2>5. \A j \in 1..Len(t) : t[j] = r \/ \E k \in 1..n : t[j] = s[k]
    BY <1>0, <2>2
  <2>6. n + 1 \in 1..Len(t) /\ \A k \in 1..n : k \in 1..Len(t)
    BY <1>0, <2>2
  <2> QED  BY <2>1, <2>2, <2>4, <2>5, <2>6, ZenonT(30)
<1>2. CASE I # {}
  <2> DEFINE i == Min(I)
             t == InsertAt(s, i, r)
  <2>1. i \in I /\ i \in 1..n /\ \A k \in I : i <= k
    BY <1>0, <1>2, FirstIndex, Zenon
  <2>2. Insert(s, r) = t
    BY <1>2, <2>1, SMT, Z3, Zenon DEF Insert, SelectInSeq
  <2> HIDE DEF i
  <2>3. /\ t \in Seq(PrefixRoute)
        /\ Len(t) = n + 1
        /\ \A k \in 1..(n + 1) :
             t[k] = IF k < i THEN s[k] ELSE IF k = i THEN r ELSE s[k-1]
    <3>1. i \in 1..Len(s)
      BY <2>1
    <3> QED  BY <3>1, InsertAtIndices, SMT, Z3, Zenon
  <2>4. \A k \in 1..n : k < i => Len(s[k].prefix) >= Len(r.prefix)
    BY <2>1, <1>a, SMT, Z3, Zenon
  <2>5. \A k \in 1..n : k >= i => Len(r.prefix) >= Len(s[k].prefix)
    <3> SUFFICES ASSUME NEW k \in 1..n, k >= i
                 PROVE  Len(r.prefix) >= Len(s[k].prefix)
      OBVIOUS
    <3>1. Len(s[i].prefix) >= Len(s[k].prefix)
      BY <2>1, <1>a, SMT, Z3, Zenon DEF Ordered
    <3> QED  BY <3>1, <2>1, <1>a, SMT, Z3, Zenon
  <2> HIDE DEF t
  <2>6. Ordered(t)
    <3> SUFFICES ASSUME NEW k \in 1..(n+1), NEW l \in 1..(n+1), k < l
                 PROVE  Len(t[k].prefix) >= Len(t[l].prefix) /\ t[k].prefix # t[l].prefix
      BY <2>3 DEF Ordered
    <3>1. CASE l < i
      <4>1. k \in 1..n /\ l \in 1..n /\ t[k] = s[k] /\ t[l] = s[l]
        BY <3>1, <1>0, <2>1, <2>3, SMT, Z3, Zenon
      <4> QED  BY <4>1 DEF Ordered
    <3>2. CASE l = i
      <4>1. k \in 1..n /\ k < i /\ t[k] = s[k] /\ t[l] = r
        BY <3>2, <1>0, <2>1, <2>3, SMT, Z3, Zenon
      <4> QED  BY <4>1, <2>4
    <3>3. CASE l > i /\ k < i
      <4>1. k \in 1..n /\ l - 1 \in 1..n /\ k < l - 1 /\ t[k] = s[k] /\ t[l] = s[l - 1]
        BY <3>3, <1>0, <2>1, <2>3, SMT, Z3, Zenon
      <4> QED  BY <4>1 DEF Ordered
    <3>4. CASE l > i /\ k = i
      <4>1. l - 1 \in 1..n /\ l - 1 >= i /\ t[k] = r /\ t[l] = s[l - 1]
        BY <3>4, <1>0, <2>1, <2>3, SMT, Z3, Zenon
      <4> QED  BY <4>1, <2>5, SMT, Z3, Zenon
    <3>5. CASE k > i
      <4>1. /\ k - 1 \in 1..n /\ l - 1 \in 1..n /\ k - 1 < l - 1
            /\ t[k] = s[k - 1] /\ t[l] = s[l - 1]
        BY <3>5, <1>0, <2>1, <2>3, SMT, Z3, Zenon
      <4> QED  BY <4>1, SMT, Z3, Zenon DEF Ordered
    <3> QED  BY <3>1, <3>2, <3>3, <3>4, <3>5, <1>0, <2>1, SMTT(30), Z3T(30)
  <2>7. \A j \in 1..Len(t) : t[j] = r \/ \E k \in 1..n : t[j] = s[k]
    <3> SUFFICES ASSUME NEW j \in 1..(n+1), j # i
                 PROVE  \E k \in 1..n : t[j] = s[k]
      BY <2>3, SMT, Z3, Zenon
    <3>1. CASE j < i
      BY <3>1, <1>0, <2>1, <2>3, SMT, Z3, Zenon
    <3>2. CASE j > i
      <4>1. j - 1 \in 1..n /\ t[j] = s[j - 1]
        BY <3>2, <1>0, <2>1, <2>3, SMTT(30), Z3T(30)
      <4> QED  BY <4>1
    <3> QED  BY <3>1, <3>2, <1>0, <2>1, SMT, Z3, Zenon
  <2>8. i \in 1..Len(t) /\ t[i] = r
    BY <1>0, <2>1, <2>3, SMT, Z3, Zenon
  <2>9. \A k \in 1..n : \E j \in 1..Len(t) : t[j] = s[k]
    <3> SUFFICES ASSUME NEW k \in 1..n PROVE \E j \in 1..Len(t) : t[j] = s[k]
      OBVIOUS
    <3>1. CASE k < i
      BY <3>1, <1>0, <2>1, <2>3, SMT, Z3, Zenon
    <3>2. CASE k >= i
      <4>1. k + 1 \in 1..Len(t) /\ t[k + 1] = s[k]
        BY <3>2, <1>0, <2>1, <2>3, SMT, Z3, Zenon
      <4> QED  BY <4>1
    <3> QED  BY <3>1, <3>2, <1>0, <2>1, SMT, Z3, Zenon
  <2> QED  BY <2>2, <2>3, <2>6, <2>7, <2>8, <2>9, ZenonT(30)
<1> QED  BY <1>1, <1>2

\* A registration keeps the table ordered and current.
LEMMA RegisterPrefixStep ==
  ASSUME RouterInv, NEW p \in Patterns, NEW q \in Queues, RegisterPrefix(p, q)
  PROVE  RouterInv'
<1> DEFINE r == [prefix |-> p, queueURL |-> q]
           s == Without(p)
           t == Insert(s, r)
<1>0. prefixes \in Seq(PrefixRoute) /\ Ordered(prefixes) /\ Current
  BY DEF RouterInv, RouterTypeOK
<1>1. r \in PrefixRoute /\ r.prefix = p /\ r.queueURL = q
  BY DEF PrefixRoute
<1>2. /\ s \in Seq(PrefixRoute)
      /\ Ordered(s)
      /\ \A k \in 1..Len(s) : /\ s[k].prefix # p
                              /\ \E i \in 1..Len(prefixes) : s[k] = prefixes[i]
      /\ \A i \in 1..Len(prefixes) : prefixes[i].prefix # p
           => \E k \in 1..Len(s) : s[k] = prefixes[i]
  BY <1>0, WithoutIsOrdered, SMT, Z3, Zenon
<1> HIDE DEF r, s
<1>3. /\ t \in Seq(PrefixRoute)
      /\ Ordered(t)
      /\ \E j \in 1..Len(t) : t[j] = r
      /\ \A j \in 1..Len(t) : t[j] = r \/ \E k \in 1..Len(s) : t[j] = s[k]
      /\ \A k \in 1..Len(s) : \E j \in 1..Len(t) : t[j] = s[k]
  BY <1>1, <1>2, InsertIsOrdered, SMT, Z3, Zenon
<1> HIDE DEF t
<1>4. prefixes' = t /\ registered' = [registered EXCEPT ![p] = q] /\ routes' = routes
  BY DEF RegisterPrefix, r, s, t
<1>5. /\ registered'[p] = q
      /\ \A o \in Patterns \ {p} : registered'[o] = registered[o]
      /\ registered' \in [Patterns -> Queues \cup {NoQueue}]
  BY <1>4 DEF RouterInv, RouterTypeOK
<1>6. RouterTypeOK'
  BY <1>3, <1>4, <1>5, SMT, Z3, Zenon DEF RouterInv, RouterTypeOK
<1>7. \A k \in 1..Len(s) : s[k].queueURL = registered'[s[k].prefix]
  <2> SUFFICES ASSUME NEW k \in 1..Len(s)
               PROVE  s[k].queueURL = registered'[s[k].prefix]
    OBVIOUS
  <2>1. PICK i \in 1..Len(prefixes) : s[k] = prefixes[i]
    BY <1>2
  <2>2. s[k].queueURL = registered[s[k].prefix]
    BY <1>0, <2>1 DEF Current
  <2>3. s[k].prefix \in Patterns \ {p}
    BY <1>2, ElementOfSeq, PrefixLength, SMT, Z3, Zenon
  <2> QED  BY <2>2, <2>3, <1>5, SMT, Z3, Zenon
<1>8. \A j \in 1..Len(t) : t[j].queueURL = registered'[t[j].prefix]
  BY <1>1, <1>3, <1>5, <1>7, SMT, Z3, Zenon
<1>9. ASSUME NEW o \in Patterns, registered'[o] # NoQueue
      PROVE  \E j \in 1..Len(t) : t[j].prefix = o
  <2>1. CASE o = p
    BY <2>1, <1>1, <1>3, SMT, Z3, Zenon
  <2>2. CASE o # p
    <3>1. PICK i \in 1..Len(prefixes) : prefixes[i].prefix = o
      BY <1>0, <1>5, <1>9, <2>2, SMT, Z3, Zenon DEF Current
    <3>2. PICK k \in 1..Len(s) : s[k] = prefixes[i]
      BY <1>2, <2>2, <3>1, SMT, Z3, Zenon
    <3> QED  BY <1>3, <3>1, <3>2, SMT, Z3, Zenon
  <2> QED  BY <2>1, <2>2
<1>10. Current' /\ Ordered(prefixes)'
  BY <1>3, <1>4, <1>8, <1>9, SMT, Z3, Zenon DEF Current, Ordered
<1> QED  BY <1>6, <1>10 DEF RouterInv

\* An ordered and current table follows the documented priority.
LEMMA RouterInvRule == RouterInv => LongestPrefixWins
<1> SUFFICES ASSUME RouterInv, NEW e \in EventTypes PROVE Rule(e, QueueURL(e))
  BY DEF LongestPrefixWins
<1> DEFINE n == Len(prefixes)
           I == {i \in 1..n : IsPrefix(prefixes[i].prefix, e)}
<1>0. n \in Nat /\ \A i \in 1..n : prefixes[i] \in PrefixRoute
  BY LenProperties, ElementOfSeq, SMT, Z3, Zenon DEF RouterInv, RouterTypeOK
<1>1. CASE routes[e] # NoQueue
  BY <1>1 DEF QueueURL, Rule
<1>2. CASE routes[e] = NoQueue /\ I = {}
  <2>1. QueueURL(e) = DefaultQueue
    BY <1>2 DEF QueueURL, SelectInSeq
  <2>2. Matching(e) = {}
    <3> SUFFICES ASSUME NEW p \in Matching(e) PROVE FALSE
      OBVIOUS
    <3>1. p \in Patterns /\ registered[p] # NoQueue /\ IsPrefix(p, e)
      BY DEF Matching
    <3>2. PICK i \in 1..n : prefixes[i].prefix = p
      BY <3>1 DEF RouterInv, Current
    <3> QED  BY <1>2, <3>1, <3>2, SMT, Z3, Zenon
  <2> QED  BY <1>2, <2>1, <2>2, SMT, Z3, Zenon DEF Rule
<1>3. CASE routes[e] = NoQueue /\ I # {}
  <2> DEFINE i == Min(I)
             p == prefixes[i].prefix
  <2>1. i \in I /\ i \in 1..n /\ \A k \in I : i <= k
    BY <1>0, <1>3, FirstIndex, ZenonT(30)
  <2>2. QueueURL(e) = prefixes[i].queueURL
    BY <1>3, <2>1 DEF QueueURL, SelectInSeq
  <2> HIDE DEF i
  <2>3. prefixes[i].queueURL \in Queues /\ p \in Patterns /\ Len(p) \in Nat
    BY <1>0, <2>1, PrefixLength, SMT, Z3, Zenon
  <2>4. prefixes[i].queueURL = registered[p]
    BY <2>1, SMT, Z3, Zenon DEF RouterInv, Current
  <2>5. p \in Matching(e)
    BY <2>1, <2>3, <2>4, RouterAssumption, SMT, Z3, Zenon DEF Matching, RouterAssumption
  <2>6. ASSUME NEW o \in Matching(e) PROVE Len(o) <= Len(p)
    <3>1. o \in Patterns /\ registered[o] # NoQueue /\ IsPrefix(o, e)
      BY DEF Matching
    <3>2. PICK k \in 1..n : prefixes[k].prefix = o
      BY <3>1 DEF RouterInv, Current
    <3>3. k \in I /\ i <= k /\ Len(o) \in Nat
      BY <1>0, <2>1, <3>1, <3>2, PrefixLength, SMT, Z3, Zenon
    <3>4. CASE i = k
      BY <3>2, <3>4, <2>3, SMT, Z3, Zenon
    <3>5. CASE i < k
      BY <2>1, <3>2, <3>5, <2>3, <3>3, SMT, Z3, Zenon DEF RouterInv, Ordered
    <3> QED  BY <3>3, <3>4, <3>5, <2>1, <1>0, SMTT(30), Z3T(30)
  <2> QED  BY <1>3, <2>2, <2>4, <2>5, <2>6, ZenonT(30) DEF Rule
<1> QED  BY <1>1, <1>2, <1>3, SMT, Z3, Zenon

-----------------------------------------------------------------------------
(* The metrics *)

\* A worker that is about to swap has loaded a value that its duration improves on.
Improves ==
  \A w \in Workers :
    /\ step[w] # "idle" => fetch[w].duration \in taken
    /\ step[w] = "swapMin" => loaded[w] = 0 \/ fetch[w].duration < loaded[w]
    /\ step[w] = "swapMax" => fetch[w].duration > loaded[w]

MetricsInv == MetricsTypeOK /\ Improves /\ ExtremesAreExact

\* The steps of RecordFetch after the counters.
LEMMA RecordingStep ==
  ASSUME MetricsInv, NEW w \in Workers, Recording(w)
  PROVE  MetricsInv'
<1> USE MetricsAssumption DEF MetricsAssumption
<1> DEFINE d == fetch[w].duration
<1>0. /\ MetricsTypeOK /\ Improves /\ ExtremesAreExact
      /\ taken \subseteq Nat \ {0}
      /\ minTxn \in Nat /\ maxTxn \in Nat /\ loaded[w] \in Nat
      /\ fetch[w] \in [duration : Durations \cup {0}, rows : Nat]
  BY DEF MetricsInv, MetricsTypeOK
<1>1. CASE LoadMin(w)
  <2>1. /\ minTxn' = minTxn /\ maxTxn' = maxTxn /\ taken' = taken /\ fetch' = fetch
        /\ loaded' = [loaded EXCEPT ![w] = minTxn]
        /\ step' = [step EXCEPT ![w] = IF minTxn = 0 \/ d < minTxn
                                       THEN "swapMin" ELSE "loadMax"]
        /\ step[w] = "loadMin"
    BY <1>1 DEF LoadMin, Goto
  <2>2. MetricsTypeOK'
    BY <1>0, <1>1, <2>1, SMT, Z3, Zenon DEF LoadMin, MetricsTypeOK, Steps
  <2>3. Improves'
    BY <1>0, <2>1, SMT, Z3, Zenon DEF Improves, MetricsTypeOK
  <2>4. ASSUME NEW e \in taken
        PROVE  /\ minTxn \in 1..e \/ \E v \in Workers : MinPending(v)' /\ fetch[v].duration = e
               /\ maxTxn >= e \/ \E v \in Workers : MaxPending(v)' /\ fetch[v].duration = e
    <3>1. \A v \in Workers : /\ MaxPending(v) => MaxPending(v)'
                             /\ v # w /\ MinPending(v) => MinPending(v)'
      BY <1>0, <2>1 DEF MaxPending, MinPending, MetricsTypeOK
    <3>a. d \in Nat \ {0}
      BY <1>0, <2>1, ZenonT(30) DEF Improves
    <3>2. MinPending(w)' \/ minTxn \in 1..d
      <4>1. CASE minTxn = 0 \/ d < minTxn
        BY <1>0, <2>1, <4>1, SMT, Z3, Zenon DEF MinPending, MetricsTypeOK
      <4>2. CASE ~(minTxn = 0 \/ d < minTxn)
        BY <1>0, <3>a, <4>2, SMTT(30), Z3T(30)
      <4> QED  BY <4>1, <4>2
    <3> QED  BY <1>0, <3>1, <3>2, SMT, Z3, Zenon DEF ExtremesAreExact
  <2> QED  BY <1>0, <2>1, <2>2, <2>3, <2>4, ZenonT(30) DEF MetricsInv, ExtremesAreExact
<1>2. CASE SwapMin(w)
  <2>1. /\ maxTxn' = maxTxn /\ taken' = taken /\ fetch' = fetch /\ loaded' = loaded
        /\ step[w] = "swapMin"
        /\ \/ minTxn = loaded[w] /\ minTxn' = d /\ step' = [step EXCEPT ![w] = "loadMax"]
           \/ minTxn' = minTxn /\ step' = [step EXCEPT ![w] = "loadMin"]
    BY <1>2 DEF SwapMin, Goto
  <2>a. d \in taken /\ d \in Nat \ {0} /\ (loaded[w] = 0 \/ d < loaded[w])
    BY <1>0, <2>1, Zenon DEF Improves
  <2>2. MetricsTypeOK'
    BY <1>0, <1>2, <2>1, <2>a, ZenonT(30) DEF SwapMin, MetricsTypeOK, Steps
  <2>3. Improves'
    BY <1>0, <2>1 DEF Improves, MetricsTypeOK
  <2>4. ASSUME NEW e \in taken
        PROVE  /\ \/ minTxn' \in 1..e
                  \/ \E v \in Workers : MinPending(v)' /\ fetch[v].duration = e
               /\ maxTxn >= e \/ \E v \in Workers : MaxPending(v)' /\ fetch[v].duration = e
    <3>1. \A v \in Workers : /\ MaxPending(v) => MaxPending(v)'
                             /\ v # w /\ MinPending(v) => MinPending(v)'
      BY <1>0, <2>1, SMT, Z3, Zenon DEF MaxPending, MinPending, MetricsTypeOK
    <3>2. minTxn \in 1..e => minTxn' \in 1..e
      BY <1>0, <2>1, <2>a, SMT, Z3, Zenon
    <3>3. MinPending(w)' \/ minTxn' \in 1..d
      BY <1>0, <2>1, <2>a, SMTT(30), Z3T(30) DEF MinPending, MetricsTypeOK
    <3> QED  BY <1>0, <3>1, <3>2, <3>3, SMT, Z3, Zenon DEF ExtremesAreExact
  <2>5. minTxn' \in taken \cup {0} /\ maxTxn \in taken \cup {0}
    BY <1>0, <2>1, <2>a, ZenonT(30) DEF ExtremesAreExact
  <2> QED  BY <2>1, <2>2, <2>3, <2>4, <2>5, ZenonT(30) DEF MetricsInv, ExtremesAreExact
<1>3. CASE LoadMax(w)
  <2>1. /\ minTxn' = minTxn /\ maxTxn' = maxTxn /\ taken' = taken /\ fetch' = fetch
        /\ loaded' = [loaded EXCEPT ![w] = maxTxn]
        /\ step' = [step EXCEPT ![w] = IF d > maxTxn THEN "swapMax" ELSE "stats"]
        /\ step[w] = "loadMax"
    BY <1>3 DEF LoadMax, Goto
  <2>2. MetricsTypeOK'
    BY <1>0, <1>3, <2>1, SMT, Z3, Zenon DEF LoadMax, MetricsTypeOK, Steps
  <2>3. Improves'
    BY <1>0, <2>1 DEF Improves, MetricsTypeOK
  <2>4. ASSUME NEW e \in taken
        PROVE  /\ minTxn \in 1..e \/ \E v \in Workers : MinPending(v)' /\ fetch[v].duration = e
               /\ maxTxn >= e \/ \E v \in Workers : MaxPending(v)' /\ fetch[v].duration = e
    <3>1. \A v \in Workers : /\ MinPending(v) => MinPending(v)'
                             /\ v # w /\ MaxPending(v) => MaxPending(v)'
      BY <1>0, <2>1 DEF MaxPending, MinPending, MetricsTypeOK
    <3>a. d \in Nat
      BY <1>0, <2>1, Zenon DEF Improves
    <3>2. MaxPending(w)' \/ maxTxn >= d
      <4>1. CASE d > maxTxn
        BY <1>0, <2>1, <4>1, SMT, Z3, Zenon DEF MaxPending, MinPending, MetricsTypeOK
      <4>2. CASE ~(d > maxTxn)
        BY <1>0, <3>a, <4>2, SMTT(30), Z3T(30)
      <4> QED  BY <4>1, <4>2, SMT, Z3, Zenon
    <3> QED  BY <1>0, <3>1, <3>2, ZenonT(30) DEF ExtremesAreExact
  <2> QED  BY <1>0, <2>1, <2>2, <2>3, <2>4, ZenonT(30) DEF MetricsInv, ExtremesAreExact
<1>4. CASE SwapMax(w)
  <2>1. /\ minTxn' = minTxn /\ taken' = taken /\ fetch' = fetch /\ loaded' = loaded
        /\ step[w] = "swapMax"
        /\ \/ maxTxn = loaded[w] /\ maxTxn' = d /\ step' = [step EXCEPT ![w] = "stats"]
           \/ maxTxn' = maxTxn /\ step' = [step EXCEPT ![w] = "loadMax"]
    BY <1>4 DEF SwapMax, Goto
  <2>a. d \in taken /\ d \in Nat \ {0} /\ d > loaded[w]
    BY <1>0, <2>1, Zenon DEF Improves
  <2>2. MetricsTypeOK'
    BY <1>0, <1>4, <2>1, <2>a DEF SwapMax, MetricsTypeOK, Steps
  <2>3. Improves'
    BY <1>0, <2>1, Zenon DEF Improves, MetricsTypeOK
  <2>4. ASSUME NEW e \in taken
        PROVE  /\ minTxn \in 1..e \/ \E v \in Workers : MinPending(v)' /\ fetch[v].duration = e
               /\ maxTxn' >= e \/ \E v \in Workers : MaxPending(v)' /\ fetch[v].duration = e
    <3>1. \A v \in Workers : /\ MinPending(v) => MinPending(v)'
                             /\ v # w /\ MaxPending(v) => MaxPending(v)'
      BY <1>0, <2>1, SMT, Z3, Zenon DEF MaxPending, MinPending, MetricsTypeOK
    <3>2. maxTxn >= e => maxTxn' >= e
      BY <1>0, <2>1, <2>a, SMT, Z3, Zenon
    <3>3. MaxPending(w)' \/ maxTxn' >= d
      BY <1>0, <2>1, <2>a, SMTT(30), Z3T(30) DEF MaxPending, MinPending, MetricsTypeOK
    <3> QED  BY <1>0, <3>1, <3>2, <3>3, ZenonT(30) DEF ExtremesAreExact
  <2>5. minTxn \in taken \cup {0} /\ maxTxn' \in taken \cup {0}
    BY <1>0, <2>1, <2>a, ZenonT(30) DEF ExtremesAreExact
  <2> QED  BY <2>1, <2>2, <2>3, <2>4, <2>5, ZenonT(30) DEF MetricsInv, ExtremesAreExact
<1>5. CASE UpdateWorkerStats(w)
  <2>1. /\ minTxn' = minTxn /\ maxTxn' = maxTxn /\ taken' = taken
        /\ fetch' = [fetch EXCEPT ![w] = [duration |-> 0, rows |-> 0]]
        /\ loaded' = [loaded EXCEPT ![w] = 0]
        /\ step' = [step EXCEPT ![w] = "idle"]
        /\ step[w] = "stats"
    BY <1>5, Zenon DEF UpdateWorkerStats, Goto
  <2>2. MetricsTypeOK'
    <3>1. WorkerID[w] \in Ids
      BY SMT, Z3, Zenon DEF Ids
    <3>2. workerStats' \in [Ids -> [fetches : Nat, rows : Nat, empty : Nat]]
      BY <1>0, <1>5, <3>1, SMT, Z3, Zenon DEF UpdateWorkerStats, MetricsTypeOK, EmptyFetch
    <3> QED  BY <1>0, <1>5, <2>1, <3>2, SMT, Z3, Zenon DEF UpdateWorkerStats, MetricsTypeOK, Steps
  <2>3. Improves'
    BY <1>0, <2>1, SMT, Z3, Zenon DEF Improves, MetricsTypeOK
  <2>4. \A v \in Workers : /\ MinPending(v) => MinPending(v)' /\ fetch'[v] = fetch[v]
                           /\ MaxPending(v) => MaxPending(v)' /\ fetch'[v] = fetch[v]
    BY <1>0, <2>1, SMT, Z3, Zenon DEF MaxPending, MinPending, MetricsTypeOK
  <2> QED  BY <1>0, <2>1, <2>2, <2>3, <2>4, ZenonT(30) DEF MetricsInv, ExtremesAreExact
<1> QED  BY <1>1, <1>2, <1>3, <1>4, <1>5, SMT, Z3, Zenon DEF Recording

\* A fetch is added to what has been taken together with the worker that is to compare it.
LEMMA RecordFetchStep ==
  ASSUME MetricsInv, NEW w \in Workers, NEW d \in Durations, NEW n \in Nat, RecordFetch(w, d, n)
  PROVE  MetricsInv'
<1> USE MetricsAssumption DEF MetricsAssumption
<1>0. MetricsTypeOK /\ Improves /\ ExtremesAreExact
  BY DEF MetricsInv
<1>1. /\ minTxn' = minTxn /\ maxTxn' = maxTxn /\ taken' = taken \cup {d}
      /\ loaded' = loaded /\ workerStats' = workerStats
      /\ fetch' = [fetch EXCEPT ![w] = [duration |-> d, rows |-> n]]
      /\ step' = [step EXCEPT ![w] = "loadMin"]
      /\ step[w] = "idle"
  BY DEF RecordFetch, Goto
<1>2. total' \in [Counters -> Nat]
  BY <1>0, SMT, Z3, Zenon DEF RecordFetch, MetricsTypeOK, EmptyFetch, Counters
<1>3. MetricsTypeOK'
  BY <1>0, <1>1, <1>2, SMT, Z3, Zenon DEF MetricsTypeOK, Steps
<1>4. Improves'
  BY <1>0, <1>1, SMT, Z3, Zenon DEF Improves, MetricsTypeOK
<1>5. MinPending(w)' /\ MaxPending(w)' /\ fetch'[w].duration = d
  BY <1>0, <1>1, SMT, Z3, Zenon DEF MinPending, MaxPending, MetricsTypeOK
<1>6. \A v \in Workers : /\ MinPending(v) => MinPending(v)' /\ fetch'[v] = fetch[v]
                         /\ MaxPending(v) => MaxPending(v)' /\ fetch'[v] = fetch[v]
  BY <1>0, <1>1, SMT, Z3, Zenon DEF MaxPending, MinPending, MetricsTypeOK
<1>7. ExtremesAreExact'
  BY <1>0, <1>1, <1>5, <1>6, SMTT(30), Z3T(30) DEF ExtremesAreExact
<1> QED  BY <1>3, <1>4, <1>7, SMT, Z3, Zenon DEF MetricsInv

\* RecordPublish touches only its own counters.
LEMMA RecordPublishStep ==
  ASSUME MetricsInv, NEW n \in Nat, NEW k \in Nat, RecordPublish(n, k)
  PROVE  MetricsInv'
<1>1. total' \in [Counters -> Nat]
  BY DEF RecordPublish, MetricsInv, MetricsTypeOK, Counters
<1>2. UNCHANGED <<minTxn, maxTxn, workerStats, step, loaded, fetch, taken>>
  BY DEF RecordPublish
<1> QED  BY <1>1, <1>2, SMT, Z3, Zenon DEF MetricsInv, MetricsTypeOK, Improves, ExtremesAreExact,
                           MinPending, MaxPending

-----------------------------------------------------------------------------
(* The specification *)

IInv == RouterInv /\ MetricsInv /\ TypeOK

LEMMA InitInv == Init => IInv
<1> SUFFICES ASSUME Init PROVE IInv
  OBVIOUS
<1>1. RouterInv
  <2>1. routes = [t \in EventTypes |-> NoQueue] /\ prefixes = <<>> /\ Len(prefixes) = 0
    BY DEF Init, NewEventTypeQueueMap
  <2>2. registered = [p \in Patterns |-> NoQueue]
    BY SMT, Z3, Zenon DEF Init, NewEventTypeQueueMap
  <2> QED  BY <2>1, <2>2, EmptySeq, SMT, Z3, Zenon DEF RouterInv, RouterTypeOK, Ordered, Current
<1>2. MetricsTypeOK
  BY SMT, Z3, Zenon DEF Init, NewMetricsCollector, MetricsTypeOK, Steps
<1>3. Improves /\ ExtremesAreExact
  BY DEF Init, NewMetricsCollector, Improves, ExtremesAreExact
<1>4. TypeOK
  BY <1>1, <1>2, PublishingAssumption, SMT, Z3, Zenon
     DEF Init, TypeOK, RouterInv, PublishingAssumption, Results
<1> QED  BY <1>1, <1>2, <1>3, <1>4, SMT, Z3, Zenon DEF IInv, MetricsInv

\* Every step keeps the invariants.
LEMMA NextInv == IInv /\ [Next]_vars => IInv'
<1> SUFFICES ASSUME IInv, [Next]_vars PROVE IInv'
  OBVIOUS
<1> USE PublishingAssumption DEF PublishingAssumption
<1>0. RouterInv /\ MetricsInv /\ TypeOK
  BY DEF IInv
<1>a. ASSUME UNCHANGED routerVars PROVE RouterInv'
  BY <1>0, <1>a, ZenonT(30) DEF routerVars, RouterInv, RouterTypeOK, Ordered, Current
<1>b. ASSUME UNCHANGED metricsVars PROVE MetricsInv'
  BY <1>0, <1>b, SMT, Z3, Zenon DEF metricsVars, MetricsInv, MetricsTypeOK, Improves, ExtremesAreExact,
                    MinPending, MaxPending
<1>c. ASSUME NEW S \in SUBSET Msgs PROVE IsFiniteSet(S) /\ Cardinality(S) \in Nat
  BY FS_Subset, FS_CardinalityType, SMT, Z3, Zenon
<1>1. CASE Configure
  <2>1. MetricsInv'
    BY <1>1, <1>b, SMT, Z3, Zenon DEF Configure
  <2>2. PICK q \in Queues : \/ \E t \in EventTypes : Register(t, q)
                            \/ \E p \in Patterns : RegisterPrefix(p, q)
    BY <1>1, SMT, Z3, Zenon DEF Configure
  <2>3. ASSUME NEW t \in EventTypes, Register(t, q) PROVE RouterInv'
    BY <1>0, <2>3, SMT, Z3, Zenon DEF Register, RouterInv, RouterTypeOK, Ordered, Current
  <2>4. ASSUME NEW p \in Patterns, RegisterPrefix(p, q) PROVE RouterInv'
    BY <1>0, <2>4, RegisterPrefixStep, SMT, Z3, Zenon
  <2>5. RouterInv'
    BY <2>2, <2>3, <2>4, Zenon
  <2> QED  BY <1>0, <1>1, <2>1, <2>5, SMT, Z3, Zenon
              DEF IInv, Configure, TypeOK, RouterInv, MetricsInv, callVars
<1>2. ASSUME NEW w \in Workers, FetchLockAndMarkPublishing(w) PROVE IInv'
  <2>1. PICK S \in SUBSET waiting, d \in Durations :
          /\ batch' = [batch EXCEPT ![w] = S]
          /\ waiting' = waiting \ S
          /\ RecordFetch(w, d, Cardinality(S))
    BY <1>2, Zenon DEF FetchLockAndMarkPublishing
  <2>2. S \in SUBSET Msgs /\ Cardinality(S) \in Nat
    BY <1>0, <1>c DEF TypeOK
  <2>3. MetricsInv'
    BY <1>0, <2>1, <2>2, RecordFetchStep, Zenon
  <2>4. RouterInv'
    BY <1>2, <1>a, Zenon DEF FetchLockAndMarkPublishing
  <2> QED  BY <1>0, <1>2, <2>1, <2>2, <2>3, <2>4, ZenonT(30)
              DEF FetchLockAndMarkPublishing, IInv, TypeOK,
                                                      RouterInv, MetricsInv
<1>3. ASSUME NEW w \in Workers, Record(w) PROVE IInv'
  <2>1. MetricsInv'
    BY <1>0, <1>3, RecordingStep, SMT, Z3, Zenon DEF Record
  <2>2. RouterInv'
    BY <1>3, <1>a, Zenon DEF Record
  <2> QED  BY <1>0, <1>3, <2>1, <2>2, SMT, Z3, Zenon
              DEF Record, IInv, TypeOK, RouterInv, MetricsInv, callVars
<1>4. ASSUME NEW w \in Workers, NEW m \in Msgs, Route(w, m) PROVE IInv'
  <2>1. MetricsInv' /\ RouterInv'
    BY <1>4, <1>a, <1>b, Zenon DEF Route
  <2>2. queueOf' = [queueOf EXCEPT ![m] = queueOf'[m]] /\ queueOf'[m] = QueueURL(TypeOf[m])
    BY <1>0, <1>4, SMT, Z3, Zenon DEF Route, TypeOK
  <2>3. QueueURL(TypeOf[m]) \in Queues \cup {NoQueue}
    <3> DEFINE t == TypeOf[m]
               I == {i \in 1..Len(prefixes) : IsPrefix(prefixes[i].prefix, t)}
    <3>1. t \in EventTypes /\ DefaultQueue \in Queues /\ routes[t] \in Queues \cup {NoQueue}
      BY <1>0, RouterAssumption, Zenon DEF RouterAssumption, RouterInv, RouterTypeOK
    <3>2. CASE I = {}
      BY <3>1, <3>2, Zenon DEF QueueURL, SelectInSeq
    <3>3. CASE I # {}
      <4>1. Len(prefixes) \in Nat /\ prefixes \in Seq(PrefixRoute)
        BY <1>0, LenProperties DEF RouterInv, RouterTypeOK
      <4>2. Min(I) \in 1..Len(prefixes)
        BY <3>3, <4>1, FirstIndex, ZenonT(30)
      <4>3. prefixes[Min(I)].queueURL \in Queues
        BY <4>1, <4>2, ElementOfSeq, PrefixLength, SMT, Z3, Zenon
      <4> QED  BY <3>1, <3>3, <4>2, <4>3, SMT, Z3, Zenon DEF QueueURL, SelectInSeq
    <3> QED  BY <3>2, <3>3, SMT, Z3, Zenon
  <2> QED  BY <1>0, <1>4, <2>1, <2>2, <2>3, ZenonT(30)
              DEF Route, IInv, TypeOK, RouterInv, MetricsInv
<1>5. ASSUME NEW w \in Workers, NEW q \in Queues, PublishBatchToQueue(w, q) PROVE IInv'
  <2>1. MetricsInv' /\ RouterInv'
    BY <1>5, <1>a, <1>b, Zenon DEF PublishBatchToQueue
  <2>2. result' \in [Msgs -> Results]
    BY <1>0, <1>5, Zenon DEF PublishBatchToQueue, Answer, TypeOK, Results
  <2>3. accepted' \subseteq Msgs \X Queues
    BY <1>0, <1>5, SMTT(30), Z3T(30) DEF PublishBatchToQueue, Group, TypeOK
  <2> QED  BY <1>0, <1>5, <2>1, <2>2, <2>3, ZenonT(30)
              DEF PublishBatchToQueue, IInv, TypeOK, RouterInv,
                                                MetricsInv
<1>6. ASSUME NEW w \in Workers, PublishBatch(w) PROVE IInv'
  <2>1. \A kind : Count(w, kind) \in Nat
    BY <1>0, <1>c, SMTT(30), Z3T(30) DEF Count, TypeOK
  <2>2. MetricsInv'
    BY <1>0, <1>6, <2>1, RecordPublishStep, SMTT(30), Z3T(30) DEF PublishBatch
  <2>3. RouterInv'
    BY <1>6, <1>a, Zenon DEF PublishBatch
  <2> QED  BY <1>0, <1>6, <2>2, <2>3, ZenonT(30)
              DEF PublishBatch, IInv, TypeOK, RouterInv, MetricsInv, Results
<1>7. CASE UNCHANGED vars
  <2>1. MetricsInv' /\ RouterInv'
    BY <1>7, <1>a, <1>b, SMT, Z3, Zenon DEF vars, routerVars, metricsVars
  <2> QED  BY <1>0, <1>7, <2>1, Zenon DEF vars, IInv, TypeOK, RouterInv, MetricsInv
<1> QED  BY <1>1, <1>2, <1>3, <1>4, <1>5, <1>6, <1>7, ZenonT(30) DEF Next

\* Whatever is registered, in whatever order and while batches are being published,
\* QueueURL (contrib/sqs/publisher.go) gives an exact route precedence over the longest
\* registered prefix, and that over the default queue.
THEOREM RoutingIsCorrect == Spec => []LongestPrefixWins
<1>1. IInv => LongestPrefixWins
  BY RouterInvRule, SMT, Z3, Zenon DEF IInv
<1> QED  BY InitInv, NextInv, <1>1, PTL DEF Spec

\* The compare-and-swap loops of RecordFetch lose no minimum and no maximum, for any
\* number of workers.
THEOREM ExtremesAreKept == Spec => []ExtremesAreExact
<1>1. IInv => ExtremesAreExact
  BY DEF IInv, MetricsInv
<1> QED  BY InitInv, NextInv, <1>1, PTL DEF Spec

-----------------------------------------------------------------------------
(* The results of a batch *)

\* A message is in one worker's hands, or waits, or is done, and what PublishBatch knows
\* of it is kept only while it is in a batch.
Separate ==
  /\ \A w \in Workers : batch[w] \cap waiting = {}
  /\ \A v, w \in Workers : v # w => batch[v] \cap batch[w] = {}
  /\ \A m \in Msgs : (\A w \in Workers : m \notin batch[w])
                       => queueOf[m] = NoQueue /\ result[m] = "unset"

\* Nothing is answered before all messages are routed, and a group is answered at once.
Grouped ==
  \A w \in Workers : \A m \in batch[w] :
    /\ result[m] # "unset" => Unrouted(w) = {}
    /\ \A n \in batch[w] : queueOf[m] = queueOf[n] /\ result[m] = "unset"
                            => result[n] = "unset"

\* What is a success has been accepted.
Backed == \A m \in Msgs : result[m] = "ok" => \E q \in Queues : <<m, q>> \in accepted

CallInv == TypeOK /\ Separate /\ Grouped /\ Backed /\ ReportedWasAccepted

LEMMA InitCallInv == Init => CallInv
<1> SUFFICES ASSUME Init PROVE CallInv
  OBVIOUS
<1>1. TypeOK
  BY InitInv DEF IInv
<1> QED  BY <1>1 DEF Init, CallInv, Separate, Grouped, Backed, ReportedWasAccepted

\* Every step keeps them.
LEMMA NextCallInv == CallInv /\ TypeOK' /\ [Next]_vars => CallInv'
<1> SUFFICES ASSUME CallInv, TypeOK', [Next]_vars PROVE CallInv'
  OBVIOUS
<1>0. /\ TypeOK /\ Separate /\ Grouped /\ Backed /\ ReportedWasAccepted
      /\ batch \in [Workers -> SUBSET Msgs] /\ waiting \subseteq Msgs /\ finished \subseteq Msgs
      /\ queueOf \in [Msgs -> Queues \cup {NoQueue}] /\ result \in [Msgs -> Results]
  BY Zenon DEF CallInv, TypeOK
<1>a. ASSUME UNCHANGED callVars PROVE CallInv'
  BY <1>0, <1>a, SMT, Z3, Zenon
     DEF callVars, CallInv, Separate, Grouped, Backed, ReportedWasAccepted, Unrouted
<1>1. CASE Configure
  BY <1>1, <1>a DEF Configure
<1>2. ASSUME NEW w \in Workers, FetchLockAndMarkPublishing(w) PROVE CallInv'
  <2>1. PICK S \in SUBSET waiting : batch' = [batch EXCEPT ![w] = S] /\ waiting' = waiting \ S
    BY <1>2, Zenon DEF FetchLockAndMarkPublishing
  <2>2. /\ batch[w] = {}
        /\ queueOf' = queueOf /\ result' = result /\ accepted' = accepted /\ finished' = finished
    BY <1>2 DEF FetchLockAndMarkPublishing, Idle
  <2>3. /\ batch'[w] = S
        /\ \A v \in Workers : v # w => batch'[v] = batch[v]
    BY <1>0, <2>1, Zenon
  <2>4. \A m \in S : m \in Msgs /\ queueOf[m] = NoQueue /\ result[m] = "unset"
    BY <1>0 DEF Separate
  <2>5. Separate'
    BY <1>0, <2>1, <2>2, <2>3, Zenon DEF Separate
  <2>6. Grouped'
    BY <1>0, <2>2, <2>3, <2>4, SMT, Z3, Zenon DEF Grouped, Unrouted
  <2> QED  BY <1>0, <2>2, <2>5, <2>6, ZenonT(30) DEF CallInv, Backed, ReportedWasAccepted
<1>3. ASSUME NEW w \in Workers, Record(w) PROVE CallInv'
  BY <1>3, <1>a, Zenon DEF Record
<1>4. ASSUME NEW w \in Workers, NEW m \in Msgs, Route(w, m) PROVE CallInv'
  <2>1. /\ batch' = batch /\ waiting' = waiting /\ result' = result /\ accepted' = accepted
        /\ finished' = finished
        /\ m \in batch[w] /\ queueOf[m] = NoQueue
        /\ \A n \in Msgs : n # m => queueOf'[n] = queueOf[n]
    BY <1>0, <1>4 DEF Route, Unrouted
  <2>2. \A n \in batch[w] : result[n] = "unset"
    BY <1>0, <2>1, SMT, Z3, Zenon DEF Grouped, Unrouted
  <2>3. \A v \in Workers : v # w => \A n \in batch[v] : queueOf'[n] = queueOf[n]
    BY <1>0, <2>1 DEF Separate
  <2>4. Separate'
    BY <1>0, <2>1, Zenon DEF Separate
  <2>5. ASSUME NEW v \in Workers, NEW n \in batch[v]
        PROVE  /\ result[n] # "unset" => Unrouted(v)' = {}
               /\ \A k \in batch[v] : queueOf'[n] = queueOf'[k] /\ result[n] = "unset"
                                       => result[k] = "unset"
    <3>1. CASE v = w
      BY <2>2, <3>1, Zenon
    <3>2. CASE v # w
      BY <1>0, <2>1, <2>3, <3>2, SMTT(30), Z3T(30) DEF Grouped, Unrouted
    <3> QED  BY <3>1, <3>2, SMT, Z3, Zenon
  <2>6. Grouped'
    BY <2>1, <2>5, SMT, Z3, Zenon DEF Grouped
  <2> QED  BY <1>0, <2>1, <2>4, <2>6, Zenon DEF CallInv, Backed, ReportedWasAccepted
<1>5. ASSUME NEW w \in Workers, NEW q \in Queues, PublishBatchToQueue(w, q) PROVE CallInv'
  <2> DEFINE G == Group(w, q)
  <2>1. PICK ok, stored \in SUBSET (G \ TooLarge) :
          /\ ok = stored \/ ok = {}
          /\ Answer(G, ok)
          /\ accepted' = accepted \cup {<<n, q>> : n \in stored}
    BY <1>5, ZenonT(30) DEF PublishBatchToQueue
  <2>2. /\ batch' = batch /\ waiting' = waiting /\ queueOf' = queueOf /\ finished' = finished
        /\ Unrouted(w) = {}
    BY <1>5, ZenonT(30) DEF PublishBatchToQueue, Sending
  <2>3. G \subseteq batch[w] /\ \A n \in batch[w] : n \in G <=> queueOf[n] = q
    BY Zenon DEF Group
  <2> HIDE DEF G
  <2>4. /\ \A n \in Msgs \ G : result'[n] = result[n]
        /\ \A n \in G : result'[n] # "unset"
        /\ \A n \in G : result'[n] = "ok" => n \in ok
    BY <1>0, <2>1, <2>3, ZenonT(30) DEF Answer
  <2>5. Separate'
    BY <1>0, <2>2, <2>3, <2>4, SMTT(30), Z3T(30) DEF Separate
  <2>6. ASSUME NEW v \in Workers, NEW n \in batch[v]
        PROVE  /\ result'[n] # "unset" => Unrouted(v)' = {}
               /\ \A k \in batch[v] : queueOf[n] = queueOf[k] /\ result'[n] = "unset"
                                       => result'[k] = "unset"
    <3>1. CASE v = w
      BY <1>0, <2>2, <2>3, <2>4, <3>1, SMTT(30), Z3T(30) DEF Grouped, Unrouted
    <3>2. CASE v # w
      <4>1. \A k \in batch[v] : k \in Msgs \ G
        BY <1>0, <2>3, <3>2, SMTT(30), Z3T(30) DEF Separate
      <4> QED  BY <1>0, <2>2, <2>4, <4>1, SMTT(30), Z3T(30) DEF Grouped, Unrouted
    <3> QED  BY <3>1, <3>2, Zenon
  <2>7. Grouped'
    BY <2>2, <2>6, SMTT(30), Z3T(30) DEF Grouped
  <2>8. Backed'
    <3>1. \A n \in ok : <<n, q>> \in accepted'
      BY <2>1
    <3> QED  BY <1>0, <2>1, <2>4, <3>1, SMTT(30), Z3T(30) DEF Backed
  <2>9. ReportedWasAccepted'
    <3>1. \A a \in accepted' : a \in accepted \/ \E n \in stored : a = <<n, q>>
      BY <2>1, SMT, Z3, Zenon
    <3>2. \A n \in stored : <<n, q>>[1] \notin TooLarge
      BY <2>1
    <3>3. \A a \in accepted' : a[1] \notin TooLarge
      BY <1>0, <3>1, <3>2, Zenon DEF ReportedWasAccepted
    <3> QED  BY <1>0, <2>1, <2>2, <3>3, ZenonT(30) DEF ReportedWasAccepted
  <2> QED  BY <2>5, <2>7, <2>8, <2>9, ZenonT(30) DEF CallInv
<1>6. ASSUME NEW w \in Workers, PublishBatch(w) PROVE CallInv'
  <2>1. /\ batch' = [batch EXCEPT ![w] = {}]
        /\ finished' = finished \cup {m \in batch[w] : result[m] = "ok"}
        /\ waiting' = waiting \cup {m \in batch[w] : result[m] \in {"retryable", "unset"}}
        /\ queueOf' = [m \in Msgs |-> IF m \in batch[w] THEN NoQueue ELSE queueOf[m]]
        /\ result' = [m \in Msgs |-> IF m \in batch[w] THEN "unset" ELSE result[m]]
        /\ accepted' = accepted
    BY <1>6, ZenonT(30) DEF PublishBatch
  <2>2. /\ batch'[w] = {}
        /\ \A v \in Workers : v # w => batch'[v] = batch[v]
    BY <1>0, <2>1, Zenon
  <2>3. \A v \in Workers : v # w => \A n \in batch[v] : /\ n \in Msgs /\ n \notin batch[w]
                                                        /\ queueOf'[n] = queueOf[n]
                                                        /\ result'[n] = result[n]
    BY <1>0, <2>1, Zenon DEF Separate
  <2>4. Separate'
    BY <1>0, <2>1, <2>2, <2>3, ZenonT(30) DEF Separate
  <2>5. Grouped'
    BY <1>0, <2>2, <2>3, SMTT(30), Z3T(30) DEF Grouped, Unrouted
  <2>6. Backed' /\ ReportedWasAccepted'
    BY <1>0, <2>1, Zenon DEF Backed, ReportedWasAccepted
  <2> QED  BY <2>4, <2>5, <2>6, SMT, Z3, Zenon DEF CallInv
<1>7. CASE UNCHANGED vars
  BY <1>7, <1>a, SMT, Z3, Zenon DEF vars, callVars
<1> QED  BY <1>1, <1>2, <1>3, <1>4, <1>5, <1>6, <1>7, ZenonT(30) DEF Next

\* A step that empties a batch is the return of PublishBatch, with every group answered.
LEMMA ReturnStep ==
  ASSUME CallInv, [Next]_vars, NEW w \in Workers, batch[w] # {}, batch'[w] = {},
         NEW m \in batch[w]
  PROVE  result[m] # "unset"
<1>0. batch \in [Workers -> SUBSET Msgs] /\ queueOf \in [Msgs -> Queues \cup {NoQueue}]
  BY SMT, Z3, Zenon DEF CallInv, TypeOK
<1>1. PublishBatch(w)
  <2>1. /\ \A v \in Workers : ~Record(v) /\ ~FetchLockAndMarkPublishing(v)
        /\ \A v \in Workers : \A n \in Msgs : ~Route(v, n)
        /\ \A v \in Workers : \A q \in Queues : ~PublishBatchToQueue(v, q)
    BY <1>0, ZenonT(20)
       DEF Route, PublishBatchToQueue, Record, callVars, FetchLockAndMarkPublishing, Idle
  <2>2. ~Configure /\ ~UNCHANGED vars
    BY Zenon DEF Configure, callVars, vars
  <2>a. Next
    BY <2>2
  <2>3. PICK v \in Workers : PublishBatch(v)
    BY <2>1, <2>2, <2>a, ZenonT(30) DEF Next
  <2>4. v = w
    BY <1>0, <2>3, SMT, Z3, Zenon DEF PublishBatch
  <2> QED  BY <2>3, <2>4, SMT, Z3, Zenon
<1>2. queueOf[m] \in Queues /\ Group(w, queueOf[m]) # {} /\ m \in Group(w, queueOf[m])
  BY <1>0, <1>1 DEF PublishBatch, Unrouted, Group
<1>3. ~Sending(w, queueOf[m])
  BY <1>1, <1>2, Zenon DEF PublishBatch
<1>4. \E n \in Group(w, queueOf[m]) : result[n] # "unset"
  BY <1>1, <1>2, <1>3, Zenon DEF Sending, PublishBatch
<1> QED  BY <1>4, SMT, Z3, Zenon DEF CallInv, Grouped, Group

\* What MultiBatchPublisher (contrib/sqs/publisher.go) reports as published was accepted
\* by a queue, and it sends nothing that is too large.
THEOREM ReportsAreBacked == Spec => []ReportedWasAccepted
<1>1. IInv => TypeOK
  BY DEF IInv
<1>2. CallInv => ReportedWasAccepted
  BY DEF CallInv
<1> QED  BY InitInv, NextInv, InitCallInv, NextCallInv, <1>1, <1>2, PTL DEF Spec

\* PublishBatch returns a verdict for every message, however it was split into groups.
THEOREM EveryBatchIsAnswered == Spec => EveryMessageIsAnswered
<1>1. IInv => TypeOK
  BY DEF IInv
<1>2. CallInv /\ [Next]_vars =>
        [\A w \in Workers : batch[w] # {} /\ batch'[w] = {}
           => \A m \in batch[w] : result[m] # "unset"]_vars
  BY ReturnStep, SMT, Z3, Zenon
<1> QED  BY InitInv, NextInv, InitCallInv, NextCallInv, <1>1, <1>2, PTL
         DEF Spec, EveryMessageIsAnswered

-----------------------------------------------------------------------------
(* The counters *)

\* The worker and fetch sets are finite, and what is published is neither waiting nor in
\* the hands of a worker.
CountsInv ==
  /\ IsFiniteSet(Late)
  /\ IsFiniteSet(Entered)
  /\ finished \cap waiting = {}
  /\ finished \cap InHand = {}
  /\ CountsAddUp

LEMMA InitCountsInv == Init => CountsInv
<1> SUFFICES ASSUME Init PROVE CountsInv
  OBVIOUS
<1>1. InHand = {} /\ finished = {}
  BY SMT, Z3, Zenon DEF Init, InHand
<1>2. Late = {}
  BY SMT, Z3, Zenon DEF Init, NewMetricsCollector, Late
<1>3. ASSUME NEW i \in Ids PROVE workerStats[i].fetches = 0
  BY DEF Init, NewMetricsCollector
<1>4. Entered = {}
  BY <1>3, SMT, Z3, Zenon DEF Entered
<1>5. total["rows"] = 0 /\ total["success"] = 0 /\ total["failure"] = 0 /\ total["fetches"] = 0
  BY DEF Init, NewMetricsCollector, Counters
<1> QED  BY <1>1, <1>2, <1>4, <1>5, FS_EmptySet, SMT, Z3, Zenon DEF CountsInv, CountsAddUp

\* A set that grows by a disjoint set.
LEMMA DisjointUnion ==
  ASSUME NEW S, NEW T, IsFiniteSet(S), IsFiniteSet(T), S \cap T = {}
  PROVE  Cardinality(S \cup T) = Cardinality(S) + Cardinality(T)
<1>1. Cardinality(S \cup T) = Cardinality(S) + Cardinality(T) - Cardinality({})
  BY FS_Union, SMT, Z3, Zenon
<1>2. Cardinality(S) \in Nat /\ Cardinality(T) \in Nat /\ Cardinality({}) = 0
  BY FS_CardinalityType, FS_EmptySet, SMT, Z3, Zenon
<1> QED  BY <1>1, <1>2, SMT, Z3, Zenon

\* Which counters the steps of RecordFetch and RecordPublish move.
LEMMA FetchCounts ==
  ASSUME MetricsTypeOK, NEW w \in Workers, NEW d, NEW n \in Nat, RecordFetch(w, d, n)
  PROVE  /\ total'["fetches"] = total["fetches"] + 1
         /\ total'["rows"] = total["rows"] + n
         /\ total'["success"] = total["success"] /\ total'["failure"] = total["failure"]
         /\ Late' = Late \cup {w} /\ w \notin Late
         /\ workerStats' = workerStats
<1>1. total \in [Counters -> Nat] /\ step \in [Workers -> Steps]
  BY SMT, Z3, Zenon DEF MetricsTypeOK
<1>2. /\ total'["fetches"] = total["fetches"] + 1
      /\ total'["rows"] = total["rows"] + n
      /\ total'["success"] = total["success"] /\ total'["failure"] = total["failure"]
  BY <1>1, SMT, Z3, Zenon DEF RecordFetch, Counters
<1>3. step[w] = "idle" /\ step' = [step EXCEPT ![w] = "loadMin"] /\ workerStats' = workerStats
  BY DEF RecordFetch, Goto
<1>4. Late' = Late \cup {w} /\ w \notin Late
  BY <1>1, <1>3, SMT, Z3, Zenon DEF Late
<1> QED  BY <1>2, <1>3, <1>4, SMT, Z3, Zenon

LEMMA PublishCounts ==
  ASSUME MetricsTypeOK, NEW n \in Nat, NEW k \in Nat, RecordPublish(n, k)
  PROVE  /\ total'["fetches"] = total["fetches"] /\ total'["rows"] = total["rows"]
         /\ total'["success"] = total["success"] + n
         /\ total'["failure"] = total["failure"] + k
         /\ step' = step /\ workerStats' = workerStats
BY SMT, Z3, Zenon DEF RecordPublish, MetricsTypeOK, Counters

\* A fetch is late until it is entered.
LEMMA RecordingCounts ==
  ASSUME MetricsTypeOK, CountsInv, NEW w \in Workers, Recording(w)
  PROVE  /\ total' = total
         /\ IsFiniteSet(Late') /\ IsFiniteSet(Entered')
         /\ Cardinality(Late') + Cardinality(Entered') = Cardinality(Late) + Cardinality(Entered)
<1>0. /\ step \in [Workers -> Steps] /\ IsFiniteSet(Late) /\ IsFiniteSet(Entered)
      /\ workerStats \in [Ids -> [fetches : Nat, rows : Nat, empty : Nat]]
  BY SMT, Z3, Zenon DEF MetricsTypeOK, CountsInv
<1>1. CASE LoadMin(w) \/ SwapMin(w) \/ LoadMax(w) \/ SwapMax(w)
  <2>1. /\ total' = total /\ workerStats' = workerStats
        /\ step[w] # "idle"
        /\ \E s \in Steps \ {"idle"} : step' = [step EXCEPT ![w] = s]
    BY <1>1, Zenon DEF LoadMin, SwapMin, LoadMax, SwapMax, Goto, Steps
  <2>2. Late' = Late /\ Entered' = Entered
    BY <1>0, <2>1, SMTT(30), Z3T(30) DEF Late, Entered
  <2> QED  BY <1>0, <2>1, <2>2, SMT, Z3, Zenon
<1>2. CASE UpdateWorkerStats(w)
  <2> DEFINE i == WorkerID[w]
             n == workerStats[i].fetches
  <2>1. i \in Ids /\ n \in Nat
    BY <1>0, Zenon DEF Ids
  <2>2. /\ total' = total /\ step[w] = "stats" /\ step' = [step EXCEPT ![w] = "idle"]
        /\ workerStats'[i].fetches = n + 1
        /\ \A j \in Ids : j # i => workerStats'[j] = workerStats[j]
    BY <1>0, <1>2, <2>1, SMTT(30), Z3T(30) DEF UpdateWorkerStats, Goto
  <2>3. Late' = Late \ {w} /\ w \in Late
    BY <1>0, <2>2, SMT, Z3, Zenon DEF Late
  <2>4. IsFiniteSet(Late') /\ Cardinality(Late') = Cardinality(Late) - 1
    BY <1>0, <2>3, FS_RemoveElement, SMT, Z3, Zenon
  <2> HIDE DEF i, n
  <2>5. 1..(n + 1) = (1..n) \cup {n + 1} /\ n + 1 \notin 1..n
    BY <2>1
  <2>6. Entered' = Entered \cup {<<i, n + 1>>}
    <3> DEFINE E(j) == {j} \X (1..workerStats[j].fetches)
               F(j) == {j} \X (1..workerStats'[j].fetches)
    <3>1. F(i) = E(i) \cup {<<i, n + 1>>}
      <4>1. workerStats[i].fetches = n
        BY DEF n, i
      <4> QED  BY <2>2, <2>5, <4>1, SMTT(30), Z3T(30)
    <3>2. \A j \in Ids : j # i => F(j) = E(j)
      BY <2>2, SMT, Z3, Zenon
    <3>3. Entered = UNION {E(j) : j \in Ids} /\ Entered' = UNION {F(j) : j \in Ids}
      BY SMT, Z3, Zenon DEF Entered, Ids
    <3> HIDE DEF E, F
    <3> QED  BY <2>1, <3>1, <3>2, <3>3, ZenonT(30)
  <2>7. <<i, n + 1>> \notin Entered
    BY <2>1, <2>5, SMT, Z3, Zenon DEF Entered, n
  <2>8. IsFiniteSet(Entered') /\ Cardinality(Entered') = Cardinality(Entered) + 1
    BY <1>0, <2>6, <2>7, FS_AddElement, ZenonT(30)
  <2>9. Cardinality(Late) \in Nat /\ Cardinality(Entered) \in Nat
    BY <1>0, FS_CardinalityType
  <2> QED  BY <2>2, <2>4, <2>8, <2>9, SMTT(30), Z3T(30)
<1> QED  BY <1>1, <1>2, SMT, Z3, Zenon DEF Recording

LEMMA NextCountsInv == CallInv /\ CountsInv /\ [Next]_vars => CountsInv'
<1> SUFFICES ASSUME CallInv, CountsInv, [Next]_vars PROVE CountsInv'
  BY SMT, Z3, Zenon
<1>0. /\ MetricsTypeOK /\ total \in [Counters -> Nat]
      /\ batch \in [Workers -> SUBSET Msgs] /\ waiting \subseteq Msgs /\ finished \subseteq Msgs
      /\ result \in [Msgs -> Results]
      /\ \A w \in Workers : batch[w] \cap waiting = {}
      /\ \A v, w \in Workers : v # w => batch[v] \cap batch[w] = {}
  BY SMT, Z3, Zenon DEF CallInv, TypeOK, MetricsTypeOK, Separate
<1>b. /\ IsFiniteSet(Late) /\ IsFiniteSet(Entered)
      /\ finished \cap waiting = {} /\ finished \cap InHand = {}
      /\ total["rows"] = total["success"] + total["failure"] + Cardinality(InHand)
      /\ total["success"] = Cardinality(finished)
      /\ total["fetches"] = Cardinality(Late) + Cardinality(Entered)
  BY DEF CountsInv, CountsAddUp
<1>c. ASSUME NEW S, S \subseteq Msgs PROVE IsFiniteSet(S) /\ Cardinality(S) \in Nat
  BY <1>c, PublishingAssumption, FS_Subset, FS_CardinalityType, SMT, Z3, Zenon DEF PublishingAssumption
<1>d. InHand \subseteq Msgs
  BY <1>0, SMT, Z3, Zenon DEF InHand
<1>e. /\ total["fetches"] \in Nat /\ total["rows"] \in Nat
      /\ total["success"] \in Nat /\ total["failure"] \in Nat
  BY <1>0, SMTT(30), Z3T(30) DEF Counters
<1>a. ASSUME UNCHANGED <<batch, waiting, finished, total, step, workerStats>> PROVE CountsInv'
  BY <1>a, SMT, Z3, Zenon DEF CountsInv, CountsAddUp, Late, Entered, InHand, Ids
<1>1. CASE Configure
  BY <1>1, <1>a, SMT, Z3, Zenon DEF Configure, metricsVars, callVars
<1>2. ASSUME NEW w \in Workers, FetchLockAndMarkPublishing(w) PROVE CountsInv'
  <2>1. PICK S \in SUBSET waiting, d \in Durations :
          /\ batch' = [batch EXCEPT ![w] = S]
          /\ waiting' = waiting \ S
          /\ RecordFetch(w, d, Cardinality(S))
    BY <1>2, Zenon DEF FetchLockAndMarkPublishing
  <2>2. batch[w] = {} /\ finished' = finished
    BY <1>2, SMT, Z3, Zenon DEF FetchLockAndMarkPublishing, Idle
  <2>3. S \subseteq Msgs /\ IsFiniteSet(S) /\ Cardinality(S) \in Nat
    BY <1>0, <1>c, SMT, Z3, Zenon
  <2>4. /\ total'["fetches"] = total["fetches"] + 1
        /\ total'["rows"] = total["rows"] + Cardinality(S)
        /\ total'["success"] = total["success"] /\ total'["failure"] = total["failure"]
        /\ Late' = Late \cup {w} /\ w \notin Late
        /\ workerStats' = workerStats
    BY <1>0, <2>1, <2>3, FetchCounts, SMTT(30), Z3T(30)
  <2>5. Entered' = Entered
    BY <2>4, SMT, Z3, Zenon DEF Entered, Ids
  <2>6. IsFiniteSet(Late') /\ Cardinality(Late') = Cardinality(Late) + 1
    BY <1>b, <2>4, FS_AddElement, SMT, Z3, Zenon
  <2>7. /\ batch'[w] = S
        /\ \A v \in Workers : v # w => batch'[v] = batch[v]
    BY <1>0, <2>1, SMT, Z3, Zenon
  <2>8. InHand' = InHand \cup S /\ InHand \cap S = {}
    <3>1. \A v \in Workers : batch'[v] = batch[v] \cup (IF v = w THEN S ELSE {})
      BY <2>2, <2>7, SMT, Z3, Zenon
    <3>2. InHand' = InHand \cup S
      BY <3>1, SMT, Z3, Zenon DEF InHand
    <3> QED  BY <1>0, <3>2, SMT, Z3, Zenon DEF InHand
  <2>9. Cardinality(InHand') = Cardinality(InHand) + Cardinality(S)
    BY <1>c, <1>d, <2>3, <2>8, DisjointUnion, ZenonT(30)
  <2>10. Cardinality(InHand) \in Nat /\ Cardinality(Late) \in Nat /\ Cardinality(Entered) \in Nat
    BY <1>b, <1>c, <1>d, FS_CardinalityType, SMTT(30), Z3T(30)
  <2>11. CountsAddUp'
    BY <1>b, <1>e, <2>2, <2>3, <2>4, <2>5, <2>6, <2>9, <2>10, SMTT(30), Z3T(30)
       DEF CountsAddUp
  <2>12. finished' \cap waiting' = {} /\ finished' \cap InHand' = {}
    BY <1>b, <2>1, <2>2, <2>8, SMTT(30), Z3T(30)
  <2> QED  BY <1>b, <2>5, <2>6, <2>11, <2>12, SMT, Z3, Zenon DEF CountsInv
<1>3. ASSUME NEW w \in Workers, Record(w) PROVE CountsInv'
  <2>1. Recording(w) /\ batch' = batch /\ waiting' = waiting /\ finished' = finished
    BY <1>3, SMTT(30), Z3T(30) DEF Record, callVars
  <2>2. InHand' = InHand
    BY <2>1 DEF InHand
  <2> QED  BY <1>0, <1>b, <2>1, <2>2, RecordingCounts, SMT, Z3, Zenon DEF CountsInv, CountsAddUp
<1>4. ASSUME NEW w \in Workers, NEW m \in Msgs, Route(w, m) PROVE CountsInv'
  BY <1>4, <1>a, Zenon DEF Route, metricsVars
<1>5. ASSUME NEW w \in Workers, NEW q \in Queues, PublishBatchToQueue(w, q) PROVE CountsInv'
  BY <1>5, <1>a, SMT, Z3, Zenon DEF PublishBatchToQueue, metricsVars
<1>6. ASSUME NEW w \in Workers, PublishBatch(w) PROVE CountsInv'
  <2> DEFINE B == batch[w]
             ok == {m \in B : result[m] \in {"ok"}}
             bad == {m \in B : result[m] \in Results \ {"ok"}}
  <2>1. /\ batch' = [batch EXCEPT ![w] = {}]
        /\ finished' = finished \cup {m \in batch[w] : result[m] = "ok"}
        /\ waiting' = waiting \cup {m \in batch[w] : result[m] \in {"retryable", "unset"}}
        /\ RecordPublish(Count(w, {"ok"}), Count(w, Results \ {"ok"}))
    BY <1>6, Zenon DEF PublishBatch
  <2>2. B \subseteq Msgs /\ ok \subseteq Msgs /\ bad \subseteq Msgs
    BY <1>0
  <2>3. B = ok \cup bad /\ ok \cap bad = {}
    BY <1>0, <2>2, Zenon
  <2>4. Count(w, {"ok"}) = Cardinality(ok) /\ Count(w, Results \ {"ok"}) = Cardinality(bad)
    BY SMT, Z3, Zenon DEF Count
  <2>5. finished' = finished \cup ok /\ waiting' = waiting \cup (waiting' \cap bad)
    BY <2>1, <2>2, <2>3, SMT, Z3, Zenon
  <2>6. B \subseteq InHand
    BY DEF InHand
  <2>7. InHand' = InHand \ B
    <3>1. batch'[w] = {} /\ \A v \in Workers : v # w => batch'[v] = batch[v]
      BY <1>0, <2>1, SMT, Z3, Zenon
    <3> QED  BY <1>0, <3>1, SMT, Z3, Zenon DEF InHand
  <2> HIDE DEF B, ok, bad
  <2>8. /\ Cardinality(ok) \in Nat /\ Cardinality(bad) \in Nat /\ Cardinality(B) \in Nat
        /\ Cardinality(InHand) \in Nat /\ Cardinality(InHand \ B) \in Nat
        /\ Cardinality(finished) \in Nat
    BY <1>0, <1>c, <1>d, <2>2, SMTT(30), Z3T(30)
  <2>9. /\ total'["fetches"] = total["fetches"] /\ total'["rows"] = total["rows"]
        /\ total'["success"] = total["success"] + Cardinality(ok)
        /\ total'["failure"] = total["failure"] + Cardinality(bad)
        /\ step' = step /\ workerStats' = workerStats
    BY <1>0, <2>1, <2>4, <2>8, PublishCounts, SMTT(30), Z3T(30)
  <2>10. Late' = Late /\ Entered' = Entered
    BY <2>9, SMT, Z3, Zenon DEF Late, Entered, Ids
  <2>11. Cardinality(B) = Cardinality(ok) + Cardinality(bad)
    BY <1>c, <2>2, <2>3, DisjointUnion, ZenonT(30)
  <2>12. Cardinality(InHand) = Cardinality(InHand \ B) + Cardinality(B)
    <3>1. InHand = (InHand \ B) \cup B /\ (InHand \ B) \cap B = {}
      BY <2>6
    <3>2. IsFiniteSet(InHand \ B) /\ IsFiniteSet(B)
      BY <1>c, <1>d, <2>2, SMT, Z3, Zenon
    <3> QED  BY <3>1, <3>2, DisjointUnion, SMT, Z3, Zenon
  <2>13. Cardinality(finished') = Cardinality(finished) + Cardinality(ok)
    <3>1. finished \cap ok = {}
      BY <1>b, <2>3, <2>6, SMT, Z3, Zenon
    <3>2. IsFiniteSet(finished) /\ IsFiniteSet(ok)
      BY <1>0, <1>c, <2>2, ZenonT(30)
    <3> QED  BY <2>5, <3>1, <3>2, DisjointUnion, ZenonT(30)
  <2>14. CountsAddUp'
    BY <1>b, <1>e, <2>7, <2>8, <2>9, <2>10, <2>11, <2>12, <2>13, SMTT(30), Z3T(30)
       DEF CountsAddUp
  <2>15. finished' \cap waiting' = {} /\ finished' \cap InHand' = {}
    <3>1. ok \cap waiting = {} /\ bad \cap finished = {}
      BY <1>0, <1>b, <2>3, <2>6, ZenonT(30) DEF B
    <3> QED  BY <1>b, <2>3, <2>5, <2>7, <3>1, ZenonT(30)
  <2> QED  BY <1>b, <2>10, <2>14, <2>15, SMT, Z3, Zenon DEF CountsInv
<1>7. CASE UNCHANGED vars
  BY <1>7, <1>a, SMT, Z3, Zenon DEF vars
<1> QED  BY <1>1, <1>2, <1>3, <1>4, <1>5, <1>6, <1>7, ZenonT(30) DEF Next

\* The counters of the collector (examples/app/internal/instrumentation) account for
\* every message and every fetch, for any number of workers, worker ids and batches:
\* nothing that was fetched is counted twice or not at all.
THEOREM NothingIsMiscounted == Spec => []CountsAddUp
<1>1. IInv => TypeOK
  BY DEF IInv
<1>2. CountsInv => CountsAddUp
  BY DEF CountsInv
<1> QED  BY InitInv, NextInv, InitCallInv, NextCallInv, InitCountsInv, NextCountsInv, <1>1, <1>2,
            PTL DEF Spec
=============================================================================
