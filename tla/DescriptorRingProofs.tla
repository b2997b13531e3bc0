------------------------ MODULE DescriptorRingProofs ------------------------
(***************************************************************************)
(* Arithmetic of positions on a ring of any size.                          *)
(***************************************************************************)
EXTENDS DescriptorRing, Integers, TLAPS

\* How far descriptor i lies after descriptor r.
Distance(i, r) == IF i >= r THEN i - r ELSE i + N - r

LEMMA SizeType == N \in Nat /\ N >= 1
BY RingAssumption

LEMMA DistanceType ==
  ASSUME NEW i \in Desc, NEW r \in Desc
  PROVE  /\ Distance(i, r) \in 0 .. N - 1
         /\ At(r, Distance(i, r)) = i
         /\ Distance(r, r) = 0
BY SizeType DEF Desc, Distance, At

LEMMA AtType ==
  ASSUME NEW r \in Desc, NEW k \in 0 .. N - 1
  PROVE  At(r, k) \in Desc /\ Distance(At(r, k), r) = k
BY SizeType DEF Desc, Distance, At

LEMMA NextType ==
  ASSUME NEW i \in Desc, NEW r \in Desc
  PROVE  /\ Next_(i) \in Desc
         /\ Distance(i, r) + 1 < N => Distance(Next_(i), r) = Distance(i, r) + 1
         /\ Distance(i, r) + 1 = N => Next_(i) = r
BY SizeType DEF Desc, Distance, Next_

LEMMA DistanceShifts ==
  ASSUME NEW i \in Desc, NEW r \in Desc, NEW s \in 0 .. N - 1
  PROVE  Distance(i, At(r, s)) = IF s <= Distance(i, r) THEN Distance(i, r) - s
                                 ELSE Distance(i, r) - s + N
BY SizeType DEF Desc, Distance, At

\* Counts of descriptors, N itself included, as positions.
LEMMA WrapType == \A k \in 0 .. N : k % N = IF k = N THEN 0 ELSE k
BY SizeType

LEMMA SameDistance ==
  ASSUME NEW i \in Desc, NEW j \in Desc, NEW r \in Desc, Distance(i, r) = Distance(j, r)
  PROVE  i = j
BY SizeType DEF Desc, Distance

\* The position of a count of descriptors after r.
LEMMA PositionType ==
  ASSUME NEW r \in Desc, NEW k \in 0 .. N
  PROVE  /\ At(r, k % N) \in Desc
         /\ k < N => Distance(At(r, k % N), r) = k
         /\ k = N => At(r, k % N) = r
<1>1. k % N = IF k = N THEN 0 ELSE k
  BY WrapType
<1>2. CASE k = N
  <2>1. At(r, 0) = r
    BY SizeType DEF At, Desc
  <2> QED
    BY <1>1, <1>2, <2>1, SizeType
<1>3. CASE k # N
  <2>1. k \in 0 .. N - 1 /\ k % N = k
    BY <1>1, <1>3, SizeType
  <2> QED
    BY <1>3, <2>1, AtType
<1> QED
  BY <1>2, <1>3

LEMMA PositionIs ==
  ASSUME NEW r \in Desc, NEW k \in 0 .. N, NEW i \in Desc,
         k < N => Distance(i, r) = k, k = N => i = r
  PROVE  i = At(r, k % N)
<1>1. At(r, k % N) \in Desc /\ (k < N => Distance(At(r, k % N), r) = k)
      /\ (k = N => At(r, k % N) = r)
  BY PositionType
<1>2. k < N \/ k = N
  BY SizeType
<1> QED
  BY <1>1, <1>2, SameDistance

LEMMA DistanceAfterNext ==
  ASSUME NEW i \in Desc, NEW r \in Desc
  PROVE  Distance(i, Next_(r)) = IF i = r THEN N - 1 ELSE Distance(i, r) - 1
BY SizeType DEF Desc, Distance, Next_

\* The next position after a count of descriptors.
LEMMA PositionNext ==
  ASSUME NEW r \in Desc, NEW k \in 0 .. N - 1
  PROVE  Next_(At(r, k % N)) = At(r, (k + 1) % N)
<1>1. k \in 0 .. N /\ k + 1 \in 0 .. N /\ k < N
  BY SizeType
<1>2. At(r, k % N) \in Desc /\ Distance(At(r, k % N), r) = k
  BY <1>1, PositionType
<1>3. /\ Next_(At(r, k % N)) \in Desc
      /\ k + 1 < N => Distance(Next_(At(r, k % N)), r) = k + 1
      /\ k + 1 = N => Next_(At(r, k % N)) = r
  BY <1>2, NextType
<1> QED
  BY <1>1, <1>3, PositionIs
=============================================================================
