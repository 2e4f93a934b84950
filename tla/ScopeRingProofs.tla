-------------------------- MODULE ScopeRingProofs --------------------------
(***************************************************************************)
(* What the ring helpers of contracts/v2k_scope.h compute, for every       *)
(* capacity the comment above them allows (far below 0x4000).              *)
(***************************************************************************)
EXTENDS ScopeRing, TLAPS

Capacity == 1 .. 16383

(* Every helper keeps an index in [0, 2*capacity), and its slot is a slot  *)
(* of the ring.                                                            *)
THEOREM RingClosed ==
  ASSUME NEW cap \in Capacity, NEW i \in Indices(cap), NEW n \in 0 .. cap
  PROVE  /\ RingNext(i, cap) \in Indices(cap)
         /\ RingBack(i, n, cap) \in Indices(cap)
         /\ RingAdd(i, n, cap) \in Indices(cap)
         /\ RingPos(i, cap) \in 0 .. cap - 1
<1> USE DEF Capacity, Indices, Uint16
<1>1. RingNext(i, cap) \in Indices(cap)
  BY DEF RingNext
<1>2. RingBack(i, n, cap) \in Indices(cap)
  BY DEF RingBack
<1>3. RingAdd(i, n, cap) \in Indices(cap)
  BY DEF RingAdd
<1>4. RingPos(i, cap) \in 0 .. cap - 1
  BY DEF RingPos
<1> QED
  BY <1>1, <1>2, <1>3, <1>4

(* Publishing one block moves the producer exactly one block further from  *)
(* the consumer, and releasing one brings the consumer exactly one closer. *)
THEOREM RingDistance ==
  ASSUME NEW cap \in Capacity, NEW wr \in Indices(cap), NEW rd \in Indices(cap)
  PROVE  /\ RingDist(wr, rd, cap) \in 0 .. 2 * cap - 1
         /\ RingDist(wr, rd, cap) = 0 <=> wr = rd
         /\ RingDist(wr, rd, cap) < 2 * cap - 1 =>
              RingDist(RingNext(wr, cap), rd, cap) = RingDist(wr, rd, cap) + 1
         /\ wr # rd =>
              RingDist(wr, RingNext(rd, cap), cap) = RingDist(wr, rd, cap) - 1
<1> USE DEF Capacity, Indices, Uint16
<1>1. RingDist(wr, rd, cap) \in 0 .. 2 * cap - 1
  BY DEF RingDist
<1>2. RingDist(wr, rd, cap) = 0 <=> wr = rd
  BY DEF RingDist
<1>3. RingDist(wr, rd, cap) < 2 * cap - 1 =>
        RingDist(RingNext(wr, cap), rd, cap) = RingDist(wr, rd, cap) + 1
  BY DEF RingDist, RingNext
<1>4. wr # rd =>
        RingDist(wr, RingNext(rd, cap), cap) = RingDist(wr, rd, cap) - 1
  BY DEF RingDist, RingNext
<1> QED
  BY <1>1, <1>2, <1>3, <1>4

(* While the ring is not full, the slot being filled is none of the slots  *)
(* that are published and unread: the argument that lets CPU1 write and    *)
(* CPU2 read without a lock.                                               *)
THEOREM RingSlotsDisjoint ==
  ASSUME NEW cap \in Capacity, NEW wr \in Indices(cap), NEW rd \in Indices(cap),
         RingDist(wr, rd, cap) < cap,
         NEW k \in 0 .. cap - 1, k < RingDist(wr, rd, cap)
  PROVE  RingPos(RingAdd(rd, k, cap), cap) # RingPos(wr, cap)
BY DEF Capacity, Indices, Uint16, RingDist, RingAdd, RingPos

(* A frozen window of n <= capacity blocks that ends before index e: its   *)
(* k-th block is n - k steps back, and no two blocks share a slot.         *)
THEOREM FrozenBlocksDistinct ==
  ASSUME NEW cap \in Capacity, NEW e \in Indices(cap), NEW n \in 1 .. cap,
         NEW j \in 0 .. n - 1, NEW k \in 0 .. n - 1, j # k
  PROVE  RingPos(RingAdd(RingBack(e, n, cap), j, cap), cap) #
         RingPos(RingAdd(RingBack(e, n, cap), k, cap), cap)
BY DEF Capacity, Indices, Uint16, RingBack, RingAdd, RingPos
(* uint16_t arithmetic on what is at most one turn of 2^16 off.             *)
LEMMA Wraps16 ==
  ASSUME NEW v \in Int
  PROVE  /\ 0 <= v /\ v < 65536 => v % 65536 = v
         /\ -65536 <= v /\ v < 0 => v % 65536 = v + 65536
OBVIOUS

(* One block on and k back is k - 1 back; a block less than a turn back is *)
(* in another slot.                                                        *)
LEMMA RingSteps ==
  ASSUME NEW cap \in Capacity, NEW i \in Indices(cap)
  PROVE  /\ RingBack(i, 0, cap) = i
         /\ \A k \in 1 .. cap : RingBack(RingNext(i, cap), k, cap) = RingBack(i, k - 1, cap)
         /\ \A k \in 1 .. cap - 1 : RingPos(RingBack(i, k, cap), cap) # RingPos(i, cap)
<1> USE DEF Capacity, Indices, Uint16
<1>1. RingBack(i, 0, cap) = i
  BY DEF RingBack
<1>2. \A k \in 1 .. cap : RingBack(RingNext(i, cap), k, cap) = RingBack(i, k - 1, cap)
  BY DEF RingBack, RingNext
<1>3. \A k \in 1 .. cap - 1 : RingPos(RingBack(i, k, cap), cap) # RingPos(i, cap)
  <2> TAKE k \in 1 .. cap - 1
  <2> DEFINE b == RingBack(i, k, cap)
  <2>1. b = IF i >= k THEN i - k ELSE i + 2 * cap - k
    <3>1. i < k => i + 2 * cap - k \in Int /\ 0 <= i + 2 * cap - k /\ i + 2 * cap - k < 65536
      OBVIOUS
    <3> QED
      BY <3>1, Wraps16 DEF RingBack
  <2>2. b \in 0 .. 2 * cap - 1 /\ b # i /\ b # i - cap /\ b # i + cap
    BY <2>1
  <2> HIDE DEF b
  <2>3. \A v \in 0 .. 2 * cap - 1 : RingPos(v, cap) = IF v >= cap THEN v - cap ELSE v
    BY Wraps16 DEF RingPos
  <2>4. RingPos(b, cap) # RingPos(i, cap)
    BY <2>2, <2>3
  <2> QED
    BY <2>4 DEF b
<1> QED
  BY <1>1, <1>2, <1>3

(* A reader is as far back as its distance.                                *)
LEMMA RingReader ==
  ASSUME NEW cap \in Capacity, NEW wr \in Indices(cap), NEW rd \in Indices(cap)
  PROVE  rd = RingBack(wr, RingDist(wr, rd, cap), cap)
BY DEF Capacity, Indices, Uint16, RingDist, RingBack

Wide == 0 .. 2 * 16383 - 1   \* an index of some ring

(* A cached read index of another geometry never looks closer than it was: *)
(* while the ring looks free, a step of the writer counts one, or fills it.*)
LEMMA RingCached ==
  ASSUME NEW cap \in Capacity, NEW wr \in Indices(cap), NEW x \in Wide,
         RingDist(wr, x, cap) < cap
  PROVE  \/ RingDist(RingNext(wr, cap), x, cap) = RingDist(wr, x, cap) + 1
         \/ RingDist(RingNext(wr, cap), x, cap) >= cap
<1> USE DEF Capacity, Indices, Uint16, Wide
<1> DEFINE d(w) == IF w >= x THEN w - x
                   ELSE IF w + 2 * cap >= x THEN w + 2 * cap - x
                   ELSE w + 2 * cap - x + 65536
<1>1. \A w \in 0 .. 2 * cap - 1 : RingDist(w, x, cap) = d(w)
  <2> TAKE w \in 0 .. 2 * cap - 1
  <2>1. CASE w >= x
    BY <2>1 DEF RingDist
  <2>2. CASE w < x /\ w + 2 * cap >= x
    <3>1. w + 2 * cap - x \in Int /\ 0 <= w + 2 * cap - x /\ w + 2 * cap - x < 65536
      BY <2>2
    <3> QED
      BY <2>2, <3>1, Wraps16 DEF RingDist
  <2>3. CASE w < x /\ w + 2 * cap < x
    <3>1. w + 2 * cap - x \in Int /\ -65536 <= w + 2 * cap - x /\ w + 2 * cap - x < 0
      BY <2>3
    <3> QED
      BY <2>3, <3>1, Wraps16 DEF RingDist
  <2> QED
    BY <2>1, <2>2, <2>3
<1>2. RingNext(wr, cap) = IF wr + 1 = 2 * cap THEN 0 ELSE wr + 1
  BY Wraps16 DEF RingNext
<1> DEFINE n == IF wr + 1 = 2 * cap THEN 0 ELSE wr + 1
<1>3. d(wr) < cap => d(n) = d(wr) + 1 \/ d(n) >= cap
  <2>1. CASE wr >= x
    BY <2>1
  <2>2. CASE wr < x /\ wr + 1 < 2 * cap
    BY <2>2
  <2>3. CASE wr < x /\ wr + 1 = 2 * cap
    BY <2>3
  <2> QED
    BY <2>1, <2>2, <2>3
<1>4. n \in 0 .. 2 * cap - 1
  OBVIOUS
<1> HIDE DEF d, n
<1> QED
  BY <1>1, <1>2, <1>3, <1>4 DEF n

(* The j-th of n blocks that end before index e is n - j steps back.       *)
LEMMA RingFrozen ==
  ASSUME NEW cap \in Capacity, NEW e \in Indices(cap), NEW n \in 0 .. cap, NEW j \in 0 .. n
  PROVE  RingAdd(RingBack(e, n, cap), j, cap) = RingBack(e, n - j, cap)
BY DEF Capacity, Indices, Uint16, RingBack, RingAdd
=============================================================================
