------------------------- MODULE ScopeBlockProofs -------------------------
(***************************************************************************)
(* What CPU2 reads out of the ring, for every set of capacities, block     *)
(* size and bound: the blocks it copies are whole, the stream it sends has *)
(* no unaccounted gap, and a frozen window is contiguous, ends with the    *)
(* last post-trigger sample and is as long as was asked for; and the ring  *)
(* implements the bounded queue of BlockStream.  The host turns a sampling *)
(* scope OFF before it configures it anew, and CPU1 answers in time.       *)
(***************************************************************************)
EXTENDS ScopeProofs, SequenceTheorems

-----------------------------------------------------------------------------
(* The memory of a ring r of capacity c, at tick t.                        *)

\* The block being filled, and the k-th published one before it.
Here(r, c) == r.slots[RingPos(r.wr, c)]
Back(r, k, c) == r.slots[RingPos(RingBack(r.wr, k, c), c)]

\* The published blocks that are not being overwritten.
Filling(r) == r.sib > 0 /\ ~r.drop
Kept(r, c) == IF Filling(r) THEN c - 1 ELSE c
KeptBlocks(r, c) == {k \in 1 .. r.pub : k <= Kept(r, c)}

\* The first n ticks of a block are those its start announces.
Runs(b, n) == b.start > 0 /\ \A k \in 1 .. n : b.data[k] = b.start + k - 1
Whole(b) == b.n \in 1 .. NTicks /\ Runs(b, b.n)

\* A block is as many blocks before the one being filled in time as in number.
InStep(b, r, t) == b.start + NTicks * (r.seq - b.seq) = t - r.sib + 1

HereWhole(r, t, c) ==
  Filling(r) =>
    /\ Here(r, c).n = NTicks /\ Here(r, c).seq = r.seq /\ Here(r, c).start = t - r.sib + 1
    /\ Runs(Here(r, c), r.sib)
BackWhole(r, t, c) ==
  \A k \in KeptBlocks(r, c) : /\ Whole(Back(r, k, c)) /\ InStep(Back(r, k, c), r, t)
                              /\ Back(r, k, c).seq < r.seq
BackOrdered(r, c) ==
  \A k \in KeptBlocks(r, c) : \A j \in 1 .. k - 1 : Back(r, k, c).seq < Back(r, j, c).seq
MemoryWhole(r, t, c) == HereWhole(r, t, c) /\ BackWhole(r, t, c) /\ BackOrdered(r, c)

\* A capture loses no block.
InRow(r, c) ==
  /\ ~r.drop
  /\ \A k \in KeptBlocks(r, c) : Back(r, k, c).n = NTicks /\ Back(r, k, c).seq = r.seq - k

-----------------------------------------------------------------------------
(* What the steps of the interrupt do to the memory.                       *)

\* Every slot of every capacity is a slot of the memory.
LEMMA SlotsCover ==
  ASSUME NEW c \in Capacities
  PROVE  0 .. c - 1 \subseteq Slots
<1>1. PICK n \in Nat : Capacities \subseteq 1 .. n
  <2> DEFINE m == 16383
  <2>1. m \in Nat /\ Capacities \subseteq 1 .. m
    BY RingAssumption
  <2> HIDE DEF m
  <2> QED
    BY <2>1
<1>2. Capacities \subseteq 0 .. n /\ Capacities # {}
  BY <1>1
<1>3. \E x \in Capacities : \A y \in Capacities : y <= x
  BY <1>2, GreatestExists
<1>4. Maxi(Capacities) \in Capacities /\ \A y \in Capacities : y <= Maxi(Capacities)
  BY <1>3 DEF Maxi
<1>5. \A x \in Capacities : x \in Nat
  BY <1>1
<1> DEFINE greatest == Maxi(Capacities)
<1>6. greatest \in Nat /\ c \in Nat /\ c <= greatest
  <2> HIDE DEF greatest
  <2> QED
    BY <1>4, <1>5 DEF greatest
<1> HIDE DEF greatest
<1>7. 0 .. c - 1 \subseteq 0 .. greatest - 1
  BY <1>6
<1> QED
  BY <1>7 DEF Slots, greatest

\* The slots of a ring with capacity: where the writer is, and k blocks back.
LEMMA Places ==
  ASSUME NEW c \in Capacities, NEW i \in Indices(c) \cup {0}
  PROVE  /\ c \in Capacity /\ i \in Indices(c)
         /\ RingPos(i, c) \in Slots
         /\ \A k \in 0 .. c : RingBack(i, k, c) \in Indices(c)
                              /\ RingPos(RingBack(i, k, c), c) \in Slots
         /\ \A k \in 1 .. c - 1 : RingPos(RingBack(i, k, c), c) # RingPos(i, c)
         /\ RingNext(i, c) \in Indices(c)
         /\ \A k \in 1 .. c : RingBack(RingNext(i, c), k, c) = RingBack(i, k - 1, c)
         /\ RingBack(i, 0, c) = i
<1>1. c \in Capacity /\ i \in Indices(c) /\ 0 \in 0 .. c
  BY CapacitiesAre DEF Capacity, Indices
<1>2. \A k \in 0 .. c : RingBack(i, k, c) \in Indices(c)
  BY <1>1, RingClosed
<1>3. \A j \in Indices(c) : RingPos(j, c) \in Slots
  BY <1>1, RingClosed, SlotsCover
<1>4. RingNext(i, c) \in Indices(c)
  BY <1>1, RingClosed
<1> QED
  BY <1>1, <1>2, <1>3, <1>4, RingSteps

\* The words of a block of the memory are numbers.
LEMMA BlockWords ==
  ASSUME NEW r \in Rings, NEW s \in Slots
  PROVE  /\ r.slots[s] \in Blocks /\ r.slots[s].start \in Nat /\ r.slots[s].seq \in Nat
         /\ r.slots[s].n \in 0 .. NTicks
         /\ \A k \in 1 .. NTicks : r.slots[s].data[k] \in Nat
<1>1. r.slots[s] \in Blocks
  BY DEF Rings, Memory
<1>2. \A b \in Blocks : /\ b.start \in Ticks /\ b.seq \in Nat /\ b.n \in 0 .. NTicks
                        /\ b.data \in [1 .. NTicks -> Ticks]
  BY DEF Blocks
<1>3. Ticks \subseteq Nat
  BY Bounds DEF Ticks
<1> QED
  BY <1>1, <1>2, <1>3

\* One block more is NTicks ticks more.
LEMMA NextBlock ==
  ASSUME NEW n \in Int, NEW a \in Int, NEW b \in Int
  PROVE  /\ n * (a + 1 - b) = n * (a - b) + n
         /\ n * (a - b) = n * a - n * b
OBVIOUS

Drops == IF ring.sib = 0 THEN DropsBlock ELSE ring.drop

\* What Store changes: the head of a new block, one tick, and nothing outside
\* its slot.
LEMMA StoreFacts ==
  ASSUME TypeInv, cap # 0, tick < MaxTick
  PROVE  LET p == RingPos(ring.wr, cap) IN
         /\ Store \in Rings /\ Drops \in BOOLEAN
         /\ Store.wr = ring.wr /\ Store.seq = ring.seq /\ Store.pub = ring.pub
         /\ Store.sib = ring.sib + 1 /\ Store.drop = Drops
         /\ Drops => Store.slots = ring.slots
         /\ \A s \in Slots : s # p => Store.slots[s] = ring.slots[s]
         /\ ~Drops /\ ring.sib = 0 =>
              /\ Store.slots[p].start = tick + 1 /\ Store.slots[p].seq = ring.seq
              /\ Store.slots[p].n = NTicks /\ Store.slots[p].data[1] = tick + 1
         /\ ~Drops /\ ring.sib # 0 =>
              /\ Store.slots[p].start = ring.slots[p].start
              /\ Store.slots[p].seq = ring.slots[p].seq /\ Store.slots[p].n = ring.slots[p].n
              /\ \A k \in 1 .. ring.sib : Store.slots[p].data[k] = ring.slots[p].data[k]
              /\ Store.slots[p].data[ring.sib + 1] = tick + 1
<1> USE Bounds
<1> DEFINE p == RingPos(ring.wr, cap)
           old == ring.slots[p]
           head == IF ring.sib = 0
                   THEN [old EXCEPT !.start = tick + 1, !.seq = ring.seq, !.n = NTicks]
                   ELSE old
           new == [head EXCEPT !.data[ring.sib + 1] = tick + 1]
           blk == IF Drops THEN old ELSE new
<1>1. ring \in Rings /\ ring.sib \in 0 .. NTicks - 1 /\ ring.wr \in Indices(cap) \cup {0}
      /\ cap \in Capacities
  BY DEF TypeInv, IsrTyped, RingTyped, RingWords
<1>2. Drops \in BOOLEAN
  BY <1>1 DEF Drops, DropsBlock, Rings
<1>3. p \in Slots
  BY <1>1, Places
<1>4. old \in Blocks /\ ring.slots \in [Slots -> Blocks]
  BY <1>1, <1>3 DEF Rings, Memory
<1>5. Store = [ring EXCEPT !.drop = Drops, !.sib = ring.sib + 1,
                           !.slots = [ring.slots EXCEPT ![p] = blk]]
  BY <1>1 DEF Store, Rings, Drops
<1>6. Store \in Rings
  BY StoreTyped DEF RingWords
<1> HIDE DEF p, blk
<1>7. /\ Store.wr = ring.wr /\ Store.seq = ring.seq /\ Store.pub = ring.pub
      /\ Store.sib = ring.sib + 1 /\ Store.drop = Drops
      /\ Store.slots = [ring.slots EXCEPT ![p] = blk]
  BY <1>1, <1>5 DEF Rings
<1>8. Store.slots[p] = blk /\ \A s \in Slots : s # p => Store.slots[s] = ring.slots[s]
  BY <1>3, <1>4, <1>7
<1>9. Drops => Store.slots = ring.slots
  BY <1>3, <1>4, <1>7 DEF blk
<1>10. ~Drops /\ ring.sib = 0 =>
         /\ blk.start = tick + 1 /\ blk.seq = ring.seq /\ blk.n = NTicks
         /\ blk.data[1] = tick + 1
  <2> HIDE DEF old
  <2> SUFFICES ASSUME ~Drops, ring.sib = 0
               PROVE  /\ new.start = tick + 1 /\ new.seq = ring.seq /\ new.n = NTicks
                      /\ new.data[1] = tick + 1
    BY DEF blk
  <2>1. /\ head = [old EXCEPT !.start = tick + 1, !.seq = ring.seq, !.n = NTicks]
        /\ 1 \in 1 .. NTicks
    OBVIOUS
  <2>2. /\ head.start = tick + 1 /\ head.seq = ring.seq /\ head.n = NTicks
        /\ head.data \in [1 .. NTicks -> Ticks]
        /\ DOMAIN head = {"start", "seq", "n", "data"}
    BY <1>4, <2>1 DEF Blocks
  <2> HIDE DEF head
  <2>3. /\ new.start = head.start /\ new.seq = head.seq /\ new.n = head.n
        /\ new.data = [head.data EXCEPT ![1] = tick + 1]
    BY <2>2
  <2> HIDE DEF new
  <2> QED
    BY <2>1, <2>2, <2>3
<1>11. ~Drops /\ ring.sib # 0 =>
         /\ blk.start = old.start /\ blk.seq = old.seq /\ blk.n = old.n
         /\ \A k \in 1 .. ring.sib : blk.data[k] = old.data[k]
         /\ blk.data[ring.sib + 1] = tick + 1
  <2> HIDE DEF old
  <2> SUFFICES ASSUME ~Drops, ring.sib # 0
               PROVE  /\ new.start = old.start /\ new.seq = old.seq /\ new.n = old.n
                      /\ \A k \in 1 .. ring.sib : new.data[k] = old.data[k]
                      /\ new.data[ring.sib + 1] = tick + 1
    BY DEF blk
  <2>1. /\ head = old /\ ring.sib + 1 \in 1 .. NTicks
        /\ \A k \in 1 .. ring.sib : k \in 1 .. NTicks /\ k # ring.sib + 1
    BY <1>1
  <2>2. /\ head.data \in [1 .. NTicks -> Ticks]
        /\ DOMAIN head = {"start", "seq", "n", "data"}
    BY <1>4, <2>1 DEF Blocks
  <2>3. head = old
    BY <2>1
  <2> HIDE DEF head
  <2>4. /\ new.start = head.start /\ new.seq = head.seq /\ new.n = head.n
        /\ new.data = [head.data EXCEPT ![ring.sib + 1] = tick + 1]
    BY <2>2
  <2> HIDE DEF new
  <2> QED
    BY <2>1, <2>2, <2>3, <2>4
<1> QED
  BY <1>2, <1>6, <1>7, <1>8, <1>9, <1>10, <1>11 DEF p
\* What Publish changes: the length of one block and the counters.
LEMMA PublishFacts ==
  ASSUME TypeInv, cap # 0, NEW r, RingWords(r), NEW n \in 0 .. NTicks
  PROVE  LET p == RingPos(r.wr, cap)  w == Publish(r, n) IN
         /\ w \in Rings /\ w.wr = RingNext(r.wr, cap) /\ w.seq = r.seq + 1 /\ w.sib = 0
         /\ w.drop = r.drop /\ w.pub = IF r.pub < cap THEN r.pub + 1 ELSE r.pub
         /\ w.slots[p].start = r.slots[p].start /\ w.slots[p].seq = r.slots[p].seq
         /\ w.slots[p].data = r.slots[p].data /\ w.slots[p].n = n
         /\ \A s \in Slots : s # p => w.slots[s] = r.slots[s]
<1> DEFINE p == RingPos(r.wr, cap)
           blk == [r.slots[p] EXCEPT !.n = n]
           pub == IF r.pub < cap THEN r.pub + 1 ELSE r.pub
           w == Publish(r, n)
<1>1. r \in Rings /\ r.wr \in Indices(cap) \cup {0} /\ cap \in Capacities
  BY DEF TypeInv, IsrTyped, RingWords
<1>2. p \in Slots
  BY <1>1, Places
<1>3. r.slots[p] \in Blocks /\ r.slots \in [Slots -> Blocks]
  BY <1>1, <1>2 DEF Rings, Memory
<1>4. w = [r EXCEPT !.slots = [r.slots EXCEPT ![p] = blk], !.wr = RingNext(r.wr, cap),
                    !.seq = r.seq + 1, !.pub = pub, !.sib = 0]
  BY <1>1 DEF Publish, Rings
<1>5. w \in Rings
  BY PublishTyped DEF RingWords
<1> HIDE DEF p, blk, pub
<1>6. /\ w.wr = RingNext(r.wr, cap) /\ w.seq = r.seq + 1 /\ w.sib = 0
      /\ w.drop = r.drop /\ w.pub = pub /\ w.slots = [r.slots EXCEPT ![p] = blk]
  BY <1>1, <1>4 DEF Rings
<1>7. w.slots[p] = blk /\ \A s \in Slots : s # p => w.slots[s] = r.slots[s]
  BY <1>2, <1>3, <1>6
<1>8. /\ blk.start = r.slots[p].start /\ blk.seq = r.slots[p].seq
      /\ blk.data = r.slots[p].data /\ blk.n = n
  BY <1>3 DEF blk, Blocks
<1> QED
  BY <1>5, <1>6, <1>7, <1>8 DEF p, pub

\* What a publication moves: the block being filled is the first one back, and
\* each published one that is kept is one further back.
LEMMA PublishMoves ==
  ASSUME TypeInv, cap # 0, NEW r, RingWords(r), NEW n \in 0 .. NTicks
  PROVE  LET w == Publish(r, n) IN
         /\ Back(w, 1, cap).start = Here(r, cap).start /\ Back(w, 1, cap).n = n
         /\ Back(w, 1, cap).seq = Here(r, cap).seq /\ Back(w, 1, cap).data = Here(r, cap).data
         /\ \A k \in 2 .. cap : Back(w, k, cap) = Back(r, k - 1, cap)
<1>1. cap \in Capacities /\ r.wr \in Indices(cap) \cup {0}
  BY DEF TypeInv, IsrTyped, RingWords
<1>2. cap \in Nat /\ cap > 0
  BY <1>1, CapacitiesAre
<1> DEFINE w == Publish(r, n)
           p == RingPos(r.wr, cap)
<1>3. \A k \in 1 .. cap : RingBack(w.wr, k, cap) = RingBack(r.wr, k - 1, cap)
  BY <1>1, Places, PublishFacts
<1>4. 1 \in 1 .. cap /\ RingBack(w.wr, 1, cap) = r.wr
  BY <1>1, <1>2, <1>3, Places
<1>5. Back(w, 1, cap) = w.slots[p]
  BY <1>4 DEF Back
<1>6. \A k \in 2 .. cap : Back(w, k, cap) = Back(r, k - 1, cap)
  <2> TAKE k \in 2 .. cap
  <2>1. k \in 1 .. cap /\ k - 1 \in 0 .. cap /\ k - 1 \in 1 .. cap - 1
    BY <1>2
  <2>2. RingPos(RingBack(r.wr, k - 1, cap), cap) \in Slots
        /\ RingPos(RingBack(r.wr, k - 1, cap), cap) # p
    BY <1>1, <2>1, Places
  <2> QED
    BY <1>3, <2>1, <2>2, PublishFacts DEF Back
<1> QED
  BY <1>5, <1>6, PublishFacts DEF Here

\* A block being filled is whole as soon as it is published, however short.
LEMMA PublishWhole ==
  ASSUME TypeInv, cap # 0, NEW r, RingWords(r), NEW t, MemoryWhole(r, t, cap),
         r.sib \in 1 .. NTicks, ~r.drop
  PROVE  LET w == Publish(r, r.sib) IN
         /\ \A k \in 1 .. w.pub : Whole(Back(w, k, cap))
         /\ \A k \in 2 .. w.pub : k - 1 \in KeptBlocks(r, cap)
<1> USE Bounds
<1> DEFINE w == Publish(r, r.sib)
<1>1. cap \in Nat /\ cap > 0 /\ r.sib \in 0 .. NTicks /\ r.pub \in 0 .. cap
  BY CapacitiesAre DEF TypeInv, IsrTyped, RingWords
<1>2. w.pub = IF r.pub < cap THEN r.pub + 1 ELSE r.pub
  BY <1>1, PublishFacts
<1>3. Filling(r) /\ Kept(r, cap) = cap - 1
  BY DEF Filling, Kept
<1>4. \A k \in 2 .. w.pub : k - 1 \in KeptBlocks(r, cap) /\ k \in 2 .. cap
  BY <1>1, <1>2, <1>3 DEF KeptBlocks
<1>5. \A k \in 2 .. w.pub : Whole(Back(w, k, cap))
  <2> TAKE k \in 2 .. w.pub
  <2>1. Back(w, k, cap) = Back(r, k - 1, cap)
    BY <1>1, <1>4, PublishMoves
  <2> QED
    BY <1>4, <2>1 DEF MemoryWhole, BackWhole
<1>6. Whole(Back(w, 1, cap))
  <2>1. /\ Back(w, 1, cap).start = Here(r, cap).start /\ Back(w, 1, cap).n = r.sib
        /\ Back(w, 1, cap).data = Here(r, cap).data
    BY <1>1, PublishMoves
  <2>2. Runs(Here(r, cap), r.sib)
    BY <1>3 DEF MemoryWhole, HereWhole
  <2> QED
    BY <2>1, <2>2 DEF Whole, Runs
<1>7. \A k \in 1 .. w.pub : k = 1 \/ k \in 2 .. w.pub
  BY <1>1, <1>2
<1> HIDE DEF w
<1> QED
  BY <1>4, <1>5, <1>6, <1>7 DEF w
\* A sample leaves the published blocks that are kept alone, and the block it
\* goes to runs up to it.
LEMMA StoreMoves ==
  ASSUME TypeInv, cap # 0, tick < MaxTick
  PROVE  /\ KeptBlocks(Store, cap) \subseteq KeptBlocks(ring, cap)
         /\ \A k \in KeptBlocks(Store, cap) : Back(Store, k, cap) = Back(ring, k, cap)
<1>1. /\ cap \in Capacities /\ cap \in Nat /\ ring.sib \in Nat /\ ring.pub \in 0 .. cap
      /\ ring.wr \in Indices(cap) \cup {0} /\ ring.drop \in BOOLEAN
  BY CapacitiesAre DEF TypeInv, IsrTyped, RingTyped, RingWords, Rings
<1>2. /\ Store.sib = ring.sib + 1 /\ Store.drop = Drops /\ Drops \in BOOLEAN
      /\ Store.pub = ring.pub /\ Store.wr = ring.wr
  BY StoreFacts
<1>3. Kept(Store, cap) = IF Drops THEN cap ELSE cap - 1
  BY <1>1, <1>2 DEF Kept, Filling
<1>4. Kept(Store, cap) <= Kept(ring, cap)
  BY <1>1, <1>3 DEF Kept, Filling, Drops
<1>5. KeptBlocks(Store, cap) \subseteq KeptBlocks(ring, cap)
  <2>1. Kept(ring, cap) \in Int /\ Kept(Store, cap) \in Int
    BY <1>1, <1>3 DEF Kept
  <2> QED
    BY <1>1, <1>2, <1>4, <2>1 DEF KeptBlocks
<1>6. ASSUME NEW k \in KeptBlocks(Store, cap) PROVE Back(Store, k, cap) = Back(ring, k, cap)
  <2>1. CASE Drops
    BY <1>2, <2>1, StoreFacts DEF Back
  <2>2. CASE ~Drops
    <3>1. k \in 1 .. cap - 1 /\ k \in 0 .. cap
      BY <1>1, <1>2, <1>3, <2>2 DEF KeptBlocks
    <3>2. RingPos(RingBack(ring.wr, k, cap), cap) \in Slots
          /\ RingPos(RingBack(ring.wr, k, cap), cap) # RingPos(ring.wr, cap)
      BY <1>1, <3>1, Places
    <3> QED
      BY <1>2, <3>2, StoreFacts DEF Back
  <2> QED
    BY <2>1, <2>2
<1> QED
  BY <1>5, <1>6

\* One more tick leaves the memory whole.
LEMMA StoreWhole ==
  ASSUME TypeInv, cap # 0, tick < MaxTick, MemoryWhole(ring, tick, cap), NEW w, w = Store
  PROVE  MemoryWhole(w, tick + 1, cap)
<1> USE Bounds
<1>1. /\ tick \in Nat /\ ring.sib \in 0 .. NTicks - 1 /\ ring.drop \in BOOLEAN
  BY DEF TypeInv, IsrTyped, Ticks, RingTyped, RingWords, Rings
<1>2. /\ w.sib = ring.sib + 1 /\ w.drop = Drops /\ Drops \in BOOLEAN
      /\ w.pub = ring.pub /\ w.wr = ring.wr /\ w.seq = ring.seq
  BY StoreFacts
<1>3. BackWhole(w, tick + 1, cap)
  <2> SUFFICES ASSUME NEW k \in KeptBlocks(w, cap)
               PROVE  /\ Whole(Back(w, k, cap))
                      /\ InStep(Back(w, k, cap), w, tick + 1)
                      /\ Back(w, k, cap).seq < w.seq
    BY DEF BackWhole
  <2>1. Back(w, k, cap) = Back(ring, k, cap) /\ k \in KeptBlocks(ring, cap)
    BY StoreMoves
  <2>2. (tick + 1) - w.sib + 1 = tick - ring.sib + 1
    BY <1>1, <1>2
  <2>3. /\ Whole(Back(ring, k, cap)) /\ InStep(Back(ring, k, cap), ring, tick)
        /\ Back(ring, k, cap).seq < ring.seq
    BY <2>1 DEF MemoryWhole, BackWhole
  <2> DEFINE b == Back(ring, k, cap)
  <2>4. InStep(b, w, tick + 1)
    <3> HIDE DEF b
    <3>1. NTicks * (w.seq - b.seq) = NTicks * (ring.seq - b.seq)
      BY <1>2
    <3>2. InStep(b, ring, tick)
      BY <2>3 DEF b
    <3> QED
      BY <2>2, <3>1, <3>2 DEF InStep
  <2> QED
    BY <1>2, <2>1, <2>3, <2>4
<1>4. BackOrdered(w, cap)
  <2> SUFFICES ASSUME NEW k \in KeptBlocks(w, cap), NEW j \in 1 .. k - 1
               PROVE  Back(w, k, cap).seq < Back(w, j, cap).seq
    BY DEF BackOrdered
  <2>1. Back(w, k, cap) = Back(ring, k, cap) /\ k \in KeptBlocks(ring, cap)
    BY StoreMoves
  <2>2. j \in KeptBlocks(w, cap)
    <3>1. cap \in Nat /\ w.pub \in Nat
      BY <1>2, CapacitiesAre DEF TypeInv, IsrTyped, RingTyped, RingWords, Rings
    <3>2. Kept(w, cap) \in Int
      BY <3>1 DEF Kept
    <3> QED
      BY <3>1, <3>2 DEF KeptBlocks
  <2>3. Back(w, j, cap) = Back(ring, j, cap)
    BY <2>2, StoreMoves
  <2> QED
    BY <2>1, <2>3 DEF MemoryWhole, BackOrdered
<1>5. HereWhole(w, tick + 1, cap)
  <2> SUFFICES ASSUME Filling(w)
               PROVE  /\ Here(w, cap).n = NTicks /\ Here(w, cap).seq = w.seq
                      /\ Here(w, cap).start = (tick + 1) - w.sib + 1
                      /\ Runs(Here(w, cap), w.sib)
    BY DEF HereWhole
  <2>3. ~Drops
    BY <1>2 DEF Filling
  <2> DEFINE b == Here(w, cap)
             o == Here(ring, cap)
  <2>1. CASE ring.sib = 0
    <3>1. /\ b.start = tick + 1 /\ b.seq = ring.seq /\ b.n = NTicks /\ b.data[1] = tick + 1
      BY <1>2, <2>1, <2>3, StoreFacts DEF Here
    <3>2. w.sib = 1
      BY <1>2, <2>1
    <3> HIDE DEF b
    <3>3. Runs(b, w.sib)
      BY <1>1, <3>1, <3>2 DEF Runs
    <3> QED
      BY <1>1, <1>2, <3>1, <3>2, <3>3 DEF b
  <2>2. CASE ring.sib # 0
    <3>1. /\ b.start = o.start /\ b.seq = o.seq /\ b.n = o.n
          /\ \A k \in 1 .. ring.sib : b.data[k] = o.data[k]
          /\ b.data[ring.sib + 1] = tick + 1
      BY <1>2, <2>2, <2>3, StoreFacts DEF Here
    <3>2. /\ o.n = NTicks /\ o.seq = ring.seq /\ o.start = tick - ring.sib + 1
          /\ Runs(o, ring.sib)
      BY <1>1, <2>2, <2>3 DEF MemoryWhole, HereWhole, Filling, Drops
    <3> HIDE DEF b, o
    <3>3. Runs(b, w.sib)
      <4>1. b.start > 0
        BY <3>1, <3>2 DEF Runs
      <4>2. ASSUME NEW k \in 1 .. w.sib PROVE b.data[k] = b.start + k - 1
        <5>1. CASE k \in 1 .. ring.sib
          BY <3>1, <3>2, <5>1 DEF Runs
        <5>2. CASE k = ring.sib + 1
          BY <1>1, <3>1, <3>2, <5>2
        <5> QED
          BY <1>1, <1>2, <5>1, <5>2
      <4> QED
        BY <4>1, <4>2 DEF Runs
    <3> QED
      BY <1>1, <1>2, <3>1, <3>2, <3>3 DEF b
  <2> QED
    BY <2>1, <2>2
<1> QED
  BY <1>3, <1>4, <1>5 DEF MemoryWhole

\* What is in step before a block number is given away is in step after it.
LEMMA NumberedOn ==
  ASSUME NEW b, b.seq \in Nat, b.start \in Nat, NEW r, r.seq \in Nat, NEW t \in Nat,
         InStep(b, r, t), r.sib = NTicks, NEW w, w.seq = r.seq + 1, w.sib = 0
  PROVE  InStep(b, w, t)
<1> USE Bounds
<1>1. NTicks * (w.seq - b.seq) = NTicks * (r.seq - b.seq) + NTicks
  BY NextBlock
<1> DEFINE x == NTicks * (r.seq - b.seq)
<1>2. x \in Int
  OBVIOUS
<1>3. b.start + x = t - NTicks + 1
  BY DEF InStep
<1> HIDE DEF x
<1>4. b.start + (x + NTicks) = t - 0 + 1
  BY <1>2, <1>3
<1> QED
  BY <1>1, <1>4 DEF InStep, x

\* A block that is full becomes a published one, and the memory stays whole.
LEMMA CompleteWhole ==
  ASSUME TypeInv, cap # 0, NEW r, RingWords(r), NEW t \in Nat, MemoryWhole(r, t, cap),
         r.sib \in 1 .. NTicks
  PROVE  MemoryWhole(Complete(r), t, cap)
<1> USE Bounds
<1>1. /\ r \in Rings /\ r.drop \in BOOLEAN /\ r.seq \in Nat /\ cap \in Nat /\ cap > 0
      /\ r.pub \in 0 .. cap /\ cap \in Capacities /\ r.wr \in Indices(cap) \cup {0}
  BY CapacitiesAre DEF TypeInv, IsrTyped, RingWords, Rings
<1>2. ASSUME NEW b, b.seq \in Nat, b.start \in Nat, InStep(b, r, t), r.sib = NTicks,
             NEW w, w.seq = r.seq + 1, w.sib = 0
      PROVE  InStep(b, w, t)
  BY <1>1, <1>2, NumberedOn
<1>3. \A k \in 1 .. cap : Back(r, k, cap).seq \in Nat /\ Back(r, k, cap).start \in Nat
  <2> TAKE k \in 1 .. cap
  <2>1. RingPos(RingBack(r.wr, k, cap), cap) \in Slots
    BY <1>1, Places
  <2> QED
    BY <1>1, <2>1, BlockWords DEF Back
<1>4. CASE r.sib < NTicks
  BY <1>4 DEF Complete
<1>5. CASE r.sib = NTicks /\ r.drop
  <2> DEFINE w == Complete(r)
  <2>1. w = [r EXCEPT !.sib = 0, !.seq = r.seq + 1]
    BY <1>1, <1>5 DEF Complete
  <2>2. /\ w.wr = r.wr /\ w.pub = r.pub /\ w.slots = r.slots /\ w.sib = 0
        /\ w.seq = r.seq + 1 /\ w.drop = r.drop
    BY <1>1, <2>1 DEF Rings
  <2> HIDE DEF w
  <2>3. KeptBlocks(w, cap) = KeptBlocks(r, cap) /\ KeptBlocks(r, cap) \subseteq 1 .. cap
        /\ ~Filling(w)
    BY <1>1, <1>5, <2>2 DEF KeptBlocks, Kept, Filling
  <2>4. \A k : Back(w, k, cap) = Back(r, k, cap)
    BY <2>2 DEF Back
  <2>5. BackWhole(w, t, cap)
    <3> SUFFICES ASSUME NEW k \in KeptBlocks(r, cap)
                 PROVE  /\ Whole(Back(r, k, cap)) /\ InStep(Back(r, k, cap), w, t)
                        /\ Back(r, k, cap).seq < w.seq
      BY <2>3, <2>4 DEF BackWhole
    <3>1. /\ Whole(Back(r, k, cap)) /\ InStep(Back(r, k, cap), r, t)
          /\ Back(r, k, cap).seq < r.seq
      BY DEF MemoryWhole, BackWhole
    <3>2. Back(r, k, cap).seq \in Nat /\ Back(r, k, cap).start \in Nat
      BY <1>3, <2>3
    <3>3. InStep(Back(r, k, cap), w, t)
      BY <1>2, <1>5, <2>2, <3>1, <3>2
    <3> QED
      BY <1>1, <2>2, <3>1, <3>2, <3>3
  <2>6. BackOrdered(w, cap) /\ HereWhole(w, t, cap)
    BY <2>3, <2>4 DEF MemoryWhole, BackOrdered, HereWhole
  <2> QED
    BY <2>5, <2>6 DEF MemoryWhole, w
<1>6. CASE r.sib = NTicks /\ ~r.drop
  <2> DEFINE w == Publish(r, r.sib)
  <2>1. Complete(r) = w
    BY <1>1, <1>6 DEF Complete
  <2>2. /\ w.seq = r.seq + 1 /\ w.sib = 0 /\ w.drop = r.drop
        /\ w.pub = IF r.pub < cap THEN r.pub + 1 ELSE r.pub
    BY PublishFacts
  <2>3. KeptBlocks(w, cap) = 1 .. w.pub /\ ~Filling(w) /\ w.pub \in 0 .. cap
    BY <1>1, <2>2 DEF KeptBlocks, Kept, Filling
  <2>4. /\ \A k \in 1 .. w.pub : Whole(Back(w, k, cap))
        /\ \A k \in 2 .. w.pub : k - 1 \in KeptBlocks(r, cap)
    BY <1>6, PublishWhole
  <2>5. /\ Back(w, 1, cap).start = Here(r, cap).start /\ Back(w, 1, cap).seq = Here(r, cap).seq
        /\ \A k \in 2 .. cap : Back(w, k, cap) = Back(r, k - 1, cap)
    BY PublishMoves
  <2>6. Here(r, cap).start = t - r.sib + 1 /\ Here(r, cap).seq = r.seq
    BY <1>6 DEF MemoryWhole, HereWhole, Filling
  <2> HIDE DEF w
  <2>7. BackWhole(w, t, cap)
    <3> SUFFICES ASSUME NEW k \in 1 .. w.pub
                 PROVE  InStep(Back(w, k, cap), w, t) /\ Back(w, k, cap).seq < w.seq
      BY <2>3, <2>4 DEF BackWhole
    <3>1. CASE k = 1
      <4>1. Back(w, 1, cap).seq = r.seq /\ Back(w, 1, cap).start = t - NTicks + 1
        BY <1>6, <2>5, <2>6
      <4>2. w.seq - r.seq = 1 /\ NTicks * 1 = NTicks
        BY <1>1, <2>2
      <4>3. Back(w, 1, cap).start + NTicks * (w.seq - Back(w, 1, cap).seq) = t - w.sib + 1
        BY <2>2, <4>1, <4>2
      <4> QED
        BY <1>1, <2>2, <3>1, <4>1, <4>3 DEF InStep
    <3>2. CASE k \in 2 .. w.pub
      <4>1. Back(w, k, cap) = Back(r, k - 1, cap) /\ k - 1 \in KeptBlocks(r, cap)
            /\ k - 1 \in 1 .. cap
        BY <1>1, <2>3, <2>4, <2>5, <3>2 DEF KeptBlocks
      <4>2. InStep(Back(r, k - 1, cap), r, t) /\ Back(r, k - 1, cap).seq < r.seq
        BY <4>1 DEF MemoryWhole, BackWhole
      <4>3. Back(r, k - 1, cap).seq \in Nat /\ Back(r, k - 1, cap).start \in Nat
        BY <1>3, <4>1
      <4>4. InStep(Back(r, k - 1, cap), w, t)
        BY <1>2, <1>6, <2>2, <4>2, <4>3
      <4> QED
        BY <1>1, <2>2, <4>1, <4>2, <4>3, <4>4
    <3> QED
      BY <3>1, <3>2
  <2>8. BackOrdered(w, cap)
    <3> SUFFICES ASSUME NEW k \in 1 .. w.pub, NEW j \in 1 .. k - 1
                 PROVE  Back(w, k, cap).seq < Back(w, j, cap).seq
      BY <2>3 DEF BackOrdered
    <3>1. k \in 2 .. w.pub /\ k \in 2 .. cap
      BY <1>1, <2>3
    <3>2. Back(w, k, cap) = Back(r, k - 1, cap) /\ k - 1 \in KeptBlocks(r, cap)
      BY <2>4, <2>5, <3>1
    <3>3. CASE j = 1
      BY <2>5, <2>6, <3>2, <3>3 DEF MemoryWhole, BackWhole
    <3>4. CASE j \in 2 .. k - 1
      <4>1. Back(w, j, cap) = Back(r, j - 1, cap) /\ j - 1 \in 1 .. (k - 1) - 1
        BY <1>1, <2>3, <2>5, <3>1, <3>4
      <4> QED
        BY <3>2, <4>1 DEF MemoryWhole, BackOrdered
    <3> QED
      BY <3>3, <3>4
  <2>9. HereWhole(w, t, cap)
    BY <2>3 DEF HereWhole
  <2> QED
    BY <2>1, <2>7, <2>8, <2>9 DEF MemoryWhole
<1> QED
  BY <1>4, <1>5, <1>6
\* A sample of a capture, and the block it may complete, lose nothing.
LEMMA StoreInRow ==
  ASSUME TypeInv, cap # 0, tick < MaxTick, mode # "STREAM", InRow(ring, cap),
         NEW w, w = Store
  PROVE  InRow(w, cap)
<1>1. ~Drops
  BY DEF Drops, DropsBlock, InRow
<1>2. w.drop = Drops /\ w.seq = ring.seq
  BY StoreFacts
<1>3. ASSUME NEW k \in KeptBlocks(w, cap)
      PROVE  Back(w, k, cap).n = NTicks /\ Back(w, k, cap).seq = w.seq - k
  <2>1. Back(w, k, cap) = Back(ring, k, cap) /\ k \in KeptBlocks(ring, cap)
    BY StoreMoves
  <2> QED
    BY <1>2, <2>1 DEF InRow
<1> QED
  BY <1>1, <1>2, <1>3 DEF InRow

\* While nothing is dropped, a full block takes the next number.
LEMMA CompleteInRow ==
  ASSUME TypeInv, cap # 0, NEW r, RingWords(r), NEW t \in Nat, MemoryWhole(r, t, cap),
         r.sib \in 1 .. NTicks, InRow(r, cap), NEW w, w = Complete(r)
  PROVE  InRow(w, cap)
<1> USE Bounds
<1>1. /\ ~r.drop /\ r.seq \in Nat /\ cap \in Nat /\ cap > 0 /\ r.pub \in 0 .. cap
  BY CapacitiesAre DEF TypeInv, IsrTyped, RingWords, Rings, InRow
<1>2. CASE r.sib < NTicks
  BY <1>2 DEF Complete
<1>3. CASE r.sib = NTicks
  <2>1. w = Publish(r, r.sib)
    BY <1>1, <1>3 DEF Complete
  <2>2. /\ w.seq = r.seq + 1 /\ w.sib = 0 /\ ~w.drop
        /\ w.pub = IF r.pub < cap THEN r.pub + 1 ELSE r.pub
    BY <1>1, <2>1, PublishFacts
  <2>3. KeptBlocks(w, cap) = 1 .. w.pub /\ w.pub \in 0 .. cap
    BY <1>1, <2>2 DEF KeptBlocks, Kept, Filling
  <2>4. \A k \in 2 .. w.pub : k - 1 \in KeptBlocks(r, cap)
    BY <1>1, <2>1, PublishWhole
  <2>5. /\ Back(w, 1, cap).n = NTicks /\ Back(w, 1, cap).seq = Here(r, cap).seq
        /\ \A k \in 2 .. cap : Back(w, k, cap) = Back(r, k - 1, cap)
    BY <1>3, <2>1, PublishMoves
  <2>6. Here(r, cap).seq = r.seq
    BY <1>1 DEF MemoryWhole, HereWhole, Filling
  <2>7. ASSUME NEW k \in 1 .. w.pub
        PROVE  Back(w, k, cap).n = NTicks /\ Back(w, k, cap).seq = w.seq - k
    <3>1. CASE k = 1
      BY <1>1, <2>2, <2>5, <2>6, <3>1
    <3>2. CASE k \in 2 .. w.pub
      <4>1. Back(w, k, cap) = Back(r, k - 1, cap) /\ k - 1 \in KeptBlocks(r, cap)
        BY <1>1, <2>3, <2>4, <2>5, <3>2
      <4>2. Back(w, k, cap).n = NTicks /\ Back(w, k, cap).seq = r.seq - (k - 1)
        BY <4>1 DEF InRow
      <4> QED
        BY <1>1, <2>2, <4>2
    <3> QED
      BY <2>3, <3>1, <3>2
  <2> QED
    BY <2>2, <2>3, <2>7 DEF InRow
<1> QED
  BY <1>2, <1>3

\* The ring after the interrupt stored one sample.
LEMMA SampleRing ==
  ASSUME TypeInv, cap # 0, tick < MaxTick, MemoryWhole(ring, tick, cap)
  PROVE  /\ RingTyped(Complete(Store)) /\ MemoryWhole(Complete(Store), tick + 1, cap)
         /\ mode # "STREAM" /\ InRow(ring, cap) => InRow(Complete(Store), cap)
<1> USE Bounds
<1>1. RingWords(Store) /\ Store.sib = ring.sib + 1
  BY StoreTyped
<1>2. ring.sib \in 0 .. NTicks - 1 /\ tick + 1 \in Nat
  BY DEF TypeInv, IsrTyped, RingTyped, Ticks
<1>3. Store.sib \in 1 .. NTicks
  BY <1>1, <1>2
<1>4. MemoryWhole(Store, tick + 1, cap)
  BY StoreWhole
<1>5. RingTyped(Complete(Store)) /\ MemoryWhole(Complete(Store), tick + 1, cap)
  BY <1>1, <1>2, <1>3, <1>4, CompleteTyped, CompleteWhole
<1>6. mode # "STREAM" /\ InRow(ring, cap) => InRow(Complete(Store), cap)
  BY <1>1, <1>2, <1>3, <1>4, StoreInRow, CompleteInRow
<1> QED
  BY <1>5, <1>6

\* Every block of a frozen ring is whole.
LEMMA FrozenWhole ==
  ASSUME TypeInv, cap # 0, NEW r, RingTyped(r), NEW t \in Nat, MemoryWhole(r, t, cap),
         ~r.drop, NEW w, w = FrozenRing(r)
  PROVE  \A k \in 1 .. w.pub : Whole(Back(w, k, cap))
<1> USE Bounds
<1>1. /\ RingWords(r) /\ cap \in Nat /\ r.sib \in 0 .. NTicks - 1 /\ r.pub \in 0 .. cap
  BY CapacitiesAre DEF TypeInv, IsrTyped, RingTyped, RingWords
<1>2. CASE r.sib = 0
  <2>1. w = r /\ KeptBlocks(r, cap) = 1 .. r.pub
    BY <1>1, <1>2 DEF FrozenRing, KeptBlocks, Kept, Filling
  <2> QED
    BY <2>1 DEF MemoryWhole, BackWhole
<1>3. CASE r.sib # 0
  <2>1. w = Publish(r, r.sib) /\ r.sib \in 1 .. NTicks
    BY <1>1, <1>3 DEF FrozenRing
  <2> QED
    BY <1>1, <2>1, PublishWhole
<1> QED
  BY <1>2, <1>3
\* Division by the block size.
LEMMA Divided ==
  ASSUME NEW n \in Nat, n > 0, NEW a \in Nat
  PROVE  a = n * (a \div n) + (a % n) /\ a % n \in 0 .. n - 1 /\ a \div n \in Nat
OBVIOUS

\* The products of the block size the window arithmetic needs.
LEMMA Products ==
  ASSUME NEW n \in Nat, n > 0, NEW a \in Int, NEW b \in Int
  PROVE  /\ a < b => n * a + n <= n * b
         /\ n * a < n * b => a < b
         /\ n * a \in Int /\ n * (a - b) = n * a - n * b /\ n * a = a * n
OBVIOUS

\* The blocks of a frozen ring, from the newest: all but that one are full, and
\* each starts a block's length before the next.
LEMMA FrozenRow ==
  ASSUME TypeInv, cap # 0, NEW r, RingTyped(r), NEW t \in Nat, MemoryWhole(r, t, cap),
         InRow(r, cap), NEW w, w = FrozenRing(r), w.pub > 0
  PROVE  /\ Back(w, 1, cap).n \in 1 .. NTicks
         /\ \A k \in 1 .. w.pub :
              /\ Runs(Back(w, k, cap), Back(w, k, cap).n)
              /\ k # 1 => Back(w, k, cap).n = NTicks
              /\ Back(w, k, cap).start = (t - Back(w, 1, cap).n + 1) - NTicks * (k - 1)
<1> USE Bounds
<1>1. /\ RingWords(r) /\ cap \in Nat /\ cap > 0 /\ r.sib \in 0 .. NTicks - 1
      /\ r.pub \in 0 .. cap /\ ~r.drop /\ r.seq \in Nat
      /\ cap \in Capacities /\ r.wr \in Indices(cap) \cup {0} /\ r \in Rings
  BY CapacitiesAre DEF TypeInv, IsrTyped, RingTyped, RingWords, InRow, Rings
<1>2. \A k \in 1 .. w.pub : Whole(Back(w, k, cap))
  BY <1>1, FrozenWhole
<1>3. w.pub \in 1 .. cap
  <2>1. CASE r.sib = 0
    BY <1>1, <2>1 DEF FrozenRing
  <2>2. CASE r.sib # 0
    <3>1. w = Publish(r, r.sib) /\ r.sib \in 0 .. NTicks
      BY <1>1, <2>2 DEF FrozenRing
    <3>2. w.pub = IF r.pub < cap THEN r.pub + 1 ELSE r.pub
      BY <1>1, <3>1, PublishFacts
    <3> QED
      BY <1>1, <3>2
  <2> QED
    BY <2>1, <2>2
<1>4. Back(w, 1, cap).n \in 1 .. NTicks
  <2>1. 1 \in 1 .. w.pub
    BY <1>3
  <2> QED
    BY <1>2, <2>1 DEF Whole
<1>5. ASSUME NEW j \in KeptBlocks(r, cap)
      PROVE  Back(r, j, cap).n = NTicks /\ Back(r, j, cap).start + NTicks * j = t - r.sib + 1
  <2> DEFINE b == Back(r, j, cap)
  <2>1. b.n = NTicks /\ b.seq = r.seq - j /\ InStep(b, r, t)
    BY DEF InRow, MemoryWhole, BackWhole
  <2>2. j \in Nat
    BY <1>1 DEF KeptBlocks
  <2> HIDE DEF b
  <2>3. r.seq - b.seq = j
    BY <1>1, <2>1, <2>2
  <2>4. b.start + NTicks * j = t - r.sib + 1
    BY <2>1, <2>3 DEF InStep
  <2> QED
    BY <2>1, <2>4 DEF b
<1>6. \A j \in KeptBlocks(r, cap) : Back(r, j, cap).start \in Nat /\ j \in 1 .. cap
  <2> TAKE j \in KeptBlocks(r, cap)
  <2>1. j \in 1 .. cap /\ j \in 0 .. cap
    BY <1>1 DEF KeptBlocks
  <2>2. RingPos(RingBack(r.wr, j, cap), cap) \in Slots
    BY <1>1, <2>1, Places
  <2> QED
    BY <1>1, <2>1, <2>2, BlockWords DEF Back
<1>7. CASE r.sib = 0
  <2>1. w = r /\ KeptBlocks(r, cap) = 1 .. w.pub
    BY <1>1, <1>7 DEF FrozenRing, KeptBlocks, Kept, Filling
  <2>2. ASSUME NEW k \in 1 .. w.pub
        PROVE  /\ Back(w, k, cap).n = NTicks
               /\ Back(w, k, cap).start = (t - NTicks + 1) - NTicks * (k - 1)
    <3>1. Back(w, k, cap).n = NTicks /\ Back(w, k, cap).start + NTicks * k = t - 0 + 1
          /\ Back(w, k, cap).start \in Nat /\ k \in Int
      BY <1>5, <1>6, <1>7, <2>1
    <3>2. NTicks * (k - 1) = NTicks * k - NTicks * 1 /\ NTicks * k \in Int
      BY <3>1, Products
    <3> QED
      BY <3>1, <3>2
  <2>3. Back(w, 1, cap).n = NTicks
    BY <1>3, <2>2
  <2> QED
    BY <1>2, <1>4, <2>2, <2>3 DEF Whole
<1>8. CASE r.sib # 0
  <2>1. w = Publish(r, r.sib) /\ r.sib \in 1 .. NTicks /\ r.sib \in 0 .. NTicks
    BY <1>1, <1>8 DEF FrozenRing
  <2>2. \A k \in 2 .. w.pub : k - 1 \in KeptBlocks(r, cap) /\ k \in 2 .. cap
    BY <1>1, <1>3, <2>1, PublishWhole
  <2>3. /\ Back(w, 1, cap).start = Here(r, cap).start /\ Back(w, 1, cap).n = r.sib
        /\ \A k \in 2 .. cap : Back(w, k, cap) = Back(r, k - 1, cap)
    BY <1>1, <2>1, PublishMoves
  <2>4. Here(r, cap).start = t - r.sib + 1
    BY <1>1, <2>1 DEF MemoryWhole, HereWhole, Filling
  <2>5. ASSUME NEW k \in 1 .. w.pub
        PROVE  /\ k # 1 => Back(w, k, cap).n = NTicks
               /\ Back(w, k, cap).start = (t - r.sib + 1) - NTicks * (k - 1)
    <3>1. CASE k = 1
      BY <1>1, <2>3, <2>4, <3>1
    <3>2. CASE k \in 2 .. w.pub
      <4>1. Back(w, k, cap) = Back(r, k - 1, cap) /\ k - 1 \in KeptBlocks(r, cap) /\ k \in Int
        BY <2>2, <2>3, <3>2
      <4>2. /\ Back(w, k, cap).n = NTicks /\ Back(w, k, cap).start \in Nat
            /\ Back(w, k, cap).start + NTicks * (k - 1) = t - r.sib + 1
        BY <1>5, <1>6, <4>1
      <4>3. NTicks * (k - 1) \in Int
        BY <4>1
      <4> QED
        BY <1>1, <4>2, <4>3
    <3> QED
      BY <1>3, <3>1, <3>2
  <2> QED
    BY <1>2, <1>4, <2>3, <2>5 DEF Whole
<1> QED
  BY <1>7, <1>8

\* The capture holds n samples, or as many blocks as it keeps.
Enough(r, n) == r.pub >= win.target \/ r.pub * NTicks + r.sib >= n

\* A ring frozen with enough samples gives the window that was asked for.
LEMMA WindowWhole ==
  ASSUME TypeInv, cap # 0, NEW r, RingTyped(r), NEW t \in Nat, MemoryWhole(r, t, cap),
         InRow(r, cap), NEW w, w = FrozenRing(r),
         win.total > 0, win.target = TargetBlocks(win.total), win.target <= cap,
         Enough(r, win.total)
  PROVE  LET m == FrozenBlocks(w)
             ticks == (m - 1) * NTicks + Back(w, 1, cap).n
         IN /\ m > 0 /\ m <= w.pub /\ ticks >= win.total /\ ticks \in Nat
            /\ \A i \in 0 .. ticks - 1 :
                 /\ i \div NTicks \in 0 .. m - 1
                 /\ Back(w, m - (i \div NTicks), cap).data[(i % NTicks) + 1] = t - ticks + 1 + i
<1> USE Bounds
<1> DEFINE m == FrozenBlocks(w)
           n == Back(w, 1, cap).n
           ticks == (m - 1) * NTicks + n
           total == win.total
           target == win.target
<1>1. /\ RingWords(r) /\ cap \in Nat /\ r.sib \in 0 .. NTicks - 1 /\ r.pub \in 0 .. cap
      /\ total \in Nat /\ target \in Nat /\ ~r.drop
  BY CapacitiesAre DEF TypeInv, IsrTyped, RingTyped, RingWords, InRow
<1>2. /\ r.sib = 0 => w = r
      /\ r.sib # 0 => /\ w.pub = IF r.pub < cap THEN r.pub + 1 ELSE r.pub
                      /\ Back(w, 1, cap).n = r.sib
  <2>1. CASE r.sib = 0
    BY <2>1 DEF FrozenRing
  <2>2. CASE r.sib # 0
    <3>1. w = Publish(r, r.sib) /\ r.sib \in 0 .. NTicks
      BY <1>1, <2>2 DEF FrozenRing
    <3> QED
      BY <1>1, <2>2, <3>1, PublishFacts, PublishMoves
  <2> QED
    BY <2>1, <2>2
<1>3. target * NTicks >= total + NTicks /\ target > 0
  <2> DEFINE a == total + NTicks - 1
             q == a \div NTicks
             e == a % NTicks
  <2>1. a \in Nat /\ NTicks > 0
    BY <1>1
  <2> HIDE DEF a
  <2>2. a = NTicks * q + e /\ e \in 0 .. NTicks - 1 /\ q \in Nat
    BY <2>1, Divided
  <2>3. target = q + 1
    BY DEF TargetBlocks, a
  <2> HIDE DEF q, e
  <2>4. target * NTicks = NTicks * q + NTicks
    BY <2>2, <2>3
  <2> DEFINE nq == NTicks * q
  <2>5. nq \in Int
    BY <2>2
  <2> HIDE DEF nq
  <2>6. a = nq + e /\ target * NTicks = nq + NTicks
    BY <2>2, <2>4 DEF nq
  <2>7. a = total + NTicks - 1
    BY DEF a
  <2> QED
    BY <1>1, <2>2, <2>3, <2>5, <2>6, <2>7
<1>4. w.pub \in Nat /\ w.pub >= r.pub
  BY <1>1, <1>2
<1>5. w.pub > 0
  <2>1. CASE r.pub >= target
    BY <1>1, <1>3, <1>4, <2>1
  <2>2. CASE r.pub * NTicks + r.sib >= total
    <3>1. r.pub = 0 => r.sib >= total
      BY <1>1, <2>2
    <3> QED
      BY <1>1, <1>2, <3>1
  <2> QED
    BY <2>1, <2>2 DEF Enough
<1>6. /\ n \in 1 .. NTicks
      /\ \A k \in 1 .. w.pub :
           /\ Runs(Back(w, k, cap), Back(w, k, cap).n)
           /\ k # 1 => Back(w, k, cap).n = NTicks
           /\ Back(w, k, cap).start = (t - n + 1) - NTicks * (k - 1)
  BY <1>5, FrozenRow
<1>7. m = (IF w.pub > target THEN target ELSE w.pub) /\ m \in 1 .. w.pub
  BY <1>1, <1>3, <1>4, <1>5 DEF FrozenBlocks
<1>8. r.sib # 0 => n = r.sib
  BY <1>2
<1>9. r.sib = 0 => n = NTicks
  <2>1. r.sib = 0 => KeptBlocks(r, cap) = 1 .. r.pub
    BY <1>1 DEF KeptBlocks, Kept, Filling
  <2> QED
    BY <1>2, <1>4, <1>5, <2>1 DEF InRow
<1> HIDE DEF m, n, total, target
<1> DEFINE mn == NTicks * m
<1>10. ticks = mn - NTicks + n /\ mn \in Int
  <2>1. m \in Int
    BY <1>4, <1>7
  <2>2. (m - 1) * NTicks = NTicks * (m - 1) /\ NTicks * (m - 1) = NTicks * m - NTicks * 1
    BY <2>1, Products
  <2>3. NTicks * m \in Int
    BY <2>1
  <2> QED
    BY <1>6, <2>2, <2>3
<1>11. ticks >= total
  <2>1. CASE m = target
    <3>1. mn >= total + NTicks
      BY <1>1, <1>3, <2>1
    <3> HIDE DEF mn
    <3> QED
      BY <1>1, <1>6, <1>10, <3>1
  <2>2. CASE m # target
    <3>1. m = w.pub /\ w.pub < target
      BY <1>1, <1>4, <1>7, <2>2 DEF target
    <3>2. r.pub < target
      BY <1>1, <1>4, <3>1
    <3>3. r.pub * NTicks + r.sib >= total
      BY <1>1, <3>2 DEF Enough, total, target
    <3>4. CASE r.sib = 0
      <4>1. mn = r.pub * NTicks
        BY <1>1, <1>2, <3>1, <3>4
      <4> HIDE DEF mn
      <4> QED
        BY <1>1, <1>6, <1>9, <1>10, <3>3, <3>4, <4>1
    <3>5. CASE r.sib # 0
      <4>1. m = r.pub + 1
        BY <1>1, <1>2, <3>1, <3>2, <3>5 DEF target
      <4>2. mn = r.pub * NTicks + NTicks
        BY <1>1, <4>1
      <4>3. r.pub * NTicks \in Int
        BY <1>1
      <4> HIDE DEF mn
      <4> QED
        BY <1>1, <1>6, <1>8, <1>10, <3>3, <3>5, <4>2, <4>3
    <3> QED
      BY <3>4, <3>5
  <2> QED
    BY <2>1, <2>2
<1>12. ticks \in Nat
  <2>1. ticks \in Int
    BY <1>6, <1>10
  <2> HIDE DEF ticks
  <2> QED
    BY <1>1, <1>11, <2>1 DEF total
<1>13. ASSUME NEW i \in 0 .. ticks - 1
       PROVE  /\ i \div NTicks \in 0 .. m - 1
              /\ Back(w, m - (i \div NTicks), cap).data[(i % NTicks) + 1] = t - ticks + 1 + i
  <2> DEFINE q == i \div NTicks
             e == i % NTicks
             b == Back(w, m - q, cap)
  <2>1. i \in Nat /\ i < ticks
    BY <1>12
  <2>2. i = NTicks * q + e /\ e \in 0 .. NTicks - 1 /\ q \in Nat
    BY <2>1, Divided
  <2> HIDE DEF q, e
  <2> DEFINE nq == NTicks * q
  <2>3. nq \in Int /\ i = nq + e
    BY <2>2
  <2>4. q \in 0 .. m - 1 /\ m - q \in 1 .. w.pub /\ m \in Int
    <3>1. nq < mn
      <4> HIDE DEF mn, nq, ticks
      <4> QED
        BY <1>6, <1>10, <2>1, <2>2, <2>3
    <3>2. m \in Int /\ q \in Int
      BY <1>4, <1>7, <2>2
    <3>3. q < m
      BY <3>1, <3>2, Products
    <3> QED
      BY <1>4, <1>7, <2>2, <3>2, <3>3
  <2>5. Runs(b, b.n) /\ b.start = (t - n + 1) - NTicks * ((m - q) - 1)
        /\ (m - q # 1 => b.n = NTicks) /\ (m - q = 1 => b.n = n)
    BY <1>6, <2>4 DEF n
  <2>6. e + 1 \in 1 .. b.n
    <3>1. CASE m - q = 1
      <4>1. nq = mn - NTicks
        <5>1. q = m - 1
          BY <2>2, <2>4, <3>1
        <5> QED
          BY <2>4, <5>1, Products
      <4> HIDE DEF mn, nq, ticks, b
      <4>2. e < n
        BY <1>6, <1>10, <2>1, <2>2, <2>3, <4>1
      <4> QED
        BY <1>6, <2>2, <2>5, <3>1, <4>2
    <3>2. CASE m - q # 1
      <4> HIDE DEF b
      <4> QED
        BY <2>2, <2>5, <3>2
    <3> QED
      BY <3>1, <3>2
  <2>7. b.data[e + 1] = b.start + (e + 1) - 1
    BY <2>5, <2>6 DEF Runs
  <2>8. NTicks * ((m - q) - 1) = mn - nq - NTicks
    <3>1. q \in Int /\ m - q \in Int
      BY <2>2, <2>4
    <3>2. NTicks * ((m - q) - 1) = NTicks * (m - q) - NTicks * 1
      BY <3>1, Products
    <3>3. NTicks * (m - q) = mn - nq
      BY <2>4, <3>1, Products
    <3> QED
      BY <3>2, <3>3
  <2>9. b.data[e + 1] = t - ticks + 1 + i
    <3> HIDE DEF b, mn, nq, ticks
    <3> QED
      BY <1>6, <1>10, <2>2, <2>3, <2>5, <2>7, <2>8
  <2> QED
    BY <2>4, <2>9 DEF q, e
<1> QED
  BY <1>7, <1>11, <1>12, <1>13, <1>4 DEF m, n, total
-----------------------------------------------------------------------------
(* Who asks, and when.  A host that does not reconfigure a sampling scope    *)
(* asks for one thing at a time, and CPU2 waits for the answer: while a      *)
(* configuration is pending, CPU2 stands still in its wait.                  *)

BindOrder ==
  /\ bindAck <= bindReq.seq
  /\ bindPend \in BindPends => bindAck < bindPend.seq /\ bindPend.seq <= bindReq.seq
OneAsked ==
  /\ Settled \/ bindAck = bindReq.seq
  /\ pc2 # "update" => Settled /\ bindAck = bindReq.seq

\* An accepted capture still fits the ring when it is applied.
PendFits ==
  cfgPend \in CfgPends /\ cfgPend.ok /\ cfgPend.body.mode = "ARMED" =>
    cfgPend.body.points # 0 /\ TargetBlocks(cfgPend.body.points) <= cap

AskInv == ArmInv /\ BindOrder /\ OneAsked /\ PendFits

\* What a pending request means for CPU2.
LEMMA Pending ==
  ASSUME AskInv
  PROVE  /\ cfgPend \in CfgPends => pc2 = "update" /\ ~Settled /\ bindAck = bindReq.seq
         /\ bindPend \in BindPends => Settled /\ cfgPend \notin CfgPends
         /\ pc1 \in CfgPcs => cfgPend \in CfgPends
<1>1. /\ cfgAck \in Nat /\ cfgReq.seq \in Nat /\ bindAck \in Nat /\ bindReq.seq \in Nat
      /\ cfgPend \in CfgPends => cfgPend.seq \in Nat
      /\ bindPend \in BindPends => bindPend.seq \in Nat
      /\ pc1 \in CfgPcs => cfgPend \in CfgPends
  BY DEF AskInv, ArmInv, TypeInv, Cpu1Typed, Cpu2Typed, CfgPends, BindPends
<1>2. cfgPend \in CfgPends => ~Settled
  BY <1>1 DEF AskInv, ArmInv, CfgOrder, Settled
<1>3. bindPend \in BindPends => bindAck # bindReq.seq
  BY <1>1 DEF AskInv, BindOrder
<1> QED
  BY <1>1, <1>2, <1>3 DEF AskInv, OneAsked

\* The steps of the background that leave the ring, the mode and the pcs of a
\* configuration alone.
QuietStep ==
  \/ CacheReadIndex \/ CopyCfg \/ CheckCfg \/ CopyBind \/ CheckBind \/ CopyForce
  \/ CheckForce \/ ForceRefuse \/ ForceAccept \/ ForceSet \/ CfgRefuse \/ CfgAck

OffPcs == {"cfgReset", "cfgFrozen", "cfgIndex", "cfgMode", "cfgSeq", "cfgActive"}

\* What those steps leave alone.
LEMMA QuietFacts ==
  ASSUME TypeInv, QuietStep
  PROVE  /\ UNCHANGED <<tick, active, ring, win, ending, mode, stateSeq, cap, frozenEnd,
                        frozenCount>>
         /\ UNCHANGED cpu2Vars
         /\ ~ending /\ pc1 \notin OffPcs /\ pc1' \notin OffPcs
         /\ trig'.at = trig.at /\ trig'.left = trig.left
<1>1. trig \in Trigs
  BY DEF TypeInv, IsrTyped
<1> USE DEF At1, Goto1, OffPcs, NextApply
<1>2. CASE CacheReadIndex \/ CopyCfg \/ CheckCfg \/ CopyBind \/ CheckBind
  BY <1>2 DEF CacheReadIndex, CopyCfg, CheckCfg, CopyBind, CheckBind, NoSampling, isrVars,
     prodVars
<1>3. CASE CopyForce \/ CheckForce
  BY <1>3 DEF CopyForce, CheckForce, NoSampling, isrVars, prodVars
<1>4. CASE ForceRefuse \/ ForceAccept
  BY <1>4 DEF ForceRefuse, ForceAccept, ForceStep, prodVars
<1>5. CASE ForceSet
  <2>1. trig' = [trig EXCEPT !.force = TRUE]
    BY <1>5 DEF ForceSet
  <2>2. trig'.at = trig.at /\ trig'.left = trig.left
    BY <1>1, <2>1 DEF Trigs
  <2> QED
    BY <1>5, <2>2 DEF ForceSet, ForceStep, prodVars
<1>6. CASE CfgRefuse \/ CfgAck
  BY <1>6 DEF CfgRefuse, CfgAck, CfgStep, prodVars
<1> QED
  BY <1>2, <1>3, <1>4, <1>5, <1>6 DEF QuietStep

\* The steps of a configuration that is applied.
LEMMA CfgFacts ==
  ASSUME CfgOff \/ CfgAccept \/ CfgReset \/ CfgFrozen \/ CfgIndex \/ CfgMode \/ CfgSeq
           \/ CfgActive
  PROVE  /\ UNCHANGED <<tick, ending, cap, bindAck, rdCache, bindPend, cfgAck, cfgPend>>
         /\ UNCHANGED cpu2Vars
         /\ ~ending /\ pc1 \in CfgPcs /\ pc1' \in OffPcs \cup {"cfgAck"}
<1> USE DEF At1, Goto1, OffPcs, CfgPcs, CfgStep
<1>1. CASE CfgOff \/ CfgAccept \/ CfgReset \/ CfgFrozen
  BY <1>1 DEF CfgOff, CfgAccept, CfgReset, CfgFrozen
<1>2. CASE CfgIndex \/ CfgMode \/ CfgSeq \/ CfgActive
  BY <1>2 DEF CfgIndex, CfgMode, CfgSeq, CfgActive
<1> QED
  BY <1>1, <1>2

\* The cases of Next the invariants distinguish.
LEMMA NextIs ==
  ASSUME Next
  PROVE  \/ Sample \/ FreezeEnds \/ QuietStep \/ ApplyBind \/ Cpu2
         \/ CfgOff \/ CfgAccept \/ CfgReset \/ CfgFrozen \/ CfgIndex \/ CfgMode \/ CfgSeq
         \/ CfgActive
BY DEF Next, Background, QuietStep

\* A bind is refused or applied; only one that is applied changes the ring.
LEMMA ApplyBindFacts ==
  ASSUME ApplyBind
  PROVE  /\ ~ending /\ pc1 = "applyBind" /\ pc1' \notin OffPcs
         /\ UNCHANGED <<tick, active, win, trig, ending, mode, stateSeq, frozenEnd, frozenCount,
                        rdCache, cfgPend, cfgAck, cpu2Vars>>
         /\ bindAck' = bindPend.seq /\ bindPend' = None
         /\ mode = "OFF" \/ UNCHANGED <<ring, cap>>
BY DEF ApplyBind, At1, Goto1, NextApply, OffPcs, prodVars
\* CPU2 changes no word of CPU1, does not leave its wait unanswered, and
\* publishes one request at a time.
LEMMA Cpu2Asks ==
  ASSUME TypeInv, ~Timeouts, Cpu2
  PROVE  /\ UNCHANGED cpu1Vars
         /\ pc2 = "update" => Update /\ Answered
         /\ \/ UNCHANGED <<cfgReq, bindReq>>
            \/ cfgReq'.seq = cfgReq.seq /\ bindReq'.seq = bindReq.seq
            \/ cfgReq'.seq = cfgReq.seq + 1 /\ bindReq'.seq = bindReq.seq /\ pc2' = "update"
            \/ cfgReq'.seq = cfgReq.seq /\ bindReq'.seq = bindReq.seq + 1 /\ pc2' = "update"
<1>1. /\ cfgReq \in [body : Bodies, seq : Nat]
      /\ bindReq = [cap |-> bindReq.cap, seq |-> bindReq.seq]
  BY DEF TypeInv, Cpu2Typed
<1> USE DEF At2, Goto2, Handler, Consumer
<1>2. CASE DaqCtrl \/ DaqCtrlBody
  <2>1. UNCHANGED <<cpu1Vars, bindReq>> /\ pc2 # "update" /\ cfgReq'.seq = cfgReq.seq
    BY <1>1, <1>2 DEF DaqCtrl, DaqCtrlBody
  <2> QED
    BY <2>1
<1>3. CASE DaqCtrlPublish
  BY <1>1, <1>3 DEF DaqCtrlPublish
<1>4. CASE DaqBind
  <2>1. UNCHANGED <<cpu1Vars, cfgReq>> /\ pc2 # "update" /\ bindReq'.seq = bindReq.seq
    BY <1>1, <1>4 DEF DaqBind
  <2> QED
    BY <2>1
<1>5. CASE DaqBindPublish
  <2>1. UNCHANGED <<cpu1Vars, cfgReq>> /\ pc2 # "update" /\ pc2' = "update"
        /\ bindReq'.seq = bindReq.seq + 1
    BY <1>1, <1>5 DEF DaqBindPublish
  <2> QED
    BY <2>1
<1>6. CASE CaptureForce \/ CaptureForcePublish \/ CaptureReplay
  BY <1>6 DEF CaptureForce, CaptureForcePublish, CaptureReplay, reqVars
<1>7. CASE Update \/ PushNothing \/ CapturePush \/ ReplayPush \/ StreamPush
  BY <1>7 DEF Update, PushNothing, CapturePush, ReplayPush, StreamPush, reqVars
<1>8. CASE CaptureView \/ CaptureCopy \/ CaptureSubmit \/ ReplayView \/ ReplayCopy
  BY <1>8 DEF CaptureView, CaptureCopy, CaptureSubmit, ReplayView, ReplayCopy, ViewFrozen,
     CopyFrozen, reqVars
<1>9. CASE ReplaySubmit \/ StreamPeek \/ StreamCopy \/ StreamSubmit
  BY <1>9 DEF ReplaySubmit, StreamPeek, StreamCopy, StreamSubmit, reqVars
<1> QED
  BY <1>2, <1>3, <1>4, <1>5, <1>6, <1>7, <1>8, <1>9 DEF Cpu2

\* At most one binding is unanswered, under the number after the last answer.
LEMMA BindOrderStep ==
  ASSUME ~Timeouts, AskInv, [Next]_vars
  PROVE  BindOrder'
<1>1. /\ TypeInv /\ BindOrder /\ bindAck \in Nat /\ bindReq.seq \in Nat
      /\ bindPend \in BindPends \cup {None} /\ None \notin BindPends
      /\ pc1 \in {"bindCheck", "applyBind"} => bindPend \in BindPends
      /\ bindPend \in BindPends => bindPend.seq \in Nat
  BY NonePends DEF AskInv, ArmInv, TypeInv, Cpu1Typed, Cpu2Typed, BindPends
<1>2. CASE UNCHANGED <<bindAck, bindPend, bindReq>>
  BY <1>1, <1>2 DEF BindOrder
<1>3. CASE Sample \/ FreezeEnds
  BY <1>2, <1>3 DEF Sample, FreezeEnds, ackVars, pendVars, cpu2Vars, reqVars
<1>4. CASE CopyBind
  <2>1. /\ UNCHANGED <<bindAck, bindReq>>
        /\ \/ UNCHANGED bindPend
           \/ /\ bindReq.seq # bindAck
              /\ bindPend' = [cap |-> bindReq.cap, seq |-> bindReq.seq, ok |-> FALSE]
    BY <1>4 DEF CopyBind, NoSampling, ackVars, cpu2Vars, reqVars
  <2>2. CASE UNCHANGED bindPend
    BY <1>2, <2>1, <2>2
  <2>3. CASE bindReq.seq # bindAck /\ bindPend'.seq = bindReq.seq
    BY <1>1, <2>1, <2>3 DEF BindOrder
  <2> QED
    BY <2>1, <2>2, <2>3
<1>5. CASE CheckBind
  <2>1. /\ UNCHANGED <<bindAck, bindReq>> /\ bindPend \in BindPends
        /\ bindPend' = None \/ \E v \in BOOLEAN : bindPend' = [bindPend EXCEPT !.ok = v]
    BY <1>1, <1>5 DEF CheckBind, At1, NoSampling, ackVars, cpu2Vars, reqVars
  <2>2. bindPend' = None \/ bindPend'.seq = bindPend.seq
    BY <2>1 DEF BindPends
  <2> QED
    BY <1>1, <2>1, <2>2 DEF BindOrder
<1>6. CASE ApplyBind
  <2>1. /\ bindPend \in BindPends /\ bindAck' = bindPend.seq /\ bindPend' = None
        /\ bindReq' = bindReq
    BY <1>1, <1>6, ApplyBindFacts DEF cpu2Vars, reqVars
  <2> QED
    BY <1>1, <2>1 DEF BindOrder
<1>7. CASE Cpu2
  <2>1. UNCHANGED <<bindAck, bindPend>> /\ bindReq'.seq \in {bindReq.seq, bindReq.seq + 1}
    BY <1>1, <1>7, Cpu2Asks DEF cpu1Vars, ackVars, pendVars
  <2> QED
    BY <1>1, <2>1 DEF BindOrder
<1>8. CASE CacheReadIndex \/ CopyCfg \/ CheckCfg \/ CopyForce \/ CheckForce \/ ForceRefuse
             \/ ForceAccept \/ ForceSet
  BY <1>2, <1>8 DEF CacheReadIndex, CopyCfg, CheckCfg, CopyForce, CheckForce, ForceRefuse,
     ForceAccept, ForceSet, ForceStep, ackVars, pendVars, cpu2Vars, reqVars
<1>9. CASE CfgRefuse \/ CfgAck
  BY <1>2, <1>9 DEF CfgRefuse, CfgAck, CfgStep, cpu2Vars, reqVars
<1>10. CASE CfgOff \/ CfgAccept \/ CfgReset \/ CfgFrozen \/ CfgIndex \/ CfgMode \/ CfgSeq
              \/ CfgActive
  BY <1>2, <1>10, CfgFacts DEF cpu2Vars, reqVars
<1>11. CASE UNCHANGED vars
  BY <1>2, <1>11 DEF vars, cpu1Vars, cpu2Vars, reqVars, ackVars, pendVars
<1> QED
  BY <1>3, <1>4, <1>5, <1>6, <1>7, <1>8, <1>9, <1>10, <1>11, NextIs DEF QuietStep

\* CPU2 asks for a configuration or a binding only when all is answered.
LEMMA OneAskedStep ==
  ASSUME ~Timeouts, AskInv, [Next]_vars
  PROVE  OneAsked'
<1>1. /\ TypeInv /\ OneAsked
      /\ cfgPend \in CfgPends => pc2 = "update" /\ ~Settled /\ bindAck = bindReq.seq
      /\ bindPend \in BindPends => Settled /\ cfgPend \notin CfgPends
      /\ pc1 \in CfgPcs => cfgPend \in CfgPends
  BY Pending DEF AskInv, ArmInv
<1>2. CASE UNCHANGED <<cfgAck, bindAck, cfgReq, bindReq, pc2>>
  BY <1>1, <1>2 DEF OneAsked, Settled
<1>3. CASE Sample \/ FreezeEnds
  BY <1>2, <1>3 DEF Sample, FreezeEnds, ackVars, cpu2Vars, reqVars
<1>4. CASE CfgAck
  <2>1. UNCHANGED <<bindAck, cfgReq, bindReq, pc2>> /\ pc1 \in CfgPcs
    BY <1>4 DEF CfgAck, CfgStep, At1, CfgPcs, cpu2Vars, reqVars
  <2> QED
    BY <1>1, <2>1 DEF OneAsked
<1>5. CASE ApplyBind
  <2>1. UNCHANGED <<cfgAck, cfgReq, bindReq, pc2>> /\ bindPend \in BindPends
    BY <1>1, <1>5, ApplyBindFacts DEF TypeInv, Cpu1Typed, cpu2Vars, reqVars
  <2>2. pc2 = "update"
    <3>1. bindAck # bindReq.seq
      BY <2>1 DEF AskInv, BindOrder, ArmInv, TypeInv, Cpu1Typed, Cpu2Typed, BindPends
    <3> QED
      BY <1>1, <3>1 DEF OneAsked
  <2> QED
    BY <1>1, <2>1, <2>2 DEF OneAsked, Settled
<1>6. CASE Cpu2
  <2>1. UNCHANGED <<cfgAck, bindAck>> /\ Settled /\ bindAck = bindReq.seq
    BY <1>1, <1>6, Cpu2Asks DEF cpu1Vars, ackVars, OneAsked, Answered, Settled
  <2> QED
    BY <1>1, <1>6, <2>1, Cpu2Asks DEF OneAsked, Settled
<1>7. CASE CacheReadIndex \/ CopyCfg \/ CheckCfg \/ CopyBind \/ CheckBind \/ CopyForce
             \/ CheckForce \/ ForceRefuse \/ ForceAccept \/ ForceSet
  BY <1>2, <1>7 DEF CacheReadIndex, CopyCfg, CheckCfg, CopyBind, CheckBind, CopyForce,
     CheckForce, ForceRefuse, ForceAccept, ForceSet, ForceStep, ackVars, cpu2Vars, reqVars
<1>8. CASE CfgRefuse \/ CfgOff \/ CfgAccept \/ CfgReset \/ CfgFrozen \/ CfgIndex \/ CfgMode
             \/ CfgSeq \/ CfgActive
  <2>1. UNCHANGED <<cfgAck, bindAck, cpu2Vars>>
    BY <1>8, CfgFacts DEF CfgRefuse, CfgStep
  <2> QED
    BY <1>2, <2>1 DEF cpu2Vars, reqVars
<1>9. CASE UNCHANGED vars
  BY <1>2, <1>9 DEF vars, cpu1Vars, cpu2Vars, reqVars, ackVars
<1> QED
  BY <1>3, <1>4, <1>5, <1>6, <1>7, <1>8, <1>9, NextIs DEF QuietStep

\* No binding is applied between the check of a capture and its application.
LEMMA PendFitsStep ==
  ASSUME ~Timeouts, AskInv, [Next]_vars
  PROVE  PendFits'
<1>1. /\ TypeInv /\ PendFits
      /\ bindPend \in BindPends => cfgPend \notin CfgPends
      /\ pc1 \in CfgPcs => cfgPend \in CfgPends
      /\ None \notin CfgPends
  BY Pending, NonePends DEF AskInv, ArmInv
<1>2. CASE UNCHANGED <<cfgPend, cap>>
  BY <1>1, <1>2 DEF PendFits, TargetBlocks
<1>3. CASE Sample \/ FreezeEnds
  BY <1>2, <1>3 DEF Sample, FreezeEnds, pendVars
<1>4. CASE CopyCfg
  <2>1. /\ cap' = cap
        /\ \/ UNCHANGED cfgPend
           \/ cfgPend' = [body |-> cfgReq.body, seq |-> cfgReq.seq, ok |-> FALSE]
    BY <1>4 DEF CopyCfg, NoSampling
  <2> QED
    BY <1>2, <2>1 DEF PendFits
<1>5. CASE CheckCfg
  <2>1. /\ cap' = cap /\ cfgPend \in CfgPends
        /\ cfgPend' = None \/ cfgPend' = [cfgPend EXCEPT !.ok = ValidCfg(cfgPend.body)]
    BY <1>1, <1>5 DEF CheckCfg, At1, CfgPcs, NoSampling
  <2>2. CASE cfgPend' = None
    BY <1>1, <2>2 DEF PendFits
  <2>3. CASE cfgPend' = [cfgPend EXCEPT !.ok = ValidCfg(cfgPend.body)]
    <3>1. cfgPend'.body = cfgPend.body /\ (cfgPend'.ok => ValidCfg(cfgPend.body))
      BY <2>1, <2>3 DEF CfgPends
    <3> QED
      BY <2>1, <3>1 DEF PendFits, ValidCfg, TargetBlocks
  <2> QED
    BY <2>1, <2>2, <2>3
<1>6. CASE CfgAck
  <2>1. cfgPend' = None
    BY <1>6 DEF CfgAck
  <2> QED
    BY <1>1, <2>1 DEF PendFits
<1>7. CASE ApplyBind
  <2>1. cfgPend' = cfgPend /\ bindPend \in BindPends
    BY <1>1, <1>7, ApplyBindFacts DEF TypeInv, Cpu1Typed
  <2> QED
    BY <1>1, <2>1 DEF PendFits
<1>8. CASE Cpu2
  BY <1>1, <1>2, <1>8, Cpu2Asks DEF cpu1Vars, pendVars
<1>9. CASE CacheReadIndex \/ CopyBind \/ CheckBind \/ CopyForce \/ CheckForce \/ ForceRefuse
             \/ ForceAccept \/ ForceSet \/ CfgRefuse
  BY <1>2, <1>9 DEF CacheReadIndex, CopyBind, CheckBind, CopyForce, CheckForce, ForceRefuse,
     ForceAccept, ForceSet, ForceStep, CfgRefuse, CfgStep, pendVars, NoSampling
<1>10. CASE CfgOff \/ CfgAccept \/ CfgReset \/ CfgFrozen \/ CfgIndex \/ CfgMode \/ CfgSeq
              \/ CfgActive
  BY <1>2, <1>10, CfgFacts
<1>11. CASE UNCHANGED vars
  BY <1>2, <1>11 DEF vars, cpu1Vars, pendVars
<1> QED
  BY <1>3, <1>4, <1>5, <1>6, <1>7, <1>8, <1>9, <1>10, <1>11, NextIs DEF QuietStep

\* The invariant of the requests is inductive.
LEMMA AskStep ==
  ASSUME ~LiveReconfig, ~Timeouts, AskInv, [Next]_vars
  PROVE  AskInv'
<1>1. TypeInv' /\ ForceWords'
  BY TypeStep, ForceWordsStep DEF AskInv, ArmInv
<1>2. (CfgOrder /\ AsksAtRest /\ WaitsAtRest /\ ArmsAtRest)'
  BY ArmStep DEF AskInv, ArmInv
<1>3. BindOrder' /\ OneAsked' /\ PendFits'
  BY BindOrderStep, OneAskedStep, PendFitsStep
<1> QED
  BY <1>1, <1>2, <1>3 DEF AskInv, ArmInv

\* The requests at the start.
LEMMA AskInit == Init => AskInv
<1> SUFFICES ASSUME Init PROVE AskInv
  OBVIOUS
<1>1. ArmInv
  BY LateInit DEF LateInv
<1>2. BindOrder /\ OneAsked /\ PendFits
  BY NonePends DEF Init, BindOrder, OneAsked, PendFits, Settled
<1> QED
  BY <1>1, <1>2 DEF AskInv
-----------------------------------------------------------------------------
(* What CPU1 keeps: the interrupt samples exactly in a sampling mode, a      *)
(* reconfiguration starts from an empty ring, the memory is whole, and a     *)
(* capture counts towards its window.                                        *)

Sampling == {"STREAM", "ARMED", "POST"}
Captures == {"ARMED", "POST"}

ActInv ==
  /\ ending => active /\ mode = "FROZEN"
  /\ active /\ Rests => ending
  /\ pc1 \in OffPcs => ~active
  /\ mode \in Sampling /\ pc1 \notin {"cfgMode", "cfgSeq", "cfgActive"} => active
  /\ pc1 \in {"cfgSeq", "cfgActive"} => mode = cfgPend.body.mode

\* From the reset to the start of the interrupt the ring is empty.
EmptyPcs ==
  \/ pc1 \in {"cfgFrozen", "cfgIndex"}
  \/ pc1 = "cfgMode" /\ cfgPend.body.mode # "OFF"
  \/ pc1 \in {"cfgSeq", "cfgActive"} /\ mode # "OFF"
EmptyInv == EmptyPcs => ring.pub = 0 /\ ring.sib = 0 /\ ~ring.drop

WinDue ==
  \/ active /\ mode \in Captures
  \/ pc1 = "cfgMode" /\ cfgPend.body.mode = "ARMED"
  \/ pc1 \in {"cfgSeq", "cfgActive"} /\ mode = "ARMED"
WinInv == WinDue =>
  /\ win.total > 0 /\ win.post > 0 /\ win.pre \in Nat /\ win.total = win.pre + win.post
  /\ win.target = TargetBlocks(win.total) /\ win.target <= cap

MemInv == active /\ ~ending => MemoryWhole(ring, tick, cap)
RowInv == active /\ mode \in Captures => InRow(ring, cap)

\* After the trigger the samples still due are those the window lacks.
PostInv == active /\ mode = "POST" =>
  /\ trig.left \in 1 .. win.post - 1
  /\ trig.at + (win.post - 1 - trig.left) = tick
  /\ Enough(ring, win.total - trig.left)

FrozenBack(k) == ring.slots[RingPos(RingBack(frozenEnd, k, cap), cap)]
FrozenInv == mode = "FROZEN" => \A k \in 1 .. frozenCount : Whole(FrozenBack(k))

CaptureInv == MemInv /\ RowInv /\ PostInv /\ FrozenInv /\ FrozenWindow
CoreInv == ActInv /\ EmptyInv /\ WinInv /\ CaptureInv

\* The scope at the start is OFF.
LEMMA CoreInit == Init => CoreInv
BY DEF Init, CoreInv, CaptureInv, ActInv, EmptyInv, EmptyPcs, WinInv, WinDue, MemInv, RowInv,
   PostInv, FrozenInv, FrozenWindow, Rests, Sampling, Captures, OffPcs

\* What leaves these words alone keeps these invariants.
LEMMA CoreFrame ==
  ASSUME CoreInv,
         UNCHANGED <<tick, active, ring, win, ending, mode, cap, frozenEnd, frozenCount>>,
         trig'.at = trig.at, trig'.left = trig.left,
         UNCHANGED <<pc1, cfgPend>> \/ (pc1 \notin OffPcs /\ pc1' \notin OffPcs)
  PROVE  CoreInv'
<1>1. ActInv' /\ EmptyInv' /\ WinInv'
  <2>1. ActInv'
    BY DEF CoreInv, ActInv, Rests, OffPcs
  <2>2. EmptyInv'
    BY DEF CoreInv, EmptyInv, EmptyPcs, OffPcs
  <2>3. WinInv'
    BY DEF CoreInv, WinInv, WinDue, OffPcs, TargetBlocks
  <2> QED
    BY <2>1, <2>2, <2>3
<1>2. MemInv' /\ RowInv' /\ PostInv'
  BY DEF CoreInv, CaptureInv, MemInv, RowInv, PostInv, Enough
<1>3. FrozenInv'
  BY DEF CoreInv, CaptureInv, FrozenInv, FrozenBack
<1>4. FrozenWindow'
  <2>1. pc1' \notin ReconfigPcs => pc1 \notin ReconfigPcs
    BY DEF ReconfigPcs, OffPcs
  <2> QED
    BY <2>1 DEF CoreInv, CaptureInv, FrozenWindow, FrozenTick, FrozenTicks, FrozenPos
<1> QED
  BY <1>1, <1>2, <1>3, <1>4 DEF CoreInv, CaptureInv

\* One sample, as the facts a capture needs of it.
LEMMA SampleWindow ==
  ASSUME Sample
  PROVE  \E hit \in BOOLEAN :
           /\ hit => mode = "ARMED" /\ TriggerReady(Store)
           /\ trig'.at = IF hit THEN tick + 1 ELSE trig.at
           /\ trig'.left = IF hit THEN win.post - 1
                           ELSE IF mode = "POST" /\ trig.left > 0 THEN trig.left - 1
                           ELSE trig.left
           /\ stateSeq' = IF hit THEN stateSeq + 1 ELSE stateSeq
           /\ ending' = ((hit \/ mode = "POST") /\ trig'.left = 0)
           /\ ending' => /\ ring' = FrozenRing(Complete(Store)) /\ mode' = "FROZEN"
                         /\ frozenEnd' = FrozenRing(Complete(Store)).wr
                         /\ frozenCount' = FrozenBlocks(FrozenRing(Complete(Store)))
           /\ ~ending' => /\ ring' = Complete(Store)
                          /\ mode' = IF hit THEN "POST" ELSE mode
<1>1. PICK near \in BOOLEAN, far \in BOOLEAN :
        LET ready  == mode = "ARMED" /\ TriggerReady(Store)
            hit    == ready /\ (trig.force \/ (~noTrig /\ trig.armed /\ far))
            arming == ready /\ ~trig.force /\ ~noTrig /\ ~trig.armed /\ near
            left   == IF hit THEN win.post - 1
                      ELSE IF mode = "POST" /\ trig.left > 0 THEN trig.left - 1
                      ELSE trig.left
            freeze == (hit \/ mode = "POST") /\ left = 0
            r      == Complete(Store)
        IN /\ trig' = [armed |-> ~hit /\ (trig.armed \/ arming),
                       force |-> trig.force /\ ~hit, left |-> left,
                       at |-> IF hit THEN tick + 1 ELSE trig.at]
           /\ stateSeq' = IF hit THEN stateSeq + 1 ELSE stateSeq
           /\ ending' = freeze
           /\ IF freeze
                THEN /\ ring' = FrozenRing(r) /\ mode' = "FROZEN"
                     /\ frozenEnd' = FrozenRing(r).wr
                     /\ frozenCount' = FrozenBlocks(FrozenRing(r))
                ELSE /\ ring' = r /\ mode' = IF hit THEN "POST" ELSE mode
                     /\ UNCHANGED <<frozenEnd, frozenCount>>
  BY DEF Sample
<1> DEFINE hit == /\ mode = "ARMED" /\ TriggerReady(Store)
                  /\ trig.force \/ (~noTrig /\ trig.armed /\ far)
           arming == /\ mode = "ARMED" /\ TriggerReady(Store)
                     /\ ~trig.force /\ ~noTrig /\ ~trig.armed /\ near
           left == IF hit THEN win.post - 1
                   ELSE IF mode = "POST" /\ trig.left > 0 THEN trig.left - 1
                   ELSE trig.left
           freeze == (hit \/ mode = "POST") /\ left = 0
           r == Complete(Store)
<1>2. /\ trig' = [armed |-> ~hit /\ (trig.armed \/ arming),
                  force |-> trig.force /\ ~hit, left |-> left,
                  at |-> IF hit THEN tick + 1 ELSE trig.at]
      /\ stateSeq' = IF hit THEN stateSeq + 1 ELSE stateSeq
      /\ ending' = freeze
      /\ freeze => /\ ring' = FrozenRing(r) /\ mode' = "FROZEN"
                   /\ frozenEnd' = FrozenRing(r).wr
                   /\ frozenCount' = FrozenBlocks(FrozenRing(r))
      /\ ~freeze => ring' = r /\ mode' = IF hit THEN "POST" ELSE mode
  BY <1>1
<1>3. hit \in BOOLEAN /\ (hit => mode = "ARMED" /\ TriggerReady(Store))
  OBVIOUS
<1> HIDE DEF hit, arming, r
<1>4. trig'.left = left /\ trig'.at = IF hit THEN tick + 1 ELSE trig.at
  <2> HIDE DEF left
  <2> QED
    BY <1>2
<1>5. hit \in BOOLEAN
  BY <1>3
<1> USE <1>5
<1> WITNESS hit \in BOOLEAN
<1> QED
  BY <1>2, <1>3, <1>4 DEF r
\* Completing a block loses no sample of a capture.
LEMMA CompleteEnough ==
  ASSUME TypeInv, cap # 0, NEW r, RingWords(r), r.sib \in 1 .. NTicks, ~r.drop,
         win.target <= cap, NEW n \in Nat, Enough(r, n), NEW w, w = Complete(r)
  PROVE  Enough(w, n)
<1> USE Bounds
<1>1. cap \in Nat /\ r.pub \in 0 .. cap /\ win.target \in Nat
  BY CapacitiesAre DEF TypeInv, IsrTyped, RingWords
<1>2. CASE r.sib < NTicks
  BY <1>2 DEF Complete
<1>3. CASE r.sib = NTicks
  <2>1. w = Publish(r, r.sib) /\ r.sib \in 0 .. NTicks
    BY <1>1, <1>3 DEF Complete
  <2>2. w.sib = 0 /\ w.pub = IF r.pub < cap THEN r.pub + 1 ELSE r.pub
    BY <2>1, PublishFacts
  <2>3. CASE r.pub >= win.target
    BY <1>1, <2>2, <2>3 DEF Enough
  <2>4. CASE r.pub < win.target /\ r.pub * NTicks + r.sib >= n
    <3>1. w.pub = r.pub + 1
      BY <1>1, <2>2, <2>4
    <3>2. w.pub * NTicks = r.pub * NTicks + NTicks /\ r.pub * NTicks \in Int
      BY <1>1, <3>1
    <3> QED
      BY <1>3, <2>2, <2>4, <3>2 DEF Enough
  <2> QED
    BY <1>1, <2>3, <2>4 DEF Enough
<1> QED
  BY <1>2, <1>3

\* One sample of a capture that is, or was, triggered.
LEMMA SampleCapture ==
  ASSUME TypeInv, CoreInv, Sample, NEW hit \in BOOLEAN,
         hit => mode = "ARMED" /\ TriggerReady(Store),
         hit \/ mode = "POST",
         trig'.at = IF hit THEN tick + 1 ELSE trig.at,
         trig'.left = IF hit THEN win.post - 1
                      ELSE IF mode = "POST" /\ trig.left > 0 THEN trig.left - 1
                      ELSE trig.left
  PROVE  /\ trig'.left \in 0 .. win.post - 1
         /\ trig'.at + (win.post - 1 - trig'.left) = tick + 1
         /\ Enough(Complete(Store), win.total - trig'.left)
<1> USE Bounds
<1>1. /\ active /\ ~ending /\ tick < MaxTick /\ cap # 0 /\ mode \in Captures
      /\ ring.sib \in 0 .. NTicks - 1 /\ ring.pub \in Nat /\ tick \in Nat
      /\ trig.at \in Nat /\ trig.left \in Nat
  BY CapacitiesAre DEF Sample, TypeInv, IsrTyped, RingTyped, RingWords, Rings, Trigs, Ticks,
     Captures
<1>2. /\ win.total \in Nat /\ win.total > 0 /\ win.post \in Nat /\ win.post > 0
      /\ win.pre \in Nat /\ win.total = win.pre + win.post /\ win.target <= cap
  BY <1>1 DEF CoreInv, WinInv, WinDue, TypeInv, IsrTyped
<1>3. InRow(ring, cap)
  BY <1>1 DEF CoreInv, CaptureInv, RowInv
<1>4. RingWords(Store) /\ Store.sib = ring.sib + 1 /\ Store.pub = ring.pub
  BY <1>1, StoreTyped, StoreFacts
<1>5. Store.sib \in 1 .. NTicks
  BY <1>1, <1>4
<1>6. ~Store.drop
  <2>1. Store.drop = Drops
    BY <1>1, StoreFacts
  <2> QED
    BY <1>1, <1>3, <2>1 DEF Drops, DropsBlock, InRow, Captures
<1>7. CASE hit
  <2>1. trig'.left = win.post - 1 /\ trig'.at = tick + 1
    BY <1>7
  <2>2. Enough(Store, win.pre + 1)
    <3> DEFINE stored == Store.pub * NTicks + Store.sib
    <3>1. stored \in Int
      BY <1>1, <1>4
    <3>2. (IF stored > win.total THEN win.total ELSE stored) - 1 >= win.pre
      BY <1>7 DEF TriggerReady
    <3> HIDE DEF stored
    <3>3. stored >= win.pre + 1
      BY <1>2, <3>1, <3>2
    <3> QED
      BY <3>3 DEF Enough, stored
  <2>3. Enough(Complete(Store), win.pre + 1)
    BY <1>1, <1>2, <1>4, <1>5, <1>6, <2>2, CompleteEnough
  <2>4. win.total - trig'.left = win.pre + 1
    BY <1>2, <2>1
  <2> QED
    BY <1>1, <1>2, <2>1, <2>3, <2>4
<1>8. CASE ~hit
  <2>1. /\ mode = "POST" /\ trig.left \in 1 .. win.post - 1
        /\ trig.at + (win.post - 1 - trig.left) = tick
        /\ Enough(ring, win.total - trig.left)
    BY <1>1, <1>8 DEF CoreInv, CaptureInv, PostInv
  <2>2. trig'.left = trig.left - 1 /\ trig'.at = trig.at
    BY <1>8, <2>1
  <2>3. win.total - trig'.left = win.total - trig.left + 1 /\ win.total - trig.left \in Nat
    BY <1>2, <2>1, <2>2
  <2>4. Enough(Store, win.total - trig.left + 1)
    <3>1. ring.pub * NTicks \in Int
      BY <1>1
    <3> QED
      BY <1>1, <1>4, <2>1, <2>3, <3>1 DEF Enough
  <2>5. Enough(Complete(Store), win.total - trig.left + 1)
    BY <1>1, <1>2, <1>4, <1>5, <1>6, <2>3, <2>4, CompleteEnough
  <2> QED
    BY <1>1, <1>2, <2>1, <2>2, <2>3, <2>5
<1> QED
  BY <1>7, <1>8

\* The moment of the freeze: the window is the one that was asked for.
LEMMA FreezeWindow ==
  ASSUME TypeInv, cap # 0, NEW r, RingTyped(r), NEW t \in Nat, MemoryWhole(r, t, cap),
         InRow(r, cap), win.total > 0, win.target = TargetBlocks(win.total),
         win.target <= cap, Enough(r, win.total),
         ring' = FrozenRing(r), frozenEnd' = FrozenRing(r).wr,
         frozenCount' = FrozenBlocks(FrozenRing(r)), UNCHANGED <<cap, win>>,
         trig'.at + (win.post - 1) = t, trig'.at \in Nat
  PROVE  FrozenInv' /\ FrozenWindow'
<1> USE Bounds
<1> DEFINE w == FrozenRing(r)
           m == frozenCount'
           n == Back(w, 1, cap).n
           ticks == (m - 1) * NTicks + n
<1>1. /\ m = FrozenBlocks(w) /\ ~r.drop /\ cap \in Capacity /\ cap \in Nat /\ win.post \in Nat
      /\ w.wr \in Indices(cap) /\ m \in 0 .. cap
  BY CapacitiesAre, CapacityFacts, FrozenTyped DEF TypeInv, IsrTyped, InRow
<1>2. /\ m > 0 /\ m <= w.pub /\ ticks >= win.total /\ ticks \in Nat
      /\ \A i \in 0 .. ticks - 1 :
           /\ i \div NTicks \in 0 .. m - 1
           /\ Back(w, m - (i \div NTicks), cap).data[(i % NTicks) + 1] = t - ticks + 1 + i
  BY <1>1, WindowWhole
<1>3. \A k \in 1 .. w.pub : Whole(Back(w, k, cap))
  BY <1>1, FrozenWhole
<1>4. w.pub \in Nat
  BY FrozenTyped DEF RingTyped, RingWords, Rings
<1>5. \A k : FrozenBack(k)' = Back(w, k, cap)
  BY DEF FrozenBack, Back
<1>6. FrozenInv'
  <2>1. \A k \in 1 .. m : k \in 1 .. w.pub
    BY <1>1, <1>2, <1>4
  <2> HIDE DEF w, m
  <2>2. \A k \in 1 .. m : Whole(FrozenBack(k)')
    BY <1>3, <1>5, <2>1
  <2> QED
    BY <2>2 DEF FrozenInv, m
<1>7. \A j \in 0 .. m - 1 : ring'.slots[FrozenPos(j)'] = Back(w, m - j, cap)
  <2> TAKE j \in 0 .. m - 1
  <2>1. j \in 0 .. m
    BY <1>1
  <2>2. RingAdd(RingBack(w.wr, m, cap), j, cap) = RingBack(w.wr, m - j, cap)
    BY <1>1, <2>1, RingFrozen
  <2>3. FrozenPos(j)' = RingPos(RingAdd(RingBack(w.wr, m, cap), j, cap), cap)
    BY DEF FrozenPos
  <2> QED
    BY <2>2, <2>3 DEF Back
<1>8. FrozenTicks' = ticks
  <2> DEFINE p == RingPos(RingAdd(RingBack(w.wr, m, cap), m - 1, cap), cap)
  <2>1. m - 1 \in 0 .. m /\ m - (m - 1) = 1
    BY <1>1, <1>2
  <2>2. RingAdd(RingBack(w.wr, m, cap), m - 1, cap) = RingBack(w.wr, 1, cap)
    BY <1>1, <2>1, RingFrozen
  <2>3. ring'.slots[p] = Back(w, 1, cap)
    BY <2>2 DEF Back
  <2>4. FrozenPos(frozenCount - 1)' = p
    BY DEF FrozenPos
  <2> QED
    BY <2>3, <2>4 DEF FrozenTicks
<1>9. \A i \in 0 .. ticks - 1 : FrozenTick(i)' = t - ticks + 1 + i
  <2> TAKE i \in 0 .. ticks - 1
  <2>1. FrozenTick(i)' = Back(w, m - (i \div NTicks), cap).data[(i % NTicks) + 1]
    BY <1>2, <1>7 DEF FrozenTick
  <2> QED
    BY <1>2, <2>1
<1>10. t = trig'.at + (win'.post - 1) /\ win'.post \in Nat /\ win'.total = win.total
  BY <1>1
<1>11. FrozenWindow'
  <2> HIDE DEF w, n, m, ticks
  <2>1. \A i \in 0 .. ticks - 1 : t - ticks + 1 + i = trig'.at + win'.post - ticks + i
    BY <1>2, <1>10
  <2> QED
    BY <1>2, <1>8, <1>9, <1>10, <2>1 DEF FrozenWindow, m
<1> QED
  BY <1>6, <1>11
\* A sample keeps what CPU1 keeps.
LEMMA SampleCore ==
  ASSUME TypeInv, CoreInv, Sample
  PROVE  CoreInv'
<1> USE Bounds
<1> DEFINE r == Complete(Store)
<1>1. PICK hit \in BOOLEAN :
        /\ hit => mode = "ARMED" /\ TriggerReady(Store)
        /\ trig'.at = IF hit THEN tick + 1 ELSE trig.at
        /\ trig'.left = IF hit THEN win.post - 1
                        ELSE IF mode = "POST" /\ trig.left > 0 THEN trig.left - 1
                        ELSE trig.left
        /\ ending' = ((hit \/ mode = "POST") /\ trig'.left = 0)
        /\ ending' => /\ ring' = FrozenRing(r) /\ mode' = "FROZEN"
                      /\ frozenEnd' = FrozenRing(r).wr
                      /\ frozenCount' = FrozenBlocks(FrozenRing(r))
        /\ ~ending' => ring' = r /\ mode' = IF hit THEN "POST" ELSE mode
  BY SampleWindow
<1>2. /\ active /\ ~ending /\ tick < MaxTick /\ tick' = tick + 1 /\ cap # 0 /\ tick \in Nat
      /\ UNCHANGED <<active, win, cap, pc1, cfgPend>> /\ trig' \in Trigs
      /\ mode \in {"OFF", "STREAM", "ARMED", "POST", "FROZEN"}
  <2>1. ~ending
    BY DEF Sample
  <2>2. /\ active /\ tick < MaxTick /\ tick' = tick + 1 /\ trig' \in Trigs
        /\ UNCHANGED <<active, win, cap, pc1, cfgPend>>
    BY SampleFacts DEF pendVars
  <2> QED
    BY <2>1, <2>2 DEF TypeInv, IsrTyped, ProdTyped, Ticks
<1>3. mode \in Sampling /\ pc1 \notin OffPcs
  BY <1>2 DEF CoreInv, ActInv, Rests, Sampling
<1>4. /\ RingTyped(r) /\ MemoryWhole(r, tick + 1, cap)
      /\ mode # "STREAM" /\ InRow(ring, cap) => InRow(r, cap)
  BY <1>2, SampleRing DEF CoreInv, CaptureInv, MemInv
<1>5. mode \in Captures => InRow(r, cap)
  BY <1>2, <1>4 DEF CoreInv, CaptureInv, RowInv, Captures
<1>6. mode \in Captures =>
        /\ win.total > 0 /\ win.total \in Nat /\ win.post > 0 /\ win.post \in Nat
        /\ win.target = TargetBlocks(win.total) /\ win.target <= cap
  BY <1>2 DEF CoreInv, WinInv, WinDue, TypeInv, IsrTyped
<1>7. hit \/ mode = "POST" =>
        /\ trig'.left \in 0 .. win.post - 1
        /\ trig'.at + (win.post - 1 - trig'.left) = tick + 1
        /\ Enough(r, win.total - trig'.left)
  <2>1. hit => mode = "ARMED" /\ TriggerReady(Store)
    BY <1>1
  <2>2. trig'.at = IF hit THEN tick + 1 ELSE trig.at
    BY <1>1
  <2>3. trig'.left = IF hit THEN win.post - 1
                     ELSE IF mode = "POST" /\ trig.left > 0 THEN trig.left - 1
                     ELSE trig.left
    BY <1>1
  <2> QED
    BY <2>1, <2>2, <2>3, SampleCapture
<1> HIDE DEF r
<1>8. CASE ending'
  <2>1. /\ hit \/ mode = "POST"
        /\ trig'.left = 0 /\ mode' = "FROZEN" /\ mode \in Captures
        /\ ring' = FrozenRing(r) /\ frozenEnd' = FrozenRing(r).wr
        /\ frozenCount' = FrozenBlocks(FrozenRing(r))
    BY <1>1, <1>8 DEF Captures
  <2>2. trig'.at + (win.post - 1) = tick + 1 /\ Enough(r, win.total)
    <3>1. win.total - trig'.left = win.total
      BY <1>6, <2>1
    <3>2. win.post - 1 - trig'.left = win.post - 1
      BY <1>6, <2>1
    <3> QED
      BY <1>7, <2>1, <3>1, <3>2
  <2>3. trig'.at \in Nat /\ tick + 1 \in Nat
    BY <1>2 DEF Trigs, Ticks
  <2>4. FrozenInv' /\ FrozenWindow'
    BY <1>2, <1>4, <1>5, <1>6, <2>1, <2>2, <2>3, FreezeWindow
  <2>5. ActInv' /\ EmptyInv' /\ WinInv'
    <3>1. pc1' \notin OffPcs
      BY <1>2, <1>3
    <3> QED
      BY <1>2, <1>8, <2>1, <3>1 DEF ActInv, EmptyInv, EmptyPcs, WinInv, WinDue, OffPcs,
         Sampling, Captures
  <2>6. MemInv' /\ RowInv' /\ PostInv'
    BY <1>8, <2>1 DEF MemInv, RowInv, PostInv, Captures
  <2> QED
    BY <2>4, <2>5, <2>6 DEF CoreInv, CaptureInv
<1>9. CASE ~ending'
  <2>1. /\ ring' = r /\ mode' = (IF hit THEN "POST" ELSE mode) /\ mode' \in Sampling
        /\ mode' \in Captures => mode \in Captures
        /\ mode' = "POST" => hit \/ mode = "POST"
    BY <1>1, <1>3, <1>9 DEF Sampling, Captures
  <2>2. ActInv' /\ EmptyInv'
    <3>1. pc1' \notin OffPcs
      BY <1>2, <1>3
    <3> QED
      BY <1>2, <1>9, <2>1, <3>1 DEF ActInv, EmptyInv, EmptyPcs, OffPcs, Sampling, Rests
  <2>3. WinInv'
    <3>1. pc1' \notin OffPcs
      BY <1>2, <1>3
    <3>2. WinDue' => WinDue
      BY <1>2, <2>1, <3>1 DEF WinDue, OffPcs
    <3> QED
      BY <1>2, <3>2 DEF CoreInv, WinInv, TargetBlocks
  <2>4. MemInv' /\ RowInv'
    BY <1>2, <1>4, <1>5, <2>1 DEF MemInv, RowInv
  <2>5. PostInv'
    <3> SUFFICES ASSUME mode' = "POST"
                 PROVE  /\ trig'.left \in 1 .. win'.post - 1
                        /\ trig'.at + (win'.post - 1 - trig'.left) = tick'
                        /\ Enough(ring, win.total - trig.left)'
      BY DEF PostInv
    <3>1. hit \/ mode = "POST"
      BY <2>1
    <3>2. trig'.left # 0
      BY <1>1, <1>9, <3>1
    <3>3. trig'.left \in 1 .. win.post - 1
      BY <1>7, <3>1, <3>2
    <3>4. Enough(ring, win.total - trig.left)'
      BY <1>2, <1>7, <2>1, <3>1 DEF Enough
    <3> QED
      BY <1>2, <1>7, <3>1, <3>3, <3>4
  <2>6. FrozenInv' /\ FrozenWindow'
    BY <2>1 DEF FrozenInv, FrozenWindow, Sampling
  <2> QED
    BY <2>2, <2>3, <2>4, <2>5, <2>6 DEF CoreInv, CaptureInv
<1> QED
  BY <1>8, <1>9

\* So does the end of a freeze.
LEMMA FreezeEndsCore ==
  ASSUME CoreInv, FreezeEnds
  PROVE  CoreInv'
<1>1. /\ active /\ mode = "FROZEN" /\ ~active' /\ ~ending' /\ pc1 \notin OffPcs
      /\ UNCHANGED <<tick, ring, win, trig, mode, frozenEnd, frozenCount, cap, pc1, cfgPend>>
  BY DEF FreezeEnds, CoreInv, ActInv, pendVars
<1>2. ActInv' /\ EmptyInv' /\ WinInv'
  BY <1>1 DEF ActInv, EmptyInv, EmptyPcs, WinInv, WinDue, Rests, Sampling, OffPcs
<1>3. MemInv' /\ RowInv' /\ PostInv'
  BY <1>1 DEF MemInv, RowInv, PostInv
<1>4. FrozenInv' /\ FrozenWindow'
  BY <1>1 DEF CoreInv, CaptureInv, FrozenInv, FrozenBack, FrozenWindow, FrozenTick, FrozenTicks,
     FrozenPos
<1> QED
  BY <1>2, <1>3, <1>4 DEF CoreInv, CaptureInv

\* While the interrupt is off and nothing is frozen for a reader, a capture has
\* nothing to keep.
LEMMA OffCapture ==
  ASSUME ~active', mode' # "FROZEN"
  PROVE  CaptureInv'
BY DEF CaptureInv, MemInv, RowInv, PostInv, FrozenInv, FrozenWindow

\* A binding is applied only to a scope that is OFF.
LEMMA ApplyBindCore ==
  ASSUME TypeInv, CoreInv, ApplyBind
  PROVE  CoreInv'
<1>1. /\ ~ending /\ pc1 \notin OffPcs /\ pc1' \notin OffPcs
      /\ UNCHANGED <<tick, active, win, trig, ending, mode, frozenEnd, frozenCount>>
      /\ mode = "OFF" \/ UNCHANGED <<ring, cap>>
  BY ApplyBindFacts DEF OffPcs
<1>2. CASE UNCHANGED <<ring, cap>>
  BY <1>1, <1>2, CoreFrame
<1>3. CASE mode = "OFF"
  <2>1. ~active
    BY <1>1, <1>3 DEF CoreInv, ActInv, Rests
  <2>2. ActInv' /\ EmptyInv' /\ WinInv'
    BY <1>1, <1>3, <2>1 DEF ActInv, EmptyInv, EmptyPcs, WinInv, WinDue, OffPcs, Sampling,
       Captures
  <2>3. CaptureInv'
    BY <1>1, <1>3, <2>1, OffCapture
  <2> QED
    BY <2>2, <2>3 DEF CoreInv
<1> QED
  BY <1>1, <1>2, <1>3
\* An empty ring is whole.
LEMMA EmptyWhole ==
  ASSUME NEW r, r.pub = 0, r.sib = 0, ~r.drop, NEW t, NEW c
  PROVE  MemoryWhole(r, t, c) /\ InRow(r, c)
<1>1. ~Filling(r) /\ KeptBlocks(r, c) = {}
  BY DEF Filling, KeptBlocks
<1> QED
  BY <1>1 DEF MemoryWhole, HereWhole, BackWhole, BackOrdered, InRow

\* While the interrupt is off, the frozen blocks stay until they are given up.
LEMMA OffFrozen ==
  ASSUME CoreInv, ~active', UNCHANGED <<mode, frozenEnd, cap>>, ring'.slots = ring.slots,
         frozenCount' = frozenCount \/ frozenCount' = 0, pc1' \in ReconfigPcs
  PROVE  CaptureInv'
<1>1. FrozenInv'
  <2>1. CASE frozenCount' = frozenCount
    BY <2>1 DEF CoreInv, CaptureInv, FrozenInv, FrozenBack
  <2>2. CASE frozenCount' = 0
    BY <2>2 DEF FrozenInv
  <2> QED
    BY <2>1, <2>2
<1> QED
  BY <1>1 DEF CaptureInv, MemInv, RowInv, PostInv, FrozenWindow

\* v2k_capture_post_samples splits the window into two parts.
LEMMA PostSamplesFit ==
  ASSUME NEW total \in Nat, total # 0, NEW pct \in 0 .. 100
  PROVE  PostSamples(total, pct) \in 1 .. total
<1> DEFINE prod == total * pct
           q == prod \div 100
<1>1. prod \in Nat
  <2>1. \A a, b \in Nat : a * b \in Nat
    OBVIOUS
  <2> QED
    BY <2>1
<1> HIDE DEF prod
<1>2. q \in Nat
  BY <1>1
<1>3. PostSamples(total, pct) = IF total - q = 0 THEN 1 ELSE total - q
  BY DEF PostSamples, prod
<1>4. PostSamples(total, pct) \in Nat /\ PostSamples(total, pct) # 0
  BY PostSamplesTyped
<1> QED
  BY <1>2, <1>3, <1>4

\* The steps of a configuration, one at a time.
LEMMA CfgCore ==
  ASSUME AskInv, CoreInv,
         CfgOff \/ CfgAccept \/ CfgReset \/ CfgFrozen \/ CfgIndex \/ CfgMode \/ CfgSeq
           \/ CfgActive
  PROVE  CoreInv'
<1>1. /\ TypeInv /\ UNCHANGED <<tick, ending, cap, cfgPend>> /\ ~ending
      /\ cfgPend \in CfgPends /\ ring \in Rings
      /\ cfgPend.body.mode \in {"OFF", "STREAM", "ARMED"}
      /\ cfgPend.body.points \in Nat /\ cfgPend.body.pct \in 0 .. 100
  BY CfgFacts, Pending DEF AskInv, ArmInv, TypeInv, IsrTyped, RingTyped, RingWords, CfgPends,
     Bodies
<1>2. ActInv /\ EmptyInv /\ WinInv
  BY DEF CoreInv
<1>3. ring' = [ring EXCEPT !.sib = 0, !.drop = FALSE] =>
        ring'.slots = ring.slots
  BY <1>1 DEF Rings
<1>4. ring' = [ring EXCEPT !.sib = 0, !.drop = FALSE, !.pub = 0] =>
        ring'.slots = ring.slots /\ ring'.sib = 0 /\ ~ring'.drop /\ ring'.pub = 0
  BY <1>1 DEF Rings
<1> USE DEF At1, Goto1, CfgStep, OffPcs, Sampling, Captures
<1>5. CASE CfgOff
  <2>1. /\ pc1' = "cfgMode" /\ cfgPend.body.mode = "OFF" /\ ~active'
        /\ UNCHANGED <<mode, frozenEnd, frozenCount>> /\ ring'.slots = ring.slots
    BY <1>3, <1>5 DEF CfgOff, prodVars
  <2>2. ActInv' /\ EmptyInv' /\ WinInv'
    BY <1>1, <2>1 DEF ActInv, EmptyInv, EmptyPcs, WinInv, WinDue, Rests
  <2>3. CaptureInv'
    BY <1>1, <2>1, OffFrozen DEF ReconfigPcs
  <2> QED
    BY <2>2, <2>3 DEF CoreInv
<1>6. CASE CfgAccept
  <2>1. /\ pc1' = "cfgReset" /\ pc1 = "applyCfg" /\ cfgPend.body.mode # "OFF"
        /\ UNCHANGED <<mode, active, frozenEnd, frozenCount, ring, win>>
    BY <1>6 DEF CfgAccept, prodVars
  <2>2. ~active
    BY <1>1, <1>2, <2>1 DEF AskInv, ArmInv, ArmsAtRest, ActInv
  <2>3. ActInv' /\ EmptyInv' /\ WinInv'
    BY <1>1, <1>2, <2>1, <2>2 DEF ActInv, EmptyInv, EmptyPcs, WinInv, WinDue, Rests
  <2>4. CaptureInv'
    BY <1>1, <2>1, <2>2, OffFrozen DEF ReconfigPcs
  <2> QED
    BY <2>3, <2>4 DEF CoreInv
<1>7. CASE CfgReset
  <2>1. /\ pc1' = "cfgFrozen" /\ pc1 = "cfgReset"
        /\ UNCHANGED <<mode, active, frozenEnd, frozenCount>>
        /\ ring'.slots = ring.slots /\ ring'.sib = 0 /\ ~ring'.drop /\ ring'.pub = 0
    BY <1>4, <1>7 DEF CfgReset, prodVars
  <2>2. ~active
    BY <1>2, <2>1 DEF ActInv
  <2>3. ActInv' /\ EmptyInv' /\ WinInv'
    BY <1>1, <1>2, <2>1, <2>2 DEF ActInv, EmptyInv, EmptyPcs, WinInv, WinDue, Rests
  <2>4. CaptureInv'
    BY <1>1, <2>1, <2>2, OffFrozen DEF ReconfigPcs
  <2> QED
    BY <2>3, <2>4 DEF CoreInv
<1>8. CASE CfgFrozen
  <2>1. /\ pc1' = "cfgIndex" /\ pc1 = "cfgFrozen" /\ UNCHANGED <<mode, active, ring, win>>
        /\ frozenCount' = 0
    BY <1>8 DEF CfgFrozen
  <2>2. ~active
    BY <1>2, <2>1 DEF ActInv
  <2>3. ActInv' /\ EmptyInv' /\ WinInv'
    BY <1>1, <1>2, <2>1, <2>2 DEF ActInv, EmptyInv, EmptyPcs, WinInv, WinDue, Rests
  <2>4. CaptureInv'
    BY <2>1, <2>2 DEF CaptureInv, MemInv, RowInv, PostInv, FrozenInv, FrozenWindow, ReconfigPcs
  <2> QED
    BY <2>3, <2>4 DEF CoreInv
<1>9. CASE CfgIndex
  <2>1. /\ pc1' = "cfgMode" /\ pc1 = "cfgIndex"
        /\ UNCHANGED <<mode, active, frozenEnd, frozenCount>>
        /\ \E i : ring' = [ring EXCEPT !.wr = i]
    BY <1>9 DEF CfgIndex, prodVars
  <2>2. /\ ring'.slots = ring.slots /\ ring'.sib = ring.sib /\ ring'.drop = ring.drop
        /\ ring'.pub = ring.pub
    BY <1>1, <2>1 DEF Rings
  <2>3. ~active
    BY <1>2, <2>1 DEF ActInv
  <2>4. ActInv' /\ EmptyInv'
    BY <1>1, <1>2, <2>1, <2>2, <2>3 DEF ActInv, EmptyInv, EmptyPcs, Rests
  <2>5. WinInv'
    <3> SUFFICES ASSUME cfgPend.body.mode = "ARMED"
                 PROVE  /\ win'.total > 0 /\ win'.post > 0 /\ win'.pre \in Nat
                        /\ win'.total = win'.pre + win'.post
                        /\ win'.target = TargetBlocks(win'.total) /\ win'.target <= cap
      BY <1>1, <2>1, <2>3 DEF WinInv, WinDue, TargetBlocks
    <3> DEFINE c == cfgPend.body
               post == PostSamples(c.points, c.pct)
               tb == TargetBlocks(c.points)
    <3>1. win' = [total |-> c.points, post |-> post, pre |-> c.points - post, target |-> tb]
      BY <1>9 DEF CfgIndex
    <3>2. c.points # 0 /\ tb <= cap
      <4>1. cfgPend.ok
        BY <1>1, <2>1 DEF TypeInv, Cpu1Typed, SamplePcs
      <4> QED
        BY <1>1, <4>1 DEF AskInv, PendFits
    <3>3. post \in 1 .. c.points
      BY <1>1, <3>2, PostSamplesFit
    <3> HIDE DEF post, tb
    <3>4. /\ win'.total = c.points /\ win'.post = post
          /\ win'.pre = c.points - post /\ win'.target = tb
      BY <3>1
    <3>5. tb = TargetBlocks(win'.total)
      BY <3>4 DEF tb
    <3> HIDE DEF c
    <3> QED
      BY <1>1, <3>2, <3>3, <3>4, <3>5 DEF c
  <2>6. CaptureInv'
    BY <1>1, <2>1, <2>2, <2>3, OffFrozen DEF ReconfigPcs
  <2> QED
    BY <2>4, <2>5, <2>6 DEF CoreInv
<1>10. CASE CfgMode
  <2>1. /\ pc1 = "cfgMode" /\ mode' = cfgPend.body.mode /\ UNCHANGED <<active, ring, win>>
        /\ pc1' \in {"cfgSeq", "cfgActive", "cfgAck"} /\ (pc1' = "cfgAck" => mode' = "OFF")
    BY <1>10 DEF CfgMode
  <2>2. ~active
    BY <1>2, <2>1 DEF ActInv
  <2>3. ActInv' /\ EmptyInv' /\ WinInv'
    BY <1>1, <1>2, <2>1, <2>2 DEF ActInv, EmptyInv, EmptyPcs, WinInv, WinDue, Rests, TargetBlocks
  <2>4. CaptureInv'
    BY <1>1, <2>1, <2>2, OffCapture
  <2> QED
    BY <2>3, <2>4 DEF CoreInv
<1>11. CASE CfgSeq
  <2>1. /\ pc1 = "cfgSeq" /\ UNCHANGED <<mode, active, ring, win>>
        /\ pc1' = IF cfgPend.body.mode = "OFF" THEN "cfgAck" ELSE "cfgActive"
    BY <1>11 DEF CfgSeq
  <2>2. ~active /\ mode = cfgPend.body.mode
    BY <1>2, <2>1 DEF ActInv
  <2>3. ActInv' /\ EmptyInv' /\ WinInv'
    BY <1>1, <1>2, <2>1, <2>2 DEF ActInv, EmptyInv, EmptyPcs, WinInv, WinDue, Rests, TargetBlocks
  <2>4. CaptureInv'
    BY <1>1, <2>1, <2>2, OffCapture
  <2> QED
    BY <2>3, <2>4 DEF CoreInv
<1>12. CASE CfgActive
  <2>1. /\ pc1 = "cfgActive" /\ pc1' = "cfgAck" /\ UNCHANGED <<mode, ring, win>> /\ active'
    BY <1>12 DEF CfgActive, prodVars
  <2>2. mode = cfgPend.body.mode /\ mode \in {"STREAM", "ARMED"}
    BY <1>1, <1>2, <2>1 DEF ActInv, TypeInv, Cpu1Typed, SamplePcs
  <2>3. ActInv' /\ EmptyInv' /\ WinInv'
    BY <1>1, <1>2, <2>1, <2>2 DEF ActInv, EmptyInv, EmptyPcs, WinInv, WinDue, Rests, TargetBlocks
  <2>4. ring.pub = 0 /\ ring.sib = 0 /\ ~ring.drop
    BY <1>2, <2>1, <2>2 DEF EmptyInv, EmptyPcs
  <2>5. MemInv' /\ RowInv'
    BY <2>1, <2>4, EmptyWhole DEF MemInv, RowInv
  <2>6. CaptureInv'
    BY <2>1, <2>2, <2>5 DEF CaptureInv, PostInv, FrozenInv, FrozenWindow
  <2> QED
    BY <2>3, <2>6 DEF CoreInv
<1> QED
  BY <1>5, <1>6, <1>7, <1>8, <1>9, <1>10, <1>11, <1>12

\* What CPU1 keeps is inductive.
LEMMA CoreStep ==
  ASSUME ~Timeouts, AskInv, CoreInv, [Next]_vars
  PROVE  CoreInv'
<1>1. TypeInv
  BY DEF AskInv, ArmInv
<1>2. CASE Sample \/ FreezeEnds \/ ApplyBind
  BY <1>1, <1>2, SampleCore, FreezeEndsCore, ApplyBindCore
<1>3. CASE QuietStep
  BY <1>1, <1>3, QuietFacts, CoreFrame
<1>4. CASE Cpu2 \/ UNCHANGED vars
  <2>1. UNCHANGED cpu1Vars
    BY <1>1, <1>4, Cpu2Asks DEF vars
  <2> QED
    BY <2>1, CoreFrame DEF cpu1Vars, isrVars, prodVars, pendVars
<1>5. CASE CfgOff \/ CfgAccept \/ CfgReset \/ CfgFrozen \/ CfgIndex \/ CfgMode \/ CfgSeq
             \/ CfgActive
  BY <1>5, CfgCore
<1> QED
  BY <1>2, <1>3, <1>4, <1>5, NextIs
-----------------------------------------------------------------------------
(* What CPU2 reads of a stream: no more than was published and is kept, in   *)
(* step with what it sent last.                                              *)

Unread(r) == RingDist(r.wr, rd, cap)

\* The read index CPU1 works with never sees less unread than there is, while it
\* makes CPU1 write; and a block is filled only while it sees a free slot.
Synced(r) ==
  /\ Unread(r) <= r.pub /\ Unread(r) <= Kept(r, cap)
  /\ RingDist(r.wr, rdCache, cap) < cap => Unread(r) <= RingDist(r.wr, rdCache, cap)
Cached(r) == Filling(r) => RingDist(r.wr, rdCache, cap) < cap

\* The last block that was sent is in step, and older than all that is unread.
SentBefore(r, t) ==
  lastBlk # None =>
    /\ lastBlk.start \in Nat /\ lastBlk.seq \in Nat
    /\ InStep(lastBlk, r, t) /\ lastBlk.seq < r.seq
    /\ \A k \in 1 .. Unread(r) : lastBlk.seq < Back(r, k, cap).seq

\* An index of a ring is an index of some ring.
LEMMA WideIndices ==
  ASSUME NEW c \in Capacity
  PROVE  Indices(c) \subseteq Wide /\ 0 \in Wide
<1> DEFINE m == 2 * 16383 - 1
<1>1. m \in Nat /\ c \in Nat /\ 2 * c - 1 <= m
  BY DEF Capacity
<1>2. Wide = 0 .. m
  BY DEF Wide
<1> HIDE DEF m
<1>3. 0 .. 2 * c - 1 \subseteq 0 .. m /\ 0 \in 0 .. m
  BY <1>1
<1> QED
  BY <1>2, <1>3 DEF Indices

\* The reader stands at the oldest unread block.
LEMMA UnreadFacts ==
  ASSUME TypeInv, cap # 0, rd \in Indices(cap), NEW r, r.wr \in Indices(cap) \cup {0}
  PROVE  /\ cap \in Capacity /\ cap \in Nat /\ cap > 0 /\ r.wr \in Indices(cap)
         /\ Unread(r) \in Nat /\ (Unread(r) = 0 <=> r.wr = rd)
         /\ Unread(r) <= cap => r.slots[RingPos(rd, cap)] = Back(r, Unread(r), cap)
<1>1. cap \in Capacities /\ cap \in Capacity /\ cap \in Nat /\ cap > 0
  BY CapacitiesAre DEF TypeInv, IsrTyped
<1>2. r.wr \in Indices(cap)
  BY <1>1, Places
<1>3. Unread(r) \in Nat /\ (Unread(r) = 0 <=> r.wr = rd)
  <2>1. RingDist(r.wr, rd, cap) \in 0 .. 2 * cap - 1
    BY <1>1, <1>2, RingDistance
  <2>2. RingDist(r.wr, rd, cap) = 0 <=> r.wr = rd
    BY <1>1, <1>2, RingDistance
  <2> QED
    BY <1>1, <2>1, <2>2 DEF Unread
<1>4. rd = RingBack(r.wr, Unread(r), cap)
  BY <1>1, <1>2, RingReader DEF Unread
<1> QED
  BY <1>1, <1>2, <1>3, <1>4 DEF Back

\* A block is begun only while CPU1 sees a free slot, so what is unread stays.
LEMMA StoreSync ==
  ASSUME TypeInv, cap # 0, tick < MaxTick, mode = "STREAM", Cached(ring), NEW w, w = Store
  PROVE  /\ Cached(w)
         /\ rd \in Indices(cap) /\ Synced(ring) =>
              /\ Synced(w) /\ (SentBefore(ring, tick) => SentBefore(w, tick + 1))
              /\ Unread(w) = Unread(ring)
              /\ Unread(ring) > 0 => w.slots[RingPos(rd, cap)] = ring.slots[RingPos(rd, cap)]
              /\ \A k \in 1 .. Unread(ring) : Back(w, k, cap) = Back(ring, k, cap)
<1> USE Bounds
<1>1. /\ w.wr = ring.wr /\ w.seq = ring.seq /\ w.pub = ring.pub /\ w.sib = ring.sib + 1
      /\ w.drop = Drops /\ Drops \in BOOLEAN
  BY StoreFacts
<1>2. /\ ring.sib \in Nat /\ ring.pub \in 0 .. cap /\ ring.wr \in Indices(cap) \cup {0}
      /\ cap \in Nat /\ cap > 0 /\ tick \in Nat /\ ring.seq \in Nat
      /\ RingDist(ring.wr, rdCache, cap) \in Int
  <2>1. cap \in Capacities /\ cap \in Nat /\ cap > 0
    BY CapacitiesAre DEF TypeInv, IsrTyped
  <2>2. ring.wr \in Nat /\ rdCache \in Nat
    BY DEF TypeInv, IsrTyped, RingTyped, RingWords, Rings, Cpu1Typed
  <2>3. RingDist(ring.wr, rdCache, cap) \in Int
    BY <2>1, <2>2 DEF RingDist, Uint16
  <2> QED
    BY <2>1, <2>3 DEF TypeInv, IsrTyped, RingTyped, RingWords, Rings, Ticks
<1> DEFINE d == RingDist(ring.wr, rdCache, cap)
<1>3. ~Drops => d < cap
  <2>1. CASE ring.sib = 0
    BY <1>2, <2>1 DEF Drops, DropsBlock
  <2>2. CASE ring.sib # 0
    BY <1>2, <2>2 DEF Drops, Cached, Filling
  <2> QED
    BY <2>1, <2>2
<1>4. Cached(w)
  BY <1>1, <1>3 DEF Cached, Filling
<1> SUFFICES ASSUME rd \in Indices(cap), Synced(ring)
             PROVE  /\ Synced(w) /\ (SentBefore(ring, tick) => SentBefore(w, tick + 1))
                    /\ Unread(w) = Unread(ring)
                    /\ Unread(ring) > 0 =>
                         w.slots[RingPos(rd, cap)] = ring.slots[RingPos(rd, cap)]
                    /\ \A k \in 1 .. Unread(ring) : Back(w, k, cap) = Back(ring, k, cap)
  BY <1>4
<1>6. /\ Unread(ring) \in Nat /\ Unread(w) = Unread(ring)
      /\ Unread(ring) <= cap => /\ ring.slots[RingPos(rd, cap)] = Back(ring, Unread(ring), cap)
                                /\ w.slots[RingPos(rd, cap)] = Back(w, Unread(ring), cap)
  BY <1>1, <1>2, UnreadFacts DEF Unread
<1>7. Kept(w, cap) = (IF Drops THEN cap ELSE cap - 1) /\ Kept(ring, cap) <= cap
  BY <1>1, <1>2 DEF Kept, Filling
<1>8. Synced(w)
  <2>1. Unread(ring) <= ring.pub /\ Unread(ring) <= Kept(ring, cap)
        /\ (d < cap => Unread(ring) <= d)
    BY DEF Synced
  <2>2. Unread(ring) <= Kept(w, cap)
    <3>1. Kept(ring, cap) \in Int
      BY <1>2 DEF Kept
    <3> HIDE DEF d
    <3>2. d \in Int
      BY <1>2 DEF d
    <3> QED
      BY <1>2, <1>3, <1>6, <1>7, <2>1, <3>1, <3>2
  <2> QED
    BY <1>1, <1>6, <2>1, <2>2 DEF Synced
<1>9. \A k \in 1 .. Unread(ring) : Back(w, k, cap) = Back(ring, k, cap)
  <2> TAKE k \in 1 .. Unread(ring)
  <2>1. k \in KeptBlocks(w, cap)
    <3>1. Unread(ring) <= w.pub /\ Unread(ring) <= Kept(w, cap) /\ Kept(w, cap) \in Int
          /\ w.pub \in Int
      BY <1>1, <1>2, <1>6, <1>7, <1>8 DEF Synced
    <3> QED
      BY <1>6, <3>1 DEF KeptBlocks
  <2> QED
    BY <2>1, StoreMoves
<1>10. ASSUME SentBefore(ring, tick) PROVE SentBefore(w, tick + 1)
  <2> SUFFICES ASSUME lastBlk # None
               PROVE  /\ lastBlk.start \in Nat /\ lastBlk.seq \in Nat
                      /\ InStep(lastBlk, w, tick + 1) /\ lastBlk.seq < w.seq
                      /\ \A k \in 1 .. Unread(w) : lastBlk.seq < Back(w, k, cap).seq
    BY DEF SentBefore
  <2>1. /\ lastBlk.start \in Nat /\ lastBlk.seq \in Nat
        /\ InStep(lastBlk, ring, tick) /\ lastBlk.seq < ring.seq
        /\ \A k \in 1 .. Unread(ring) : lastBlk.seq < Back(ring, k, cap).seq
    BY <1>10 DEF SentBefore
  <2>2. InStep(lastBlk, w, tick + 1)
    <3>1. (tick + 1) - w.sib + 1 = tick - ring.sib + 1
      BY <1>1, <1>2
    <3>2. NTicks * (w.seq - lastBlk.seq) = NTicks * (ring.seq - lastBlk.seq)
      BY <1>1
    <3> QED
      BY <2>1, <3>1, <3>2 DEF InStep
  <2> QED
    BY <1>1, <1>6, <1>9, <2>1, <2>2
<1>11. Unread(ring) > 0 => w.slots[RingPos(rd, cap)] = ring.slots[RingPos(rd, cap)]
  <2> SUFFICES ASSUME Unread(ring) > 0
               PROVE  w.slots[RingPos(rd, cap)] = ring.slots[RingPos(rd, cap)]
    OBVIOUS
  <2>1. Unread(ring) \in 1 .. Unread(ring) /\ Unread(ring) <= cap
    BY <1>1, <1>2, <1>6 DEF Synced
  <2> QED
    BY <1>6, <1>9, <2>1
<1> QED
  BY <1>6, <1>8, <1>9, <1>10, <1>11
\* A block that is published is one more unread block, and none of the others
\* moves.
LEMMA CompleteSync ==
  ASSUME TypeInv, cap # 0, NEW r, RingWords(r), r.sib \in 1 .. NTicks, NEW t \in Nat,
         MemoryWhole(r, t, cap), Cached(r), rdCache \in Wide, NEW w, w = Complete(r)
  PROVE  /\ Cached(w)
         /\ rd \in Indices(cap) /\ Synced(r) =>
              /\ Synced(w) /\ (SentBefore(r, t) => SentBefore(w, t))
              /\ Unread(r) > 0 => /\ Unread(w) > 0
                                  /\ w.slots[RingPos(rd, cap)] = r.slots[RingPos(rd, cap)]
<1> USE Bounds
<1>1. /\ cap \in Capacities /\ cap \in Nat /\ cap > 0 /\ r.pub \in 0 .. cap /\ r.seq \in Nat
      /\ r.wr \in Indices(cap) \cup {0} /\ r.drop \in BOOLEAN /\ cap \in Capacity
      /\ r \in Rings
  BY CapacitiesAre DEF TypeInv, IsrTyped, RingWords, Rings
<1>2. CASE r.sib < NTicks
  BY <1>2 DEF Complete
<1>3. CASE r.sib = NTicks /\ r.drop
  <2>1. w = [r EXCEPT !.sib = 0, !.seq = r.seq + 1]
    BY <1>1, <1>3 DEF Complete
  <2>2. /\ w.wr = r.wr /\ w.pub = r.pub /\ w.slots = r.slots /\ w.sib = 0
        /\ w.seq = r.seq + 1 /\ w.drop = r.drop
    BY <1>1, <2>1 DEF Rings
  <2>3. Cached(w) /\ Kept(w, cap) = Kept(r, cap) /\ Unread(w) = Unread(r)
        /\ (Synced(r) => Synced(w)) /\ \A k : Back(w, k, cap) = Back(r, k, cap)
    BY <1>3, <2>2 DEF Cached, Kept, Filling, Unread, Synced, Back
  <2>4. SentBefore(r, t) => SentBefore(w, t)
    <3> SUFFICES ASSUME SentBefore(r, t), lastBlk # None
                 PROVE  /\ lastBlk.start \in Nat /\ lastBlk.seq \in Nat
                        /\ InStep(lastBlk, w, t) /\ lastBlk.seq < w.seq
                        /\ \A k \in 1 .. Unread(w) : lastBlk.seq < Back(w, k, cap).seq
      BY DEF SentBefore
    <3>1. /\ lastBlk.start \in Nat /\ lastBlk.seq \in Nat
          /\ InStep(lastBlk, r, t) /\ lastBlk.seq < r.seq
          /\ \A k \in 1 .. Unread(r) : lastBlk.seq < Back(r, k, cap).seq
      BY DEF SentBefore
    <3>2. InStep(lastBlk, w, t)
      BY <1>1, <1>3, <2>2, <3>1, NumberedOn
    <3> QED
      BY <1>1, <2>2, <2>3, <3>1, <3>2
  <2> QED
    BY <2>2, <2>3, <2>4
<1>4. CASE r.sib = NTicks /\ ~r.drop
  <2> DEFINE u == Unread(r)
             d == RingDist(r.wr, rdCache, cap)
             e == RingDist(w.wr, rdCache, cap)
  <2>1. w = Publish(r, r.sib) /\ r.sib \in 0 .. NTicks
    BY <1>1, <1>4 DEF Complete
  <2>2. /\ w.wr = RingNext(r.wr, cap) /\ w.seq = r.seq + 1 /\ w.sib = 0
        /\ w.pub = IF r.pub < cap THEN r.pub + 1 ELSE r.pub
    BY <2>1, PublishFacts
  <2>3. /\ Back(w, 1, cap).seq = Here(r, cap).seq /\ Here(r, cap).seq = r.seq
        /\ \A k \in 2 .. cap : Back(w, k, cap) = Back(r, k - 1, cap)
    <3>1. Here(r, cap).seq = r.seq
      BY <1>1, <1>4 DEF MemoryWhole, HereWhole, Filling
    <3> QED
      BY <2>1, <3>1, PublishMoves
  <2>4. Cached(w) /\ Kept(w, cap) = cap /\ Kept(r, cap) = cap - 1 /\ d < cap
    BY <1>1, <1>4, <2>2 DEF Cached, Kept, Filling
  <2>5. SUFFICES ASSUME rd \in Indices(cap), Synced(r)
                 PROVE  /\ Synced(w) /\ (SentBefore(r, t) => SentBefore(w, t))
                        /\ Unread(r) > 0 =>
                             /\ Unread(w) > 0
                             /\ w.slots[RingPos(rd, cap)] = r.slots[RingPos(rd, cap)]
    BY <2>4
  <2>6. r.wr \in Indices(cap) /\ w.wr \in Indices(cap)
    BY <1>1, <2>2, Places
  <2>7. /\ u \in Nat /\ Unread(w) \in Nat
        /\ u <= cap => r.slots[RingPos(rd, cap)] = Back(r, u, cap)
        /\ Unread(w) <= cap => w.slots[RingPos(rd, cap)] = Back(w, Unread(w), cap)
    BY <1>1, <2>5, <2>6, UnreadFacts
  <2>8. u <= r.pub /\ u <= cap - 1 /\ u <= d
    BY <2>4, <2>5 DEF Synced
  <2>9. Unread(w) = u + 1
    <3>1. RingDist(r.wr, rd, cap) < 2 * cap - 1
      BY <1>1, <2>7, <2>8 DEF Unread
    <3> QED
      BY <1>1, <2>2, <2>5, <2>6, <3>1, RingDistance DEF Unread
  <2>10. e = d + 1 \/ e >= cap
    <3>1. RingDist(RingNext(r.wr, cap), rdCache, cap) = RingDist(r.wr, rdCache, cap) + 1
          \/ RingDist(RingNext(r.wr, cap), rdCache, cap) >= cap
      BY <1>1, <2>4, <2>6, RingCached DEF d
    <3> QED
      BY <2>2, <3>1 DEF d, e
  <2>11. d \in Int /\ e \in Int
    <3>1. rdCache \in Int /\ r.wr \in Int /\ w.wr \in Int
      BY <1>1, <2>6 DEF TypeInv, Cpu1Typed, Indices
    <3> QED
      BY <1>1, <3>1 DEF RingDist, Uint16
  <2> HIDE DEF u, d, e
  <2>12. Synced(w)
    <3>1. u + 1 <= w.pub /\ u + 1 <= cap
      BY <1>1, <2>2, <2>7, <2>8
    <3>2. e < cap => u + 1 <= e
      BY <1>1, <2>7, <2>8, <2>10, <2>11
    <3> QED
      BY <2>4, <2>9, <3>1, <3>2 DEF Synced, e
  <2>13. SentBefore(r, t) => SentBefore(w, t)
    <3> SUFFICES ASSUME SentBefore(r, t), lastBlk # None
                 PROVE  /\ lastBlk.start \in Nat /\ lastBlk.seq \in Nat
                        /\ InStep(lastBlk, w, t) /\ lastBlk.seq < w.seq
                        /\ \A k \in 1 .. Unread(w) : lastBlk.seq < Back(w, k, cap).seq
      BY DEF SentBefore
    <3>1. /\ lastBlk.start \in Nat /\ lastBlk.seq \in Nat
          /\ InStep(lastBlk, r, t) /\ lastBlk.seq < r.seq
          /\ \A k \in 1 .. u : lastBlk.seq < Back(r, k, cap).seq
      BY DEF SentBefore, u
    <3>2. InStep(lastBlk, w, t)
      BY <1>1, <1>4, <2>2, <3>1, NumberedOn
    <3>3. ASSUME NEW k \in 1 .. u + 1 PROVE lastBlk.seq < Back(w, k, cap).seq
      <4>1. CASE k = 1
        BY <2>3, <3>1, <4>1
      <4>2. CASE k # 1
        <5>1. k \in 2 .. cap /\ k - 1 \in 1 .. u
          BY <1>1, <2>7, <2>8, <4>2
        <5> QED
          BY <2>3, <3>1, <5>1
      <4> QED
        BY <4>1, <4>2
    <3> QED
      BY <1>1, <2>2, <2>9, <3>1, <3>2, <3>3
  <2>14. u > 0 => Unread(w) > 0 /\ w.slots[RingPos(rd, cap)] = r.slots[RingPos(rd, cap)]
    <3> SUFFICES ASSUME u > 0
                 PROVE  w.slots[RingPos(rd, cap)] = r.slots[RingPos(rd, cap)]
      BY <2>7, <2>9
    <3>1. u + 1 \in 2 .. cap /\ (u + 1) - 1 = u
      BY <1>1, <2>7, <2>8
    <3>2. Back(w, u + 1, cap) = Back(r, u, cap)
      BY <2>3, <3>1
    <3> QED
      BY <1>1, <2>7, <2>8, <2>9, <3>1, <3>2
  <2> QED
    BY <2>12, <2>13, <2>14 DEF u
<1> QED
  BY <1>1, <1>2, <1>3, <1>4
-----------------------------------------------------------------------------
(* CPU2 follows the stream: it resynchronises when it sees a new state_seq,  *)
(* the index CPU1 works with is the one it left until then, and from then on *)
(* it reads nothing that is not published and kept.                          *)

StreamPcs == {"stream", "streamCopy"}
FrozenPcs == {"capture", "captureCopy", "replay", "replayCopy"}
CopyPcs   == {"captureCopy", "replayCopy"}

SeqInv ==
  /\ seenSeq \in Int /\ seenSeq <= stateSeq
  /\ pc1 = "cfgActive" => seenSeq < stateSeq
  /\ pc2 \in StreamPcs => mode = "STREAM"
  /\ pc2 \in {"push"} \cup StreamPcs /\ mode = "STREAM" => seenSeq = stateSeq
  /\ pc2 \in FrozenPcs => mode = "FROZEN"
  /\ rd \in Wide /\ rdCache \in Wide

CacheInv ==
  /\ pc1 = "cfg" /\ mode # "STREAM" => rdCache = rd
  /\ cfgPend \in CfgPends /\ cfgPend.body.mode # "OFF" /\ pc1 \notin {"cfgActive", "cfgAck"}
     => rdCache = rd
  /\ mode = "STREAM" /\ seenSeq # stateSeq => rdCache = rd
  /\ mode = "STREAM" /\ active => Cached(ring)

SyncInv ==
  mode = "STREAM" /\ active /\ seenSeq = stateSeq =>
    rd \in Indices(cap) /\ Synced(ring) /\ SentBefore(ring, tick)

ViewInv ==
  /\ pc2 = "streamCopy" => rd # ring.wr /\ view = HeadOf(RingPos(rd, cap))
  /\ pc2 \in CopyPcs =>
       \E k \in 1 .. frozenCount : view = HeadOf(RingPos(RingBack(frozenEnd, k, cap), cap))

ReadInv == SeqInv /\ CacheInv /\ SyncInv /\ ViewInv

\* Nothing is read at the start.
LEMMA ReadInit == Init => ReadInv
<1> SUFFICES ASSUME Init PROVE ReadInv
  OBVIOUS
<1>1. 0 \in Wide
  BY DEF Wide
<1>2. /\ seenSeq = -1 /\ stateSeq = 0 /\ pc1 = "service" /\ pc2 = "loop" /\ mode = "OFF"
      /\ rd = 0 /\ rdCache = 0
  BY DEF Init
<1> QED
  BY <1>1, <1>2 DEF ReadInv, SeqInv, CacheInv, SyncInv, ViewInv, StreamPcs, FrozenPcs, CopyPcs

\* Steps that leave alone what the reader sees, and the read index CPU1 knows.
LEMMA ReadFrame ==
  ASSUME ReadInv,
         UNCHANGED <<tick, active, ring, mode, stateSeq, cap, frozenEnd, frozenCount>>,
         UNCHANGED cpu2Vars, UNCHANGED rdCache,
         pc1' = pc1 \/ pc1' \notin {"cfg", "cfgActive"},
         cfgPend' \in CfgPends /\ cfgPend'.body.mode # "OFF" /\ pc1' \notin {"cfgActive", "cfgAck"}
           => rdCache = rd
  PROVE  ReadInv'
<1> USE DEF cpu2Vars, outVars
<1>1. SeqInv'
  BY DEF ReadInv, SeqInv
<1>2. CacheInv'
  <2>1. pc1' = "cfg" => pc1 = "cfg"
    OBVIOUS
  <2> QED
    BY <2>1 DEF ReadInv, CacheInv, Cached
<1>3. SyncInv'
  BY DEF ReadInv, SyncInv, Synced, SentBefore, Unread
<1>4. ViewInv'
  BY DEF ReadInv, ViewInv, HeadOf
<1> QED
  BY <1>1, <1>2, <1>3, <1>4 DEF ReadInv
\* CPU1 reads the index anew: what is unread is still kept, so a block being
\* filled has room.
LEMMA CacheReadIndexReads ==
  ASSUME AskInv, ReadInv, CacheReadIndex
  PROVE  ReadInv'
<1>1. /\ pc1' = "cfg" /\ rdCache' = rd /\ UNCHANGED cfgPend
      /\ UNCHANGED <<tick, active, ring, mode, stateSeq, cap, frozenEnd, frozenCount>>
      /\ UNCHANGED cpu2Vars
  BY DEF CacheReadIndex, Goto1, NoSampling, isrVars, prodVars, pendVars
<1>2. TypeInv
  BY DEF AskInv, ArmInv
<1> USE DEF cpu2Vars, outVars
<1>3. SeqInv'
  BY <1>1 DEF ReadInv, SeqInv
<1>4. SyncInv'
  <2> SUFFICES ASSUME mode = "STREAM", active, seenSeq = stateSeq
               PROVE  (rd \in Indices(cap) /\ Synced(ring) /\ SentBefore(ring, tick))'
    BY <1>1 DEF SyncInv
  <2>1. rd \in Indices(cap) /\ Synced(ring) /\ SentBefore(ring, tick)
    BY DEF ReadInv, SyncInv
  <2>2. Unread(ring)' = Unread(ring) /\ RingDist(ring.wr, rdCache, cap)' = Unread(ring)
    BY <1>1 DEF Unread
  <2>3. Synced(ring)'
    <3>1. Unread(ring) <= Unread(ring)
      <4>1. cap # 0 /\ ring.wr \in Indices(cap) \cup {0}
        BY <1>2 DEF TypeInv, IsrTyped, RingTyped, RingWords
      <4>2. Unread(ring) \in Nat
        BY <1>2, <2>1, <4>1, UnreadFacts
      <4> QED
        BY <4>2
    <3> QED
      BY <1>1, <2>1, <2>2, <3>1 DEF Synced
  <2>4. SentBefore(ring, tick)'
    BY <1>1, <2>1, <2>2 DEF SentBefore
  <2> QED
    BY <1>1, <2>1, <2>3, <2>4
<1>5. mode = "STREAM" /\ active /\ Filling(ring) => RingDist(ring.wr, rd, cap) < cap
  <2> SUFFICES ASSUME mode = "STREAM", active, Filling(ring)
               PROVE  RingDist(ring.wr, rd, cap) < cap
    OBVIOUS
  <2>1. CASE seenSeq # stateSeq
    BY <2>1 DEF ReadInv, CacheInv, Cached
  <2>2. CASE seenSeq = stateSeq
    <3>1. rd \in Indices(cap) /\ Unread(ring) <= Kept(ring, cap)
      BY <2>2 DEF ReadInv, SyncInv, Synced
    <3>2. cap # 0 /\ ring.wr \in Indices(cap) \cup {0}
      BY <1>2 DEF TypeInv, IsrTyped, RingTyped, RingWords
    <3>3. Unread(ring) \in Nat /\ cap \in Nat
      BY <1>2, <3>1, <3>2, UnreadFacts
    <3> QED
      BY <3>1, <3>3 DEF Kept, Unread
  <2> QED
    BY <2>1, <2>2
<1>6. CacheInv'
  BY <1>1, <1>5 DEF ReadInv, CacheInv, Cached, Filling
<1>7. ViewInv'
  BY <1>1 DEF ReadInv, ViewInv, HeadOf
<1> QED
  BY <1>3, <1>4, <1>6, <1>7 DEF ReadInv

\* A configuration is taken while the mode rests, so the index CPU1 has just
\* read is still where CPU2 reads.
LEMMA QuietReads ==
  ASSUME AskInv, ReadInv, QuietStep
  PROVE  ReadInv'
<1>1. TypeInv /\ cfgPend \in CfgPends \cup {None} /\ None \notin CfgPends
  BY NonePends DEF AskInv, ArmInv, TypeInv, Cpu1Typed
<1>2. /\ UNCHANGED <<tick, active, ring, mode, stateSeq, cap, frozenEnd, frozenCount>>
      /\ UNCHANGED cpu2Vars /\ pc1 \notin OffPcs /\ pc1' \notin OffPcs
  BY <1>1, QuietFacts
<1>3. CASE CacheReadIndex
  BY <1>3, CacheReadIndexReads
<1>4. CASE CopyCfg
  <2>1. /\ pc1 = "cfg" /\ pc1' \in {"cfgCheck", "bind"} /\ UNCHANGED rdCache
        /\ \/ UNCHANGED cfgPend
           \/ /\ cfgPend = None /\ cfgReq.seq # cfgAck
              /\ cfgPend' = [body |-> cfgReq.body, seq |-> cfgReq.seq, ok |-> FALSE]
    BY <1>4 DEF CopyCfg, At1, Goto1
  <2>2. ASSUME cfgPend' \in CfgPends, cfgPend'.body.mode # "OFF" PROVE rdCache = rd
    <3>1. CASE UNCHANGED cfgPend
      BY <2>1, <2>2, <3>1 DEF ReadInv, CacheInv
    <3>2. CASE /\ cfgPend = None /\ cfgReq.seq # cfgAck
               /\ cfgPend' = [body |-> cfgReq.body, seq |-> cfgReq.seq, ok |-> FALSE]
      <4>1. cfgReq.body.mode # "OFF" /\ cfgPend \notin CfgPends
        BY <1>1, <2>2, <3>2
      <4>2. cfgAck < cfgReq.seq
        <5>1. cfgAck \in Nat /\ cfgReq.seq \in Nat
          BY <1>1 DEF TypeInv, Cpu1Typed, Cpu2Typed
        <5> QED
          BY <3>2, <5>1 DEF AskInv, ArmInv, CfgOrder
      <4>3. Rests
        BY <4>1, <4>2 DEF AskInv, ArmInv, WaitsAtRest
      <4> QED
        BY <2>1, <4>3 DEF Rests, ReadInv, CacheInv
    <3> QED
      BY <2>1, <3>1, <3>2
  <2> QED
    BY <1>2, <2>1, <2>2, ReadFrame
<1>5. CASE CheckCfg \/ CopyBind \/ CheckBind \/ CopyForce \/ CheckForce \/ ForceRefuse
             \/ ForceAccept \/ ForceSet \/ CfgRefuse \/ CfgAck
  <2>1. /\ UNCHANGED rdCache /\ pc1' # "cfg"
        /\ \/ UNCHANGED cfgPend /\ pc1 # "cfgAck"
           \/ cfgPend' = None
           \/ cfgPend' = [cfgPend EXCEPT !.ok = ValidCfg(cfgPend.body)] /\ pc1 = "cfgCheck"
    <3> USE DEF At1, Goto1, NextApply
    <3>1. CASE CheckCfg
      BY <3>1 DEF CheckCfg
    <3>2. CASE CopyBind \/ CheckBind \/ CopyForce \/ CheckForce
      BY <3>2 DEF CopyBind, CheckBind, CopyForce, CheckForce, NoSampling
    <3>3. CASE ForceRefuse \/ ForceAccept \/ ForceSet
      BY <3>3 DEF ForceRefuse, ForceAccept, ForceSet, ForceStep
    <3>4. CASE CfgRefuse \/ CfgAck
      BY <3>4 DEF CfgRefuse, CfgAck, CfgStep
    <3> QED
      BY <1>5, <3>1, <3>2, <3>3, <3>4
  <2>2. ASSUME cfgPend' \in CfgPends, cfgPend'.body.mode # "OFF",
               pc1' \notin {"cfgActive", "cfgAck"}
        PROVE  rdCache = rd
    <3>1. CASE UNCHANGED cfgPend /\ pc1 # "cfgAck"
      BY <1>2, <2>2, <3>1 DEF ReadInv, CacheInv, OffPcs
    <3>2. CASE cfgPend' = [cfgPend EXCEPT !.ok = ValidCfg(cfgPend.body)] /\ pc1 = "cfgCheck"
      <4>1. cfgPend \in CfgPends
        BY <1>1, <3>2 DEF TypeInv, Cpu1Typed, CfgPcs
      <4>2. cfgPend'.body = cfgPend.body
        BY <3>2, <4>1 DEF CfgPends
      <4> QED
        BY <2>2, <3>2, <4>1, <4>2 DEF ReadInv, CacheInv
    <3> QED
      BY <1>1, <2>1, <2>2, <3>1, <3>2
  <2>3. pc1' \notin {"cfg", "cfgActive"}
    BY <1>2, <2>1 DEF OffPcs
  <2> QED
    BY <1>2, <2>1, <2>2, <2>3, ReadFrame
<1> QED
  BY <1>3, <1>4, <1>5 DEF QuietStep
\* A sample under CPU2's reading.
LEMMA SampleReads ==
  ASSUME AskInv, CoreInv, ReadInv, Sample
  PROVE  ReadInv'
<1> USE Bounds
<1> DEFINE w == Complete(Store)
<1>1. TypeInv
  BY DEF AskInv, ArmInv
<1>2. /\ active /\ active' /\ tick < MaxTick /\ tick' = tick + 1
      /\ stateSeq' \in {stateSeq, stateSeq + 1}
      /\ UNCHANGED <<cap, pc1, pc2, cfgPend, rdCache, rd, seenSeq, lastBlk, view>>
      /\ mode = "STREAM" => mode' = "STREAM" /\ ring' = w
      /\ mode' = "STREAM" => mode = "STREAM"
  <2>1. UNCHANGED <<active, cap, pc1, rdCache, pendVars, cpu2Vars>>
    BY <1>1, SampleFacts
  <2>2. /\ active /\ tick < MaxTick /\ tick' = tick + 1
        /\ stateSeq' \in {stateSeq, stateSeq + 1}
    BY <1>1, SampleFacts
  <2>3. \/ ring' = w /\ (mode' = mode \/ (mode = "ARMED" /\ mode' = "POST"))
        \/ mode \in {"ARMED", "POST"} /\ mode' = "FROZEN"
    BY <1>1, SampleFacts
  <2> QED
    BY <2>1, <2>2, <2>3 DEF pendVars, cpu2Vars, outVars
<1>3. ~ending /\ (mode = "STREAM" => stateSeq' = stateSeq)
  BY DEF Sample
<1>4. /\ mode \in {"OFF", "STREAM", "ARMED", "POST", "FROZEN"} /\ cap # 0
      /\ tick \in Nat /\ tick + 1 \in Nat /\ stateSeq \in Nat
      /\ ring.sib \in 0 .. NTicks - 1
  BY <1>1, <1>2 DEF TypeInv, IsrTyped, ProdTyped, RingTyped, Ticks
<1>5. mode # "FROZEN" /\ mode # "OFF" /\ pc1 # "cfgActive"
  BY <1>2, <1>3 DEF CoreInv, ActInv, Rests, OffPcs
<1>6. pc2 \notin FrozenPcs
  BY <1>5 DEF ReadInv, SeqInv
<1>7. SeqInv'
  BY <1>2, <1>3, <1>4, <1>5, <1>6 DEF ReadInv, SeqInv
<1>8. CASE mode # "STREAM"
  <2>1. SyncInv' /\ ViewInv'
    <3>1. pc2 \notin StreamPcs
      BY <1>8 DEF ReadInv, SeqInv
    <3> QED
      BY <1>2, <1>6, <1>8, <3>1 DEF SyncInv, ViewInv, StreamPcs, FrozenPcs, CopyPcs
  <2>2. CacheInv'
    BY <1>2, <1>8 DEF ReadInv, CacheInv
  <2> QED
    BY <1>7, <2>1, <2>2 DEF ReadInv
<1>9. CASE mode = "STREAM"
  <2>1. /\ Cached(ring) /\ MemoryWhole(ring, tick, cap)
    BY <1>2, <1>3, <1>9 DEF ReadInv, CacheInv, CoreInv, CaptureInv, MemInv
  <2>2. /\ RingWords(Store) /\ Store.sib \in 1 .. NTicks
        /\ MemoryWhole(Store, tick + 1, cap) /\ rdCache \in Wide
    <3>1. RingWords(Store) /\ Store.sib = ring.sib + 1
      BY <1>1, <1>2, StoreTyped
    <3>2. MemoryWhole(Store, tick + 1, cap)
      BY <1>1, <1>2, <1>4, <2>1, StoreWhole
    <3> QED
      BY <1>4, <3>1, <3>2 DEF ReadInv, SeqInv
  <2>3. /\ Cached(Store)
        /\ rd \in Indices(cap) /\ Synced(ring) =>
             /\ Synced(Store) /\ (SentBefore(ring, tick) => SentBefore(Store, tick + 1))
             /\ Unread(Store) = Unread(ring)
             /\ Unread(ring) > 0 => Store.slots[RingPos(rd, cap)] = ring.slots[RingPos(rd, cap)]
    BY <1>1, <1>2, <1>4, <1>9, <2>1, StoreSync
  <2>4. /\ Cached(w)
        /\ rd \in Indices(cap) /\ Synced(Store) =>
              /\ Synced(w) /\ (SentBefore(Store, tick + 1) => SentBefore(w, tick + 1))
              /\ Unread(Store) > 0 => /\ Unread(w) > 0
                                  /\ w.slots[RingPos(rd, cap)] = Store.slots[RingPos(rd, cap)]
    BY <1>1, <1>4, <2>2, <2>3, CompleteSync
  <2> HIDE DEF w
  <2>5. CacheInv'
    <3>1. Cached(ring)'
      BY <1>2, <1>9, <2>4 DEF Cached
    <3> QED
      BY <1>2, <1>3, <1>9, <3>1 DEF ReadInv, CacheInv
  <2>6. ASSUME seenSeq = stateSeq
        PROVE  /\ rd \in Indices(cap) /\ Synced(w) /\ SentBefore(w, tick + 1)
               /\ Unread(ring) > 0 => /\ Unread(w) > 0
                                      /\ w.slots[RingPos(rd, cap)] = ring.slots[RingPos(rd, cap)]
    <3>1. rd \in Indices(cap) /\ Synced(ring) /\ SentBefore(ring, tick)
      BY <1>2, <1>9, <2>6 DEF ReadInv, SyncInv
    <3> QED
      BY <2>3, <2>4, <3>1
  <2>7. SyncInv'
    <3> SUFFICES ASSUME seenSeq = stateSeq
                 PROVE  (rd \in Indices(cap) /\ Synced(ring) /\ SentBefore(ring, tick))'
      BY <1>2, <1>3, <1>9 DEF SyncInv
    <3>1. Synced(ring)'
      BY <1>2, <1>9, <2>6 DEF Synced, Unread
    <3>2. SentBefore(ring, tick)'
      BY <1>2, <1>9, <2>6 DEF SentBefore, Unread
    <3> QED
      BY <1>2, <2>6, <3>1, <3>2
  <2>8. ViewInv'
    <3> SUFFICES ASSUME pc2 = "streamCopy"
                 PROVE  (rd # ring.wr /\ view = HeadOf(RingPos(rd, cap)))'
      BY <1>2, <1>6 DEF ViewInv, FrozenPcs, CopyPcs
    <3>1. seenSeq = stateSeq /\ rd # ring.wr /\ view = HeadOf(RingPos(rd, cap))
      BY <1>9 DEF ReadInv, SeqInv, ViewInv, StreamPcs
    <3>2. /\ ring.wr \in Indices(cap) \cup {0}
          /\ w.wr \in Indices(cap) \cup {0}
      <4>1. RingTyped(w)
        BY <1>1, <1>2, <1>4, <2>1, SampleRing DEF w
      <4> QED
        BY <1>1, <4>1 DEF TypeInv, IsrTyped, RingTyped, RingWords
    <3>3. /\ rd \in Indices(cap)
          /\ Unread(ring) \in Nat /\ (Unread(ring) = 0 <=> ring.wr = rd)
          /\ Unread(w) \in Nat /\ (Unread(w) = 0 <=> w.wr = rd)
      BY <1>1, <1>4, <2>6, <3>1, <3>2, UnreadFacts
    <3>4. w.wr # rd /\ w.slots[RingPos(rd, cap)] = ring.slots[RingPos(rd, cap)]
      BY <2>6, <3>1, <3>3
    <3> QED
      BY <1>2, <1>9, <3>1, <3>4 DEF HeadOf
  <2> QED
    BY <1>7, <2>5, <2>7, <2>8 DEF ReadInv
<1> QED
  BY <1>8, <1>9

\* The end of a freeze happens to a capture.
LEMMA FreezeEndsReads ==
  ASSUME AskInv, CoreInv, ReadInv, FreezeEnds
  PROVE  ReadInv'
<1>1. /\ mode = "FROZEN" /\ stateSeq \in Nat /\ stateSeq' = stateSeq + 1
      /\ UNCHANGED <<mode, ring, frozenEnd, frozenCount, cap, rdCache, pc1, cfgPend>>
      /\ UNCHANGED cpu2Vars
  BY DEF FreezeEnds, CoreInv, ActInv, AskInv, ArmInv, TypeInv, ProdTyped, pendVars
<1> USE DEF cpu2Vars, outVars
<1>2. SeqInv' /\ SyncInv'
  BY <1>1 DEF ReadInv, SeqInv, SyncInv
<1>3. CacheInv' /\ ViewInv'
  BY <1>1 DEF ReadInv, CacheInv, ViewInv, HeadOf
<1> QED
  BY <1>2, <1>3 DEF ReadInv

\* A bind is applied while CPU2 waits for it.
LEMMA ApplyBindReads ==
  ASSUME AskInv, ReadInv, ApplyBind
  PROVE  ReadInv'
<1>1. TypeInv
  BY DEF AskInv, ArmInv
<1>2. /\ pc1 = "applyBind" /\ pc1' \notin OffPcs /\ pc1' \notin {"cfg", "cfgAck"}
      /\ UNCHANGED <<tick, active, mode, stateSeq, frozenEnd, frozenCount, rdCache, cfgPend>>
      /\ UNCHANGED cpu2Vars /\ (mode = "OFF" \/ UNCHANGED <<ring, cap>>)
  BY ApplyBindFacts DEF ApplyBind, Goto1, NextApply
<1>3. pc2 = "update" \/ pc2 \notin StreamPcs \cup FrozenPcs \/ mode # "OFF"
  BY DEF ReadInv, SeqInv
<1> USE DEF cpu2Vars, outVars
<1>4. SeqInv'
  BY <1>2 DEF ReadInv, SeqInv, OffPcs
<1>5. CacheInv' /\ SyncInv'
  <2>1. CASE mode = "OFF"
    BY <1>2, <2>1 DEF ReadInv, CacheInv, SyncInv
  <2>2. CASE UNCHANGED <<ring, cap>>
    BY <1>2, <2>2 DEF ReadInv, CacheInv, SyncInv, Cached, Synced, SentBefore, Unread
  <2> QED
    BY <1>2, <2>1, <2>2
<1>6. ViewInv'
  <2>1. CASE mode = "OFF"
    BY <1>2, <1>3, <2>1 DEF ViewInv, StreamPcs, FrozenPcs, CopyPcs
  <2>2. CASE UNCHANGED <<ring, cap>>
    BY <1>2, <2>2 DEF ReadInv, ViewInv, HeadOf
  <2> QED
    BY <1>2, <2>1, <2>2
<1> QED
  BY <1>4, <1>5, <1>6 DEF ReadInv
\* A configuration is applied while CPU2 waits for it, and what starts STREAM
\* starts from an empty ring with a state_seq that CPU2 has not seen.
LEMMA CfgReads ==
  ASSUME AskInv, CoreInv, ReadInv,
         CfgOff \/ CfgAccept \/ CfgReset \/ CfgFrozen \/ CfgIndex \/ CfgMode \/ CfgSeq
           \/ CfgActive
  PROVE  ReadInv'
<1>1. TypeInv /\ stateSeq \in Nat /\ mode \in {"OFF", "STREAM", "ARMED", "POST", "FROZEN"}
  BY DEF AskInv, ArmInv, TypeInv, ProdTyped
<1>2. /\ UNCHANGED <<tick, cap, rdCache, cfgPend>> /\ UNCHANGED cpu2Vars
      /\ pc1 \in CfgPcs /\ pc1' \in OffPcs \cup {"cfgAck"}
  BY CfgFacts
<1>3. cfgPend \in CfgPends /\ cfgPend.body.mode \in {"OFF", "STREAM", "ARMED"}
      /\ pc2 = "update" /\ pc2' = "update"
  <2>1. cfgPend \in CfgPends /\ pc2 = "update"
    BY <1>2, Pending
  <2>2. cfgPend.body.mode \in {"OFF", "STREAM", "ARMED"}
    BY <2>1, Bounds DEF CfgPends, Bodies
  <2> QED
    BY <1>2, <2>1, <2>2 DEF cpu2Vars
<1>4. UNCHANGED <<rd, seenSeq>>
  BY <1>2 DEF cpu2Vars
<1>5. ViewInv'
  BY <1>3 DEF ViewInv, CopyPcs
<1>6. pc1 \notin {"cfgSeq", "cfgActive", "cfgAck"} /\ cfgPend.body.mode # "OFF" => Rests
  BY <1>3 DEF AskInv, ArmInv, ArmsAtRest
<1>7. \/ /\ pc1 # "cfgActive" /\ pc1' # "cfgActive" /\ pc1' # "cfgAck"
         /\ UNCHANGED <<mode, stateSeq>> /\ (~active' \/ UNCHANGED <<active, ring>>)
      \/ /\ pc1 = "cfgMode" /\ mode' = cfgPend.body.mode /\ UNCHANGED <<stateSeq, active>>
         /\ (pc1' = "cfgActive" => mode = cfgPend.body.mode /\ mode # "OFF")
      \/ /\ pc1 = "cfgSeq" /\ stateSeq' = stateSeq + 1 /\ UNCHANGED <<mode, active>>
      \/ /\ pc1 = "cfgActive" /\ pc1' = "cfgAck" /\ UNCHANGED <<mode, stateSeq, ring>>
  <2> USE DEF At1, Goto1, CfgStep, prodVars
  <2>1. CASE CfgOff \/ CfgAccept
    BY <2>1 DEF CfgOff, CfgAccept
  <2>2. CASE CfgReset \/ CfgFrozen \/ CfgIndex
    <3>1. pc1 \in OffPcs => ~active
      BY DEF CoreInv, ActInv
    <3> QED
      BY <2>2, <3>1 DEF CfgReset, CfgFrozen, CfgIndex, OffPcs
  <2>3. CASE CfgMode
    BY <2>3 DEF CfgMode
  <2>4. CASE CfgSeq \/ CfgActive
    BY <2>4 DEF CfgSeq, CfgActive
  <2> QED
    BY <2>1, <2>2, <2>3, <2>4
<1>8. CASE /\ pc1 # "cfgActive" /\ pc1' # "cfgActive" /\ pc1' # "cfgAck"
           /\ UNCHANGED <<mode, stateSeq>> /\ (~active' \/ UNCHANGED <<active, ring>>)
  <2>1. SeqInv'
    BY <1>2, <1>3, <1>4, <1>8 DEF ReadInv, SeqInv, StreamPcs, FrozenPcs
  <2>2. pc1 # "cfgAck"
    BY DEF CfgOff, CfgAccept, CfgReset, CfgFrozen, CfgIndex, CfgMode, CfgSeq, CfgActive, CfgStep,
       At1
  <2>3. CacheInv'
    <3>1. pc1' # "cfg"
      BY <1>2 DEF OffPcs
    <3>2. mode = "STREAM" /\ active' => Cached(ring)'
      BY <1>2, <1>4, <1>8 DEF ReadInv, CacheInv, Cached
    <3> QED
      BY <1>2, <1>3, <1>4, <1>8, <2>2, <3>1, <3>2 DEF ReadInv, CacheInv
  <2>4. SyncInv'
    BY <1>2, <1>4, <1>8 DEF ReadInv, SyncInv, Synced, SentBefore, Unread, cpu2Vars, outVars
  <2> QED
    BY <1>5, <2>1, <2>3, <2>4 DEF ReadInv
<1>9. CASE /\ pc1 = "cfgMode" /\ mode' = cfgPend.body.mode /\ UNCHANGED <<stateSeq, active>>
           /\ (pc1' = "cfgActive" => mode = cfgPend.body.mode /\ mode # "OFF")
  <2>1. ~active /\ pc1' # "cfgActive" /\ pc1' # "cfg"
    BY <1>2, <1>3, <1>6, <1>9 DEF CoreInv, ActInv, OffPcs, Rests
  <2>2. SeqInv'
    BY <1>2, <1>3, <1>4, <1>9, <2>1 DEF ReadInv, SeqInv, StreamPcs, FrozenPcs
  <2>3. cfgPend.body.mode # "OFF" => rdCache = rd
    BY <1>3, <1>9 DEF ReadInv, CacheInv
  <2>4. CacheInv' /\ SyncInv'
    BY <1>2, <1>3, <1>4, <1>9, <2>1, <2>3 DEF CacheInv, SyncInv
  <2> QED
    BY <1>5, <2>2, <2>4 DEF ReadInv
<1>10. CASE pc1 = "cfgSeq" /\ stateSeq' = stateSeq + 1 /\ UNCHANGED <<mode, active>>
  <2>1. ~active /\ pc1' # "cfg" /\ mode = cfgPend.body.mode /\ pc1' \notin {"cfgSeq"}
    <3>1. pc1' # "cfgSeq"
      BY <1>10 DEF CfgOff, CfgAccept, CfgReset, CfgFrozen, CfgIndex, CfgMode, CfgSeq, CfgActive,
         CfgStep, At1, Goto1
    <3> QED
      BY <1>2, <1>10, <3>1 DEF CoreInv, ActInv, OffPcs
  <2>2. SeqInv'
    BY <1>1, <1>2, <1>3, <1>4, <1>10 DEF ReadInv, SeqInv, StreamPcs, FrozenPcs
  <2>3. cfgPend.body.mode # "OFF" => rdCache = rd
    BY <1>3, <1>10 DEF ReadInv, CacheInv
  <2>4. CacheInv' /\ SyncInv'
    BY <1>2, <1>3, <1>4, <1>10, <2>1, <2>3 DEF CacheInv, SyncInv
  <2> QED
    BY <1>5, <2>2, <2>4 DEF ReadInv
<1>11. CASE pc1 = "cfgActive" /\ pc1' = "cfgAck" /\ UNCHANGED <<mode, stateSeq, ring>>
  <2>1. SeqInv' /\ seenSeq < stateSeq /\ seenSeq # stateSeq
    BY <1>1, <1>2, <1>3, <1>4, <1>11 DEF ReadInv, SeqInv, StreamPcs, FrozenPcs
  <2>2. mode = "STREAM" => ~Filling(ring)
    BY <1>11 DEF CoreInv, EmptyInv, EmptyPcs, Filling
  <2>3. SyncInv'
    BY <1>4, <1>11, <2>1 DEF SyncInv
  <2>4. CacheInv'
    BY <1>2, <1>4, <1>11, <2>1, <2>2 DEF ReadInv, CacheInv, Cached, Filling
  <2> QED
    BY <1>5, <2>1, <2>3, <2>4 DEF ReadInv
<1> QED
  BY <1>7, <1>8, <1>9, <1>10, <1>11
\* The steps of CPU2 by what they do to the read index and the view.
ReadsOn == UNCHANGED <<rd, seenSeq, lastBlk>>

StandsStill ==
  /\ ReadsOn /\ pc2' \notin {"streamCopy"} \cup CopyPcs
  /\ pc2' = "push" => pc2 \in FrozenPcs
  /\ pc2' = "stream" => mode = "STREAM" /\ pc2 = "push"
  /\ pc2' \in FrozenPcs => mode = "FROZEN" \/ pc2 \in FrozenPcs

ViewsFrozen ==
  /\ ReadsOn /\ pc2' \in CopyPcs /\ mode = "FROZEN"
  /\ \E k \in Nat : k < frozenCount /\ view' = HeadOf(FrozenPos(k))

\* Those are all the steps of CPU2.
LEMMA Cpu2Steps ==
  ASSUME TypeInv, Cpu2
  PROVE  StandsStill \/ Update \/ ViewsFrozen \/ StreamPeek \/ StreamCopy \/ StreamSubmit
<1> USE DEF At2, Goto2, Handler, Consumer, FrozenPcs, CopyPcs, ReadsOn
<1>1. CASE DaqCtrl \/ DaqCtrlBody \/ DaqCtrlPublish \/ DaqBind \/ DaqBindPublish
  BY <1>1 DEF DaqCtrl, DaqCtrlBody, DaqCtrlPublish, DaqBind, DaqBindPublish, outVars, StandsStill
<1>2. CASE CaptureForce \/ CaptureForcePublish \/ CaptureReplay \/ PushNothing
  BY <1>2 DEF CaptureForce, CaptureForcePublish, CaptureReplay, PushNothing, outVars, StandsStill
<1>3. CASE CapturePush \/ ReplayPush \/ StreamPush
  BY <1>3 DEF CapturePush, ReplayPush, StreamPush, StandsStill
<1>4. CASE CaptureCopy \/ CaptureSubmit \/ ReplayCopy \/ ReplaySubmit
  BY <1>4 DEF CaptureCopy, CaptureSubmit, ReplayCopy, ReplaySubmit, CopyFrozen, StandsStill
<1>5. push.next + batch \in Nat /\ replay.next + batch \in Nat
  BY DEF TypeInv, Cpu2Typed
<1>6. CASE CaptureView
  <2>1. /\ ReadsOn /\ pc2' \in CopyPcs /\ mode = "FROZEN"
        /\ push.next + batch < frozenCount /\ view' = HeadOf(FrozenPos(push.next + batch))
    BY <1>6 DEF CaptureView, ViewFrozen, Viewable, FrozenViewable
  <2> QED
    BY <1>5, <2>1 DEF ViewsFrozen
<1>7. CASE ReplayView
  <2>1. /\ ReadsOn /\ pc2' \in CopyPcs /\ mode = "FROZEN"
        /\ replay.next + batch < frozenCount /\ view' = HeadOf(FrozenPos(replay.next + batch))
    BY <1>7 DEF ReplayView, ViewFrozen, Viewable, FrozenViewable
  <2> QED
    BY <1>5, <2>1 DEF ViewsFrozen
<1> QED
  BY <1>1, <1>2, <1>3, <1>4, <1>6, <1>7 DEF Cpu2
\* CPU2 moves only while nothing is pending, and a stream it sees is under way.
LEMMA Cpu2Moves ==
  ASSUME ~Timeouts, AskInv, CoreInv, Cpu2
  PROVE  /\ UNCHANGED cpu1Vars /\ TypeInv
         /\ cfgPend \notin CfgPends /\ pc1 \notin CfgPcs
         /\ mode = "STREAM" => active /\ ~ending /\ cap # 0 /\ ring.wr \in Indices(cap)
<1>1. TypeInv
  BY DEF AskInv, ArmInv
<1>2. UNCHANGED cpu1Vars /\ (pc2 = "update" => Answered)
  BY <1>1, Cpu2Asks
<1>3. cfgPend \notin CfgPends /\ pc1 \notin CfgPcs
  BY <1>2, Pending DEF Answered, Settled
<1>4. mode = "STREAM" => active /\ ~ending /\ cap # 0
  BY <1>1, <1>3 DEF CoreInv, ActInv, Sampling, CfgPcs, TypeInv, ProdTyped
<1>5. cap # 0 => ring.wr \in Indices(cap)
  BY <1>1, Places DEF TypeInv, IsrTyped, RingTyped, RingWords
<1> QED
  BY <1>1, <1>2, <1>3, <1>4, <1>5

\* A reader that is at the writer has nothing unread.
LEMMA AtEnd ==
  ASSUME TypeInv, cap # 0, ring.wr \in Indices(cap)
  PROVE  /\ ring.wr \in Wide /\ RingDist(ring.wr, ring.wr, cap) = 0
         /\ RingDist(ring.wr, rdCache, cap) \in Nat /\ 0 <= ring.pub /\ 0 <= Kept(ring, cap)
<1>1. cap \in Capacity /\ cap \in Nat /\ cap > 0 /\ ring.wr \in Nat /\ rdCache \in Nat
      /\ ring.pub \in 0 .. cap
  BY CapacitiesAre DEF TypeInv, IsrTyped, Cpu1Typed, RingTyped, RingWords, Rings
<1>2. ring.wr \in Wide
  BY <1>1, WideIndices
<1>3. RingDist(ring.wr, ring.wr, cap) = 0 /\ RingDist(ring.wr, rdCache, cap) \in Nat
  BY <1>1 DEF RingDist, Uint16
<1>4. 0 <= Kept(ring, cap)
  BY <1>1 DEF Kept
<1> QED
  BY <1>1, <1>2, <1>3, <1>4

\* v2k_scope_protocol_update: after a new state_seq nothing is unread.
LEMMA UpdateReads ==
  ASSUME ~Timeouts, AskInv, CoreInv, ReadInv, Cpu2, Update
  PROVE  ReadInv'
<1>1. /\ UNCHANGED cpu1Vars /\ TypeInv /\ cfgPend \notin CfgPends /\ pc1 # "cfgActive"
      /\ mode = "STREAM" => active /\ cap # 0 /\ ring.wr \in Indices(cap)
  BY Cpu2Moves DEF CfgPcs
<1>2. UNCHANGED <<tick, active, ring, mode, stateSeq, cap, frozenEnd, frozenCount, rdCache,
                  pc1, cfgPend>>
  BY <1>1 DEF cpu1Vars, isrVars, prodVars, pendVars
<1>3. /\ pc2' = "push" /\ seenSeq' = stateSeq /\ stateSeq \in Nat
      /\ IF seenSeq # stateSeq /\ mode = "STREAM"
         THEN rd' = ring.wr /\ lastBlk' = None ELSE UNCHANGED <<rd, lastBlk>>
  BY <1>1 DEF Update, Goto2, TypeInv, ProdTyped
<1>4. ViewInv'
  BY <1>3 DEF ViewInv, CopyPcs
<1>5. SeqInv'
  <2>1. rd' \in Wide
    BY <1>1, <1>3, AtEnd DEF ReadInv, SeqInv
  <2> QED
    BY <1>1, <1>2, <1>3, <2>1 DEF ReadInv, SeqInv, StreamPcs, FrozenPcs
<1>6. CacheInv'
  <2>1. Cached(ring)' <=> Cached(ring)
    BY <1>2 DEF Cached
  <2>2. mode # "STREAM" => rd' = rd
    BY <1>3
  <2> QED
    BY <1>1, <1>2, <1>3, <2>1, <2>2 DEF ReadInv, CacheInv
<1>7. SyncInv'
  <2>1. CASE seenSeq # stateSeq /\ mode = "STREAM"
    <3>1. /\ rd' = ring.wr /\ lastBlk' = None /\ rd' \in Indices(cap)
          /\ RingDist(ring.wr, rd', cap) = 0
          /\ RingDist(ring.wr, rdCache, cap) \in Nat /\ 0 <= ring.pub /\ 0 <= Kept(ring, cap)
      BY <1>1, <1>3, <2>1, AtEnd
    <3>2. Unread(ring)' = 0
      BY <1>2, <3>1 DEF Unread
    <3>3. Synced(ring)'
      BY <1>2, <3>1, <3>2 DEF Synced
    <3>4. SentBefore(ring, tick)'
      BY <3>1 DEF SentBefore
    <3> QED
      BY <1>2, <3>1, <3>3, <3>4 DEF SyncInv
  <2>2. CASE ~(seenSeq # stateSeq /\ mode = "STREAM")
    BY <1>2, <1>3, <2>2 DEF ReadInv, SyncInv, Synced, SentBefore, Unread
  <2> QED
    BY <2>1, <2>2
<1> QED
  BY <1>4, <1>5, <1>6, <1>7 DEF ReadInv

\* The stream CPU2 follows.
LEMMA FollowFacts ==
  ASSUME AskInv, CoreInv, ReadInv, Following
  PROVE  /\ mode = "STREAM" /\ active /\ ~ending /\ cap # 0 /\ cap \in Capacity
         /\ cap \in Capacities /\ seenSeq = stateSeq /\ TypeInv /\ ring.wr \in Indices(cap)
         /\ rd \in Indices(cap) /\ Synced(ring) /\ SentBefore(ring, tick)
         /\ Unread(ring) \in 0 .. cap /\ (Unread(ring) = 0 <=> ring.wr = rd)
         /\ Unread(ring) <= ring.pub /\ Unread(ring) <= Kept(ring, cap)
         /\ ring.slots[RingPos(rd, cap)] = Back(ring, Unread(ring), cap)
         /\ MemoryWhole(ring, tick, cap)
<1>1. mode = "STREAM" /\ active /\ seenSeq = stateSeq
  BY DEF Following
<1>2. ~ending /\ cap # 0 /\ cap \in Capacities /\ TypeInv /\ ring.wr \in Indices(cap)
  <2>1. TypeInv /\ ~ending /\ cap # 0 /\ cap \in Capacities
    BY <1>1 DEF AskInv, ArmInv, CoreInv, ActInv, TypeInv, IsrTyped, ProdTyped
  <2> QED
    BY <2>1, Places DEF TypeInv, IsrTyped, RingTyped, RingWords
<1>3. rd \in Indices(cap) /\ Synced(ring) /\ SentBefore(ring, tick)
  BY <1>1 DEF ReadInv, SyncInv
<1>4. /\ cap \in Capacity /\ cap \in Nat
      /\ Unread(ring) \in Nat /\ (Unread(ring) = 0 <=> ring.wr = rd)
      /\ Unread(ring) <= cap => ring.slots[RingPos(rd, cap)] = Back(ring, Unread(ring), cap)
  BY <1>2, <1>3, UnreadFacts
<1>5. Unread(ring) <= ring.pub /\ Unread(ring) <= Kept(ring, cap) /\ Unread(ring) <= cap
  <2>1. Unread(ring) <= ring.pub /\ Unread(ring) <= Kept(ring, cap)
    BY <1>3 DEF Synced
  <2>2. ring.pub \in 0 .. cap
    BY <1>2 DEF TypeInv, IsrTyped, RingTyped, RingWords
  <2> QED
    BY <1>4, <2>1, <2>2
<1>6. MemoryWhole(ring, tick, cap)
  BY <1>1, <1>2 DEF CoreInv, CaptureInv, MemInv
<1>7. Unread(ring) \in 0 .. cap
  BY <1>4, <1>5
<1> QED
  BY <1>1, <1>2, <1>3, <1>4, <1>5, <1>6, <1>7

\* CPU2 reads the stream it follows.
LEMMA StreamFacts ==
  ASSUME AskInv, CoreInv, ReadInv, pc2 \in StreamPcs
  PROVE  /\ Following
         /\ mode = "STREAM" /\ active /\ ~ending /\ cap # 0 /\ cap \in Capacity
         /\ seenSeq = stateSeq /\ TypeInv /\ ring.wr \in Indices(cap)
         /\ rd \in Indices(cap) /\ Synced(ring) /\ SentBefore(ring, tick)
         /\ Unread(ring) \in Nat /\ (Unread(ring) = 0 <=> ring.wr = rd)
         /\ Unread(ring) <= ring.pub /\ Unread(ring) <= Kept(ring, cap)
         /\ ring.slots[RingPos(rd, cap)] = Back(ring, Unread(ring), cap)
         /\ MemoryWhole(ring, tick, cap)
<1>1. mode = "STREAM" /\ seenSeq = stateSeq
  BY DEF ReadInv, SeqInv
<1>2. active
  <2>1. pc1 \notin CfgPcs
    BY Pending DEF StreamPcs
  <2> QED
    BY <1>1, <2>1 DEF CoreInv, ActInv, Sampling, CfgPcs
<1>3. Following
  BY <1>1, <1>2 DEF Following
<1> QED
  BY <1>3, FollowFacts
\* v2k_scope_consumer_peek: the view is of the block at the read index.
LEMMA StreamPeekReads ==
  ASSUME ~Timeouts, AskInv, CoreInv, ReadInv, Cpu2, StreamPeek
  PROVE  ReadInv'
<1>1. UNCHANGED <<tick, active, ring, mode, stateSeq, cap, frozenEnd, frozenCount, rdCache,
                  pc1, cfgPend>>
  BY Cpu2Moves DEF cpu1Vars, isrVars, prodVars, pendVars
<1>2. /\ pc2 = "stream" /\ pc2' = "streamCopy" /\ UNCHANGED <<rd, seenSeq, lastBlk>>
      /\ rd # StreamEnd /\ view' = HeadOf(RingPos(rd, cap))
  BY DEF StreamPeek, Consumer, At2, Goto2, Peekable
<1>3. mode = "STREAM"
  BY <1>2, StreamFacts DEF StreamPcs
<1>4. SeqInv' /\ CacheInv' /\ SyncInv'
  BY <1>1, <1>2 DEF ReadInv, SeqInv, CacheInv, SyncInv, Cached, Synced, SentBefore, Unread,
     StreamPcs, FrozenPcs
<1>5. ViewInv'
  BY <1>1, <1>2, <1>3 DEF ViewInv, HeadOf, StreamEnd, CopyPcs
<1> QED
  BY <1>4, <1>5 DEF ReadInv

\* The message is sent, or the reader skips to the writer.
LEMMA StreamSubmitReads ==
  ASSUME ~Timeouts, AskInv, CoreInv, ReadInv, Cpu2, StreamSubmit
  PROVE  ReadInv'
<1>1. UNCHANGED <<tick, active, ring, mode, stateSeq, cap, frozenEnd, frozenCount, rdCache,
                  pc1, cfgPend>>
  BY Cpu2Moves DEF cpu1Vars, isrVars, prodVars, pendVars
<1>2. /\ pc2 = "stream" /\ pc2' \in {"loop", "push"} /\ UNCHANGED <<seenSeq, lastBlk>>
      /\ rd' = rd \/ rd' = StreamEnd
  BY DEF StreamSubmit, ReadFrom, At2, Goto2
<1>3. /\ mode = "STREAM" /\ active /\ cap # 0 /\ TypeInv /\ ring.wr \in Indices(cap)
      /\ seenSeq = stateSeq /\ rd \in Indices(cap) /\ Synced(ring) /\ SentBefore(ring, tick)
  BY <1>2, StreamFacts DEF StreamPcs
<1>4. rd' = rd \/ rd' = ring.wr
  BY <1>2, <1>3 DEF StreamEnd
<1>5. cfgPend \notin CfgPends
  BY Cpu2Moves
<1>6. SeqInv'
  <2>1. rd' \in Wide
    BY <1>3, <1>4, AtEnd DEF ReadInv, SeqInv
  <2> QED
    BY <1>1, <1>2, <1>3, <2>1 DEF ReadInv, SeqInv, StreamPcs, FrozenPcs
<1>7. CacheInv'
  BY <1>1, <1>2, <1>3, <1>5 DEF ReadInv, CacheInv, Cached
<1>8. SyncInv'
  <2>1. CASE rd' = rd
    BY <1>1, <1>2, <2>1 DEF ReadInv, SyncInv, Synced, SentBefore, Unread
  <2>2. CASE rd' = ring.wr
    <3>1. /\ RingDist(ring.wr, rd', cap) = 0
          /\ RingDist(ring.wr, rdCache, cap) \in Nat /\ 0 <= ring.pub /\ 0 <= Kept(ring, cap)
      BY <1>3, <2>2, AtEnd
    <3>2. Unread(ring)' = 0
      BY <1>1, <3>1 DEF Unread
    <3>3. Synced(ring)'
      BY <1>1, <3>1, <3>2 DEF Synced
    <3>4. SentBefore(ring, tick)'
      BY <1>1, <1>2, <1>3, <3>2 DEF SentBefore
    <3> QED
      BY <1>1, <1>3, <2>2, <3>3, <3>4 DEF SyncInv
  <2> QED
    BY <1>4, <2>1, <2>2
<1>9. ViewInv'
  BY <1>2 DEF ViewInv, CopyPcs
<1> QED
  BY <1>6, <1>7, <1>8, <1>9 DEF ReadInv

\* The block that was sent is the oldest unread one.
LEMMA StreamCopyReads ==
  ASSUME ~Timeouts, AskInv, CoreInv, ReadInv, Cpu2, StreamCopy
  PROVE  ReadInv'
<1>1. UNCHANGED <<tick, active, ring, mode, stateSeq, cap, frozenEnd, frozenCount, rdCache,
                  pc1, cfgPend>>
  BY Cpu2Moves DEF cpu1Vars, isrVars, prodVars, pendVars
<1>2. /\ pc2 = "streamCopy" /\ pc2' = "stream" /\ UNCHANGED seenSeq
      /\ rd' = RingNext(rd, cap) /\ lastBlk' = [start |-> view.start, seq |-> view.seq]
  BY DEF StreamCopy, Consumer, At2, Goto2
<1> DEFINE u == Unread(ring)
           b == Back(ring, u, cap)
<1>3. /\ mode = "STREAM" /\ active /\ cap # 0 /\ TypeInv /\ ring.wr \in Indices(cap)
      /\ cap \in Capacity /\ seenSeq = stateSeq /\ rd \in Indices(cap) /\ Synced(ring)
      /\ u \in Nat /\ (u = 0 <=> ring.wr = rd) /\ u <= ring.pub /\ u <= Kept(ring, cap)
      /\ ring.slots[RingPos(rd, cap)] = b
      /\ MemoryWhole(ring, tick, cap)
  BY <1>2, StreamFacts DEF StreamPcs
<1>4. rd # ring.wr /\ view = HeadOf(RingPos(rd, cap))
  BY <1>2 DEF ReadInv, ViewInv
<1>5. u > 0 /\ u \in KeptBlocks(ring, cap)
  <2>1. ring.pub \in Nat /\ u > 0
    BY <1>3, <1>4 DEF TypeInv, IsrTyped, RingTyped, RingWords, Rings
  <2> QED
    BY <1>3, <2>1 DEF KeptBlocks
<1>6. lastBlk'.start = b.start /\ lastBlk'.seq = b.seq
  BY <1>2, <1>3, <1>4 DEF HeadOf
<1>7. b.start \in Nat /\ b.seq \in Nat
  <2>1. ring \in Rings /\ RingPos(rd, cap) \in Slots
    BY <1>3, Places, CapacitiesAre DEF TypeInv, IsrTyped, RingTyped, RingWords
  <2> QED
    BY <1>3, <2>1, BlockWords
<1>8. /\ InStep(b, ring, tick) /\ b.seq < ring.seq
      /\ \A j \in 1 .. u - 1 : b.seq < Back(ring, j, cap).seq
  BY <1>3, <1>5 DEF MemoryWhole, BackWhole, BackOrdered
<1> HIDE DEF b
<1>9. Unread(ring)' = u - 1 /\ rd' \in Indices(cap)
  <2>1. RingDist(ring.wr, RingNext(rd, cap), cap) = RingDist(ring.wr, rd, cap) - 1
    BY <1>3, <1>4, RingDistance
  <2>2. RingNext(rd, cap) \in Indices(cap)
    <3>1. 0 \in 0 .. cap
      BY <1>3 DEF Capacity
    <3> QED
      BY <1>3, <3>1, RingClosed
  <2> QED
    BY <1>1, <1>2, <2>1, <2>2 DEF Unread
<1>10. SeqInv'
  <2>1. rd' \in Wide
    BY <1>3, <1>9, WideIndices
  <2> QED
    BY <1>1, <1>2, <1>3, <2>1 DEF ReadInv, SeqInv, StreamPcs, FrozenPcs
<1>11. CacheInv'
  <2>1. cfgPend \notin CfgPends
    BY Cpu2Moves
  <2> QED
    BY <1>1, <1>2, <1>3, <2>1 DEF ReadInv, CacheInv, Cached
<1>12. Synced(ring)'
  <2> DEFINE d == RingDist(ring.wr, rdCache, cap)
  <2>1. /\ ring.pub \in Nat /\ Kept(ring, cap) \in Int /\ d \in Nat /\ cap \in Nat
        /\ u <= ring.pub /\ u <= Kept(ring, cap) /\ (d < cap => u <= d)
    <3>1. ring.pub \in Nat /\ cap \in Nat
      BY <1>3 DEF TypeInv, IsrTyped, RingTyped, RingWords, Rings, Capacity
    <3>2. Kept(ring, cap) \in Int
      BY <3>1 DEF Kept
    <3>3. d \in Nat
      BY <1>3, AtEnd
    <3> QED
      BY <1>3, <3>1, <3>2, <3>3 DEF Synced
  <2> HIDE DEF u, d
  <2>2. u - 1 <= ring.pub /\ u - 1 <= Kept(ring, cap) /\ (d < cap => u - 1 <= d)
    BY <1>3, <2>1
  <2> QED
    BY <1>1, <1>9, <2>2 DEF Synced, d
<1>13. SentBefore(ring, tick)'
  <2>1. lastBlk'.start \in Nat /\ lastBlk'.seq \in Nat /\ lastBlk'.seq < ring.seq
        /\ InStep(lastBlk', ring, tick)
    BY <1>6, <1>7, <1>8 DEF InStep
  <2>2. \A k \in 1 .. u - 1 : lastBlk'.seq < Back(ring, k, cap).seq
    BY <1>6, <1>8
  <2> HIDE DEF u
  <2> QED
    BY <1>1, <1>9, <2>1, <2>2 DEF SentBefore
<1>14. SyncInv'
  BY <1>1, <1>9, <1>12, <1>13 DEF SyncInv
<1>15. ViewInv'
  BY <1>2 DEF ViewInv, CopyPcs
<1> QED
  BY <1>10, <1>11, <1>14, <1>15 DEF ReadInv
\* Every step of CPU2 keeps the reader in step.
LEMMA Cpu2Reads ==
  ASSUME ~Timeouts, AskInv, CoreInv, ReadInv, Cpu2
  PROVE  ReadInv'
<1>1. UNCHANGED <<tick, active, ring, mode, stateSeq, cap, frozenEnd, frozenCount, rdCache,
                  pc1, cfgPend>>
      /\ TypeInv
  BY Cpu2Moves DEF cpu1Vars, isrVars, prodVars, pendVars
<1>2. CASE StandsStill
  <2>1. SeqInv'
    BY <1>1, <1>2 DEF StandsStill, ReadsOn, ReadInv, SeqInv, StreamPcs, FrozenPcs
  <2>2. CacheInv' /\ SyncInv'
    BY <1>1, <1>2 DEF StandsStill, ReadsOn, ReadInv, CacheInv, SyncInv, Cached, Synced, SentBefore,
       Unread
  <2>3. ViewInv'
    BY <1>2 DEF StandsStill, ViewInv
  <2> QED
    BY <2>1, <2>2, <2>3 DEF ReadInv
<1>3. CASE ViewsFrozen
  <2>1. PICK k \in Nat : k < frozenCount /\ view' = HeadOf(FrozenPos(k))
    BY <1>3 DEF ViewsFrozen
  <2>2. ReadsOn /\ pc2' \in CopyPcs /\ mode = "FROZEN"
    BY <1>3 DEF ViewsFrozen
  <2>3. SeqInv'
    BY <1>1, <2>2 DEF ReadsOn, ReadInv, SeqInv, StreamPcs, FrozenPcs, CopyPcs
  <2>4. CacheInv' /\ SyncInv'
    BY <1>1, <2>2 DEF ReadsOn, ReadInv, CacheInv, SyncInv, Cached, Synced, SentBefore, Unread
  <2>5. /\ cap \in Capacity /\ frozenEnd \in Indices(cap) /\ frozenCount \in 0 .. cap
        /\ cap \in Nat
    BY <1>1, <2>2, CapacitiesAre DEF TypeInv, IsrTyped, ProdTyped
  <2>6. k \in 0 .. frozenCount /\ frozenCount - k \in 1 .. frozenCount
    BY <2>1, <2>5
  <2>7. FrozenPos(k) = RingPos(RingBack(frozenEnd, frozenCount - k, cap), cap)
    BY <2>5, <2>6, RingFrozen DEF FrozenPos
  <2>8. ViewInv'
    BY <1>1, <2>1, <2>2, <2>6, <2>7 DEF ViewInv, HeadOf, CopyPcs
  <2> QED
    BY <2>3, <2>4, <2>8 DEF ReadInv
<1>4. CASE Update
  BY <1>4, UpdateReads
<1>5. CASE StreamPeek
  BY <1>5, StreamPeekReads
<1>6. CASE StreamCopy
  BY <1>6, StreamCopyReads
<1>7. CASE StreamSubmit
  BY <1>7, StreamSubmitReads
<1> QED
  BY <1>1, <1>2, <1>3, <1>4, <1>5, <1>6, <1>7, Cpu2Steps

\* The invariant of the reader is inductive.
LEMMA ReadStep ==
  ASSUME ~Timeouts, AskInv, CoreInv, ReadInv, [Next]_vars
  PROVE  ReadInv'
<1>1. CASE Sample \/ FreezeEnds \/ ApplyBind
  BY <1>1, SampleReads, FreezeEndsReads, ApplyBindReads
<1>2. CASE QuietStep
  BY <1>2, QuietReads
<1>3. CASE Cpu2
  BY <1>3, Cpu2Reads
<1>4. CASE CfgOff \/ CfgAccept \/ CfgReset \/ CfgFrozen \/ CfgIndex \/ CfgMode \/ CfgSeq
             \/ CfgActive
  BY <1>4, CfgReads
<1>5. CASE UNCHANGED vars
  <2>1. UNCHANGED <<tick, active, ring, mode, stateSeq, cap, frozenEnd, frozenCount>>
        /\ UNCHANGED cpu2Vars /\ UNCHANGED <<rdCache, pc1, cfgPend>>
    BY <1>5 DEF vars, cpu1Vars, isrVars, prodVars, pendVars
  <2>2. cfgPend' \in CfgPends /\ cfgPend'.body.mode # "OFF" /\ pc1' \notin {"cfgActive", "cfgAck"}
          => rdCache = rd
    BY <2>1 DEF ReadInv, CacheInv
  <2> QED
    BY <2>1, <2>2, ReadFrame
<1> QED
  BY <1>1, <1>2, <1>3, <1>4, <1>5, NextIs
\* The block at the read index is published and kept, and so is each block of a
\* frozen window.
LEMMA CopiedWhole ==
  ASSUME AskInv, CoreInv, ReadInv
  PROVE  CopiedBlockIsWhole
<1>1. CASE pc2 = "streamCopy"
  <2> DEFINE b == Back(ring, Unread(ring), cap)
  <2>1. /\ TypeInv /\ Unread(ring) \in Nat /\ (Unread(ring) = 0 <=> ring.wr = rd)
        /\ Unread(ring) <= ring.pub /\ Unread(ring) <= Kept(ring, cap)
        /\ ring.slots[RingPos(rd, cap)] = b /\ MemoryWhole(ring, tick, cap)
    BY <1>1, StreamFacts DEF StreamPcs
  <2>2. rd # ring.wr /\ view = HeadOf(RingPos(rd, cap))
    BY <1>1 DEF ReadInv, ViewInv
  <2>3. Unread(ring) \in KeptBlocks(ring, cap)
    <3>1. ring.pub \in Nat
      BY <2>1 DEF TypeInv, IsrTyped, RingTyped, RingWords, Rings
    <3> QED
      BY <2>1, <2>2, <3>1 DEF KeptBlocks
  <2>4. Whole(b)
    BY <2>1, <2>3 DEF MemoryWhole, BackWhole
  <2> HIDE DEF b
  <2>5. /\ view.pos = RingPos(rd, cap) /\ view.start = b.start /\ view.seq = b.seq
        /\ view.n = b.n
    BY <2>1, <2>2 DEF HeadOf
  <2> QED
    BY <1>1, <2>1, <2>4, <2>5 DEF CopiedBlockIsWhole, Whole, Runs
<1>2. CASE pc2 \in CopyPcs
  <2>1. mode = "FROZEN"
    BY <1>2 DEF ReadInv, SeqInv, CopyPcs, FrozenPcs
  <2>2. PICK k \in 1 .. frozenCount : view = HeadOf(RingPos(RingBack(frozenEnd, k, cap), cap))
    BY <1>2 DEF ReadInv, ViewInv
  <2> DEFINE b == FrozenBack(k)
  <2>3. Whole(b)
    BY <2>1 DEF CoreInv, CaptureInv, FrozenInv
  <2>4. /\ ring.slots[view.pos] = b /\ view.start = b.start /\ view.seq = b.seq
        /\ view.n = b.n
    BY <2>2 DEF HeadOf, FrozenBack
  <2> HIDE DEF b
  <2> QED
    BY <1>2, <2>3, <2>4 DEF CopiedBlockIsWhole, Whole, Runs
<1> QED
  BY <1>1, <1>2 DEF CopiedBlockIsWhole, CopyPcs

\* The block sent last and the one being copied are both in step with the one
\* being filled, so with each other.
LEMMA GapsCounted ==
  ASSUME AskInv, CoreInv, ReadInv
  PROVE  GapsAreAccounted
<1> SUFFICES ASSUME pc2 = "streamCopy", lastBlk # None
             PROVE  /\ view.seq > lastBlk.seq
                    /\ view.start - lastBlk.start = NTicks * (view.seq - lastBlk.seq)
  BY DEF GapsAreAccounted
<1> USE Bounds
<1> DEFINE u == Unread(ring)
           b == Back(ring, u, cap)
<1>1. /\ TypeInv /\ u \in Nat /\ (u = 0 <=> ring.wr = rd) /\ cap # 0 /\ cap \in Capacity
      /\ rd \in Indices(cap) /\ u <= ring.pub /\ u <= Kept(ring, cap)
      /\ ring.slots[RingPos(rd, cap)] = b /\ MemoryWhole(ring, tick, cap)
      /\ SentBefore(ring, tick)
  BY StreamFacts DEF StreamPcs
<1>2. rd # ring.wr /\ view = HeadOf(RingPos(rd, cap))
  BY DEF ReadInv, ViewInv
<1>3. view.start = b.start /\ view.seq = b.seq
  BY <1>1, <1>2 DEF HeadOf
<1>4. ring \in Rings /\ ring.pub \in Nat /\ ring.seq \in Nat
  BY <1>1 DEF TypeInv, IsrTyped, RingTyped, RingWords, Rings
<1>5. b.start \in Nat /\ b.seq \in Nat
  <2>1. RingPos(rd, cap) \in Slots
    BY <1>1, Places, CapacitiesAre DEF TypeInv, IsrTyped
  <2> QED
    BY <1>1, <1>4, <2>1, BlockWords
<1>6. u \in KeptBlocks(ring, cap) /\ u \in 1 .. u
  BY <1>1, <1>2, <1>4 DEF KeptBlocks
<1>7. /\ lastBlk.start \in Nat /\ lastBlk.seq \in Nat /\ lastBlk.seq < b.seq
      /\ InStep(lastBlk, ring, tick) /\ InStep(b, ring, tick)
  BY <1>1, <1>6 DEF SentBefore, MemoryWhole, BackWhole
<1> HIDE DEF u, b
<1> DEFINE n == NTicks * ring.seq
           x == NTicks * b.seq
           y == NTicks * lastBlk.seq
<1>8. n \in Int /\ x \in Int /\ y \in Int
  BY <1>4, <1>5, <1>7
<1>9. /\ NTicks * (ring.seq - b.seq) = n - x /\ NTicks * (ring.seq - lastBlk.seq) = n - y
      /\ NTicks * (b.seq - lastBlk.seq) = x - y
  BY <1>4, <1>5, <1>7, NextBlock
<1> HIDE DEF n, x, y
<1>10. b.start + (n - x) = lastBlk.start + (n - y)
  BY <1>7, <1>9 DEF InStep
<1>11. b.start - lastBlk.start = x - y
  BY <1>5, <1>7, <1>8, <1>10
<1> QED
  BY <1>3, <1>5, <1>7, <1>9, <1>11

\* The three invariants together hold in every reachable state.
LEMMA ReaderInductive ==
  ASSUME ~LiveReconfig, ~Timeouts
  PROVE  Spec => [](AskInv /\ CoreInv /\ ReadInv)
<1>1. Init => AskInv /\ CoreInv /\ ReadInv
  BY AskInit, CoreInit, ReadInit
<1>2. AskInv /\ CoreInv /\ ReadInv /\ [Next]_vars => (AskInv /\ CoreInv /\ ReadInv)'
  BY AskStep, CoreStep, ReadStep
<1> QED
  BY <1>1, <1>2, PTL DEF Spec

(* With a host that turns a sampling scope OFF before it configures it       *)
(* anew, and answers in time, a block CPU2 copies out of the stream, the     *)
(* first push of a capture or a replay of it is whole during all of the      *)
(* copy: CPU1 is not writing it, for every capacity and block size.          *)
THEOREM CopiedBlockIsWholeHolds ==
  ASSUME ~LiveReconfig, ~Timeouts
  PROVE  Spec => []CopiedBlockIsWhole
<1>1. AskInv /\ CoreInv /\ ReadInv => CopiedBlockIsWhole
  BY CopiedWhole
<1> QED
  BY <1>1, ReaderInductive, PTL

(* Under the same assumptions two blocks of a stream the host receives one   *)
(* after the other are as many blocks apart in time as in number, however    *)
(* many were lost between them.                                              *)
THEOREM GapsAreAccountedHolds ==
  ASSUME ~LiveReconfig, ~Timeouts
  PROVE  Spec => []GapsAreAccounted
<1>1. AskInv /\ CoreInv /\ ReadInv => GapsAreAccounted
  BY GapsCounted
<1> QED
  BY <1>1, ReaderInductive, PTL

(* Under the same assumptions a frozen window is contiguous in time, ends    *)
(* with the last sample after the trigger, and holds as many samples as were *)
(* asked for, for every split of the window and every geometry.              *)
THEOREM FrozenWindowHolds ==
  ASSUME ~LiveReconfig, ~Timeouts
  PROVE  Spec => []FrozenWindow
<1>1. CoreInv => FrozenWindow
  BY DEF CoreInv, CaptureInv
<1> QED
  BY <1>1, ReaderInductive, PTL
-----------------------------------------------------------------------------
(* The ring as a queue: CPU1 appends at the write index, CPU2 takes at the   *)
(* read index, and neither moves what the other has.                         *)

Named(b) == [start |-> b.start, seq |-> b.seq]
Names == [start : Nat, seq : Nat]

\* What is unread of a ring r of capacity c at read index d, oldest first.
QueueOf(r, d, c) ==
  [i \in 1 .. RingDist(r.wr, d, c) |->
     LET b == r.slots[RingPos(RingAdd(d, i - 1, c), c)]
     IN [start |-> b.start, seq |-> b.seq]]

\* The i-th of n unread blocks is n + 1 - i back from the writer.
LEMMA QueueIs ==
  ASSUME NEW c \in Capacities, NEW r \in Rings, r.wr \in Indices(c), NEW d \in Indices(c),
         RingDist(r.wr, d, c) <= c
  PROVE  LET n == RingDist(r.wr, d, c) IN
         /\ n \in 0 .. c
         /\ QueueOf(r, d, c) \in Seq(Names) /\ Len(QueueOf(r, d, c)) = n
         /\ \A i \in 1 .. n : QueueOf(r, d, c)[i] = Named(Back(r, n + 1 - i, c))
<1> DEFINE n == RingDist(r.wr, d, c)
           q == QueueOf(r, d, c)
<1>1. c \in Capacity /\ c \in Nat /\ n \in 0 .. c
  <2>1. c \in Capacity /\ c \in Nat
    BY CapacitiesAre
  <2>2. n \in 0 .. 2 * c - 1
    BY <2>1, RingDistance
  <2> QED
    BY <2>1, <2>2
<1>2. ASSUME NEW i \in 1 .. n
      PROVE  /\ RingAdd(d, i - 1, c) = RingBack(r.wr, n + 1 - i, c)
             /\ q[i] = Named(Back(r, n + 1 - i, c)) /\ q[i] \in Names
  <2> HIDE DEF n
  <2>1. i - 1 \in 0 .. n /\ n - (i - 1) = n + 1 - i /\ n + 1 - i \in 0 .. c
    BY <1>1
  <2>2. d = RingBack(r.wr, n, c)
    BY <1>1, RingReader DEF n
  <2>3. RingAdd(RingBack(r.wr, n, c), i - 1, c) = RingBack(r.wr, n - (i - 1), c)
    BY <1>1, <2>1, RingFrozen
  <2>4. RingAdd(d, i - 1, c) = RingBack(r.wr, n + 1 - i, c)
    BY <2>1, <2>2, <2>3
  <2>5. q[i] = Named(Back(r, n + 1 - i, c))
    BY <2>4 DEF QueueOf, Named, Back, n
  <2>6. RingPos(RingBack(r.wr, n + 1 - i, c), c) \in Slots
    BY <2>1, Places
  <2>7. q[i] \in Names
    BY <2>5, <2>6, BlockWords DEF Back, Named, Names
  <2> QED
    BY <2>4, <2>5, <2>7
<1>3. q \in Seq(Names) /\ Len(q) = n
  <2>1. q = [i \in 1 .. n |-> q[i]]
    BY DEF QueueOf
  <2> HIDE DEF q, n
  <2>2. \A i \in 1 .. n : q[i] \in Names
    BY <1>2
  <2>3. q \in [1 .. n -> Names]
    BY <2>1, <2>2
  <2> QED
    BY <1>1, <2>1, <2>3
<1> QED
  BY <1>1, <1>2, <1>3

\* A sequence with one element more at its end.
LEMMA QueueAppend ==
  ASSUME NEW S, NEW s \in Seq(S), NEW t \in Seq(S), NEW e \in S, Len(t) = Len(s) + 1,
         \A i \in 1 .. Len(s) : t[i] = s[i], t[Len(s) + 1] = e
  PROVE  t = Append(s, e)
<1> DEFINE a == Append(s, e)
<1>1. /\ a \in Seq(S) /\ Len(a) = Len(s) + 1 /\ a[Len(s) + 1] = e
      /\ \A i \in 1 .. Len(s) : a[i] = s[i]
  BY AppendProperties
<1>2. Len(s) \in Nat
  BY LenProperties
<1> HIDE DEF a
<1>3. \A i \in 1 .. Len(t) : t[i] = a[i]
  BY <1>1, <1>2
<1> QED
  BY <1>1, <1>3, SeqEqual DEF a

\* A sequence without its first element.
LEMMA QueueTail ==
  ASSUME NEW S, NEW s \in Seq(S), NEW t \in Seq(S), s # << >>, Len(t) = Len(s) - 1,
         \A i \in 1 .. Len(t) : t[i] = s[i + 1]
  PROVE  t = Tail(s)
<1> DEFINE a == Tail(s)
<1>1. /\ a \in Seq(S) /\ Len(a) = Len(s) - 1
      /\ \A i \in 1 .. Len(a) : a[i] = s[i + 1]
  BY HeadTailProperties
<1> HIDE DEF a
<1> QED
  BY <1>1, SeqEqual DEF a

\* The tick at which the block being filled begins.
At == tick - ring.sib + 1
SameStream == UNCHANGED <<cap, lastBlk>>

\* The steps of the abstract queue, by what the scope does to the stream it
\* follows: a published block is kept.
LEMMA KeepIs ==
  ASSUME Following, Following', SameStream, Len(Unsent) < cap,
         Unsent' = Append(Unsent, [start |-> At, seq |-> ring.seq]),
         ring.seq' = ring.seq + 1, At' = At + NTicks
  PROVE  B!Keep
BY DEF B!Keep, B!NextBlock, At, SameStream

\* A block that found no room.
LEMMA LoseIs ==
  ASSUME Following, Following', SameStream, UNCHANGED Unsent,
         ring.seq' = ring.seq + 1, At' = At + NTicks
  PROVE  B!Lose
BY DEF B!Lose, B!NextBlock, At, SameStream

\* The oldest block goes out.
LEMMA SendIs ==
  ASSUME Following, Following', UNCHANGED <<cap, ring, tick>>,
         Unsent # << >>, lastBlk' = Head(Unsent), Unsent' = Tail(Unsent)
  PROVE  B!Send
BY DEF B!Send

\* Nothing of the queue changes, or it is closed and stays so.
LEMMA StutterIs ==
  ASSUME Following' = Following,
         Following => SameStream /\ UNCHANGED <<Unsent, ring.seq, At>>
  PROVE  UNCHANGED B!vars
BY DEF B!vars, At, SameStream

\* CPU2 sees the stream end, or CPU1 ends it.
LEMMA CloseIs == ASSUME Following, ~Following' PROVE B!Close
BY DEF B!Close, B!Closed

\* A stream begins with nothing unsent.
LEMMA OpenIs ==
  ASSUME ~Following, Following', cap' \in Nat \ {0}, ring.seq' \in Nat, At' \in Int,
         Unsent' = << >>, lastBlk' = None
  PROVE  B!Open
BY DEF B!Open, At

\* The queue that is still to be sent.
LEMMA UnsentIs == Unsent = QueueOf(ring, rd, cap) /\ Unsent' = QueueOf(ring', rd', cap')
BY DEF Unsent, QueueOf

\* The stream is begun, kept and ended by CPU1's configurations and CPU2's
\* update; a step of the background that leaves it on leaves the queue alone.
LEMMA BackgroundFollows ==
  ASSUME AskInv, CoreInv, ReadInv, Following',
         \/ QuietStep \/ ApplyBind \/ FreezeEnds \/ UNCHANGED vars
         \/ CfgOff \/ CfgAccept \/ CfgReset \/ CfgFrozen \/ CfgIndex \/ CfgMode \/ CfgSeq
         \/ CfgActive
  PROVE  Following /\ UNCHANGED <<ring, tick, cap, rd, lastBlk>>
<1> USE DEF cpu2Vars, outVars, prodVars
<1>1. TypeInv /\ mode' = "STREAM" /\ active' /\ seenSeq' = stateSeq'
  BY DEF AskInv, ArmInv, Following
<1>2. CASE QuietStep
  BY <1>1, <1>2, QuietFacts DEF Following
<1>3. CASE ApplyBind
  BY <1>1, <1>3, ApplyBindFacts DEF Following
<1>4. CASE FreezeEnds
  <2>1. mode' = mode /\ mode = "FROZEN"
    BY <1>4 DEF FreezeEnds, CoreInv, ActInv
  <2> QED
    BY <1>1, <2>1
<1>5. CASE UNCHANGED vars
  BY <1>1, <1>5 DEF Following, vars, cpu1Vars, isrVars
<1>6. CASE CfgOff \/ CfgAccept \/ CfgReset \/ CfgFrozen \/ CfgIndex \/ CfgMode \/ CfgSeq
             \/ CfgActive
  <2>1. /\ UNCHANGED <<tick, cap>> /\ UNCHANGED cpu2Vars
        /\ pc1 \in OffPcs => ~active
        /\ pc1 = "cfgActive" => seenSeq < stateSeq
        /\ seenSeq \in Int /\ stateSeq \in Int
    BY <1>1, <1>6, CfgFacts DEF CoreInv, ActInv, ReadInv, SeqInv, TypeInv, ProdTyped
  <2>2. ~CfgOff
    BY <1>1 DEF CfgOff
  <2>3. CASE CfgAccept
    BY <1>1, <2>1, <2>3 DEF CfgAccept, Following
  <2>4. CASE CfgReset \/ CfgFrozen \/ CfgIndex \/ CfgMode \/ CfgSeq
    BY <1>1, <2>1, <2>4 DEF CfgReset, CfgFrozen, CfgIndex, CfgMode, CfgSeq, CfgStep, At1, OffPcs
  <2>5. CASE CfgActive
    <3>1. pc1 = "cfgActive" /\ stateSeq' = stateSeq /\ seenSeq' = seenSeq
      BY <2>1, <2>5 DEF CfgActive, CfgStep, At1
    <3>2. seenSeq < stateSeq /\ seenSeq = stateSeq
      BY <1>1, <2>1, <3>1
    <3>3. seenSeq \in Int /\ stateSeq \in Int
      BY <2>1
    <3> QED
      BY <3>2, <3>3
  <2> QED
    BY <1>6, <2>2, <2>3, <2>4, <2>5
<1> QED
  BY <1>2, <1>3, <1>4, <1>5, <1>6

\* What a step of CPU2 does to the stream: it begins to follow it at the writer,
\* takes the oldest block, or leaves the queue alone.
LEMMA Cpu2Follows ==
  ASSUME ~Timeouts, AskInv, CoreInv, ReadInv, Cpu2
  PROVE  /\ UNCHANGED <<ring, tick, cap>>
         /\ Following => Following' /\ (StreamCopy \/ UNCHANGED <<rd, lastBlk>>)
         /\ ~Following /\ Following' => rd' = ring.wr /\ lastBlk' = None
<1>1. TypeInv /\ UNCHANGED <<ring, tick, cap, mode, active, stateSeq>>
  BY Cpu2Moves DEF cpu1Vars, isrVars, prodVars
<1>2. CASE StandsStill \/ ViewsFrozen
  BY <1>1, <1>2 DEF StandsStill, ViewsFrozen, ReadsOn, Following
<1>3. CASE Update
  BY <1>1, <1>3 DEF Update, Following
<1>4. CASE StreamPeek
  BY <1>1, <1>4 DEF StreamPeek, Following
<1>5. CASE StreamCopy
  BY <1>1, <1>5 DEF StreamCopy, Following
<1>6. CASE StreamSubmit
  <2>1. /\ pc2 = "stream" /\ UNCHANGED <<seenSeq, lastBlk>> /\ rd' = ReadFrom(Peekable)
    BY <1>6 DEF StreamSubmit, At2
  <2>2. Following /\ Following'
    BY <1>1, <2>1, StreamFacts DEF StreamPcs, Following
  <2>3. rd' = rd
    <3>1. CASE rd = ring.wr
      BY <2>1, <2>2, <3>1 DEF ReadFrom, StreamEnd, Following
    <3>2. CASE rd # ring.wr
      <4> DEFINE b == Back(ring, Unread(ring), cap)
      <4>1. /\ Unread(ring) \in 0 .. cap /\ (Unread(ring) = 0 <=> ring.wr = rd)
            /\ Unread(ring) <= ring.pub /\ Unread(ring) <= Kept(ring, cap)
            /\ ring.slots[RingPos(rd, cap)] = b /\ MemoryWhole(ring, tick, cap)
            /\ rd \in Indices(cap) /\ cap \in Capacity
        BY <2>2, FollowFacts
      <4>2. Unread(ring) \in KeptBlocks(ring, cap)
        <5>1. ring.pub \in Nat /\ cap \in Nat
          BY <1>1, <4>1 DEF TypeInv, IsrTyped, RingTyped, RingWords, Rings, Capacity
        <5> QED
          BY <3>2, <4>1, <5>1 DEF KeptBlocks
      <4>3. Whole(b)
        BY <4>1, <4>2 DEF MemoryWhole, BackWhole
      <4>4. HeadFits(RingPos(rd, cap))
        BY <4>1, <4>3 DEF HeadFits, Whole
      <4>5. rd < 2 * cap
        BY <4>1 DEF Indices, Capacity
      <4>6. Peekable
        BY <2>2, <3>2, <4>4, <4>5 DEF Peekable, StreamEnd, Following
      <4> QED
        BY <2>1, <4>6 DEF ReadFrom
    <3> QED
      BY <3>1, <3>2
  <2> QED
    BY <1>1, <2>1, <2>2, <2>3
<1> QED
  BY <1>2, <1>3, <1>4, <1>5, <1>6, <1>1, Cpu2Steps

\* A block whose last tick was stored is one more unread block, or is lost with
\* its number; the others stay.
LEMMA CompleteQueue ==
  ASSUME TypeInv, cap # 0, NEW r, RingWords(r), r.sib \in 1 .. NTicks, NEW t \in Nat,
         MemoryWhole(r, t, cap), rd \in Indices(cap), Synced(r), NEW w, w = Complete(r)
  PROVE  \/ w = r /\ r.sib # NTicks
         \/ /\ r.sib = NTicks /\ w.sib = 0 /\ w.seq = r.seq + 1
            /\ w.wr = r.wr /\ w.slots = r.slots
         \/ /\ r.sib = NTicks /\ w.sib = 0 /\ w.seq = r.seq + 1
            /\ Unread(r) < cap /\ Unread(w) = Unread(r) + 1
            /\ Back(w, 1, cap).start = t - NTicks + 1 /\ Back(w, 1, cap).seq = r.seq
            /\ \A k \in 1 .. Unread(r) : Back(w, k + 1, cap) = Back(r, k, cap)
<1> USE Bounds
<1>1. /\ cap \in Capacities /\ cap \in Nat /\ cap > 0 /\ r.pub \in 0 .. cap /\ r.seq \in Nat
      /\ r.wr \in Indices(cap) \cup {0} /\ r.drop \in BOOLEAN /\ cap \in Capacity
      /\ r \in Rings
  BY CapacitiesAre DEF TypeInv, IsrTyped, RingWords, Rings
<1>2. CASE r.sib < NTicks
  BY <1>2 DEF Complete
<1>3. CASE r.sib = NTicks /\ r.drop
  <2>1. w = [r EXCEPT !.sib = 0, !.seq = r.seq + 1]
    BY <1>1, <1>3 DEF Complete
  <2> QED
    BY <1>1, <1>3, <2>1 DEF Rings
<1>4. CASE r.sib = NTicks /\ ~r.drop
  <2> DEFINE u == Unread(r)
  <2>1. w = Publish(r, r.sib) /\ r.sib \in 0 .. NTicks
    BY <1>1, <1>4 DEF Complete
  <2>2. w.wr = RingNext(r.wr, cap) /\ w.seq = r.seq + 1 /\ w.sib = 0
    BY <2>1, PublishFacts
  <2>3. /\ Back(w, 1, cap).seq = r.seq /\ Back(w, 1, cap).start = t - NTicks + 1
        /\ \A k \in 2 .. cap : Back(w, k, cap) = Back(r, k - 1, cap)
    <3>1. Here(r, cap).seq = r.seq /\ Here(r, cap).start = t - NTicks + 1
      BY <1>1, <1>4 DEF MemoryWhole, HereWhole, Filling
    <3> QED
      BY <2>1, <3>1, PublishMoves
  <2>4. r.wr \in Indices(cap) /\ w.wr \in Indices(cap)
    BY <1>1, <2>2, Places
  <2>5. u \in Nat
    BY <1>1, <2>4, UnreadFacts
  <2>6. u <= cap - 1
    BY <1>1, <1>4 DEF Synced, Kept, Filling
  <2>7. Unread(w) = u + 1
    <3>1. RingDist(r.wr, rd, cap) < 2 * cap - 1
      BY <1>1, <2>5, <2>6 DEF Unread
    <3> QED
      BY <1>1, <2>2, <2>4, <3>1, RingDistance DEF Unread
  <2> HIDE DEF u
  <2>8. \A k \in 1 .. u : Back(w, k + 1, cap) = Back(r, k, cap)
    <3> TAKE k \in 1 .. u
    <3>1. k + 1 \in 2 .. cap /\ (k + 1) - 1 = k
      BY <1>1, <2>5, <2>6
    <3> QED
      BY <2>3, <3>1
  <2> QED
    BY <1>1, <1>4, <2>2, <2>3, <2>5, <2>6, <2>7, <2>8 DEF u
<1> QED
  BY <1>1, <1>2, <1>3, <1>4

\* Sampling a followed stream keeps a block, loses one, or does neither.
LEMMA SampleFollows ==
  ASSUME AskInv, CoreInv, ReadInv, Sample
  PROVE  /\ Following' <=> Following
         /\ Following => B!Keep \/ B!Lose \/ UNCHANGED B!vars
<1> USE Bounds
<1>1. TypeInv
  BY DEF AskInv, ArmInv
<1>2. /\ tick < MaxTick /\ tick' = tick + 1 /\ UNCHANGED <<active, cap, rd, seenSeq, lastBlk>>
      /\ mode = "STREAM" => mode' = "STREAM" /\ ring' = Complete(Store)
      /\ mode' = "STREAM" => mode = "STREAM"
  BY <1>1, SampleFacts DEF cpu2Vars, outVars
<1>3. mode = "STREAM" => stateSeq' = stateSeq
  BY DEF Sample
<1>4. Following' <=> Following
  BY <1>2, <1>3 DEF Following
<1> SUFFICES ASSUME Following PROVE B!Keep \/ B!Lose \/ UNCHANGED B!vars
  BY <1>4
<1>5. /\ mode = "STREAM" /\ active /\ ~ending /\ cap # 0 /\ cap \in Capacities
      /\ ring.wr \in Indices(cap) /\ rd \in Indices(cap) /\ Synced(ring)
      /\ Unread(ring) \in 0 .. cap /\ MemoryWhole(ring, tick, cap)
  BY FollowFacts
<1> DEFINE m == Store
           w == Complete(m)
           u == Unread(ring)
<1>6. /\ ring.sib \in 0 .. NTicks - 1 /\ ring.seq \in Nat /\ tick \in Nat /\ tick + 1 \in Nat
      /\ ring \in Rings /\ cap \in Nat
  BY <1>1, <1>5, CapacitiesAre DEF TypeInv, IsrTyped, RingTyped, RingWords, Rings, Ticks
<1>7. /\ RingWords(m) /\ m.sib = ring.sib + 1 /\ m.seq = ring.seq /\ m.wr = ring.wr
      /\ m.sib \in 1 .. NTicks /\ MemoryWhole(m, tick + 1, cap)
  <2>1. RingWords(m) /\ m.sib = ring.sib + 1
    BY <1>1, <1>2, <1>5, StoreTyped
  <2>2. m.seq = ring.seq /\ m.wr = ring.wr
    BY <1>1, <1>2, <1>5, StoreFacts
  <2>3. MemoryWhole(m, tick + 1, cap)
    BY <1>1, <1>2, <1>5, StoreWhole
  <2> QED
    BY <1>6, <2>1, <2>2, <2>3
<1>8. /\ Synced(m) /\ Unread(m) = u /\ \A k \in 1 .. u : Back(m, k, cap) = Back(ring, k, cap)
  <2>1. Cached(ring)
    BY <1>5 DEF ReadInv, CacheInv
  <2> QED
    BY <1>1, <1>2, <1>5, <2>1, StoreSync
<1>9. ring' = w /\ RingTyped(w)
  BY <1>1, <1>2, <1>5, SampleRing
<1> HIDE DEF m
<1>10. \/ w = m /\ m.sib # NTicks
       \/ /\ m.sib = NTicks /\ w.sib = 0 /\ w.seq = m.seq + 1
          /\ w.wr = m.wr /\ w.slots = m.slots
       \/ /\ m.sib = NTicks /\ w.sib = 0 /\ w.seq = m.seq + 1
          /\ Unread(m) < cap /\ Unread(w) = Unread(m) + 1
          /\ Back(w, 1, cap).start = (tick + 1) - NTicks + 1 /\ Back(w, 1, cap).seq = m.seq
          /\ \A k \in 1 .. Unread(m) : Back(w, k + 1, cap) = Back(m, k, cap)
  BY <1>1, <1>5, <1>6, <1>7, <1>8, CompleteQueue
<1>11. w \in Rings /\ w.wr \in Indices(cap)
  <2>1. w \in Rings /\ w.wr \in Indices(cap) \cup {0}
    BY <1>9 DEF RingTyped, RingWords
  <2> QED
    BY <1>5, <2>1, Places
<1> DEFINE s == QueueOf(ring, rd, cap)
           t == QueueOf(w, rd, cap)
<1>12. Unsent = s /\ Unsent' = t
  BY <1>2, <1>9, UnsentIs
<1> HIDE DEF w
<1>13. /\ s \in Seq(Names) /\ Len(s) = u
       /\ \A i \in 1 .. u : s[i] = Named(Back(ring, u + 1 - i, cap))
  BY <1>5, <1>6, QueueIs DEF Unread
<1>14. Unread(w) <= cap =>
         /\ t \in Seq(Names) /\ Len(t) = Unread(w)
         /\ \A i \in 1 .. Unread(w) : t[i] = Named(Back(w, Unread(w) + 1 - i, cap))
  BY <1>5, <1>11, QueueIs DEF Unread
<1> HIDE DEF s, t, u
<1>15. (Unread(w) = u /\ \A k \in 1 .. u : Back(w, k, cap) = Back(ring, k, cap)) => t = s
  <2> SUFFICES ASSUME Unread(w) = u, \A k \in 1 .. u : Back(w, k, cap) = Back(ring, k, cap)
               PROVE  t = s
    OBVIOUS
  <2>1. u \in 0 .. cap
    BY <1>5 DEF u
  <2>2. \A i \in 1 .. u : u + 1 - i \in 1 .. u
    BY <1>6, <2>1
  <2>3. \A i \in 1 .. u : t[i] = s[i]
    BY <1>6, <1>13, <1>14, <2>1, <2>2
  <2> QED
    BY <1>6, <1>13, <1>14, <2>1, <2>3, SeqEqual
<1>16. SameStream
  BY <1>2 DEF SameStream
<1>17. CASE w = m /\ m.sib # NTicks
  <2>1. t = s
    BY <1>8, <1>15, <1>17
  <2>2. UNCHANGED <<Unsent, ring.seq, At>>
    BY <1>2, <1>6, <1>7, <1>9, <1>12, <1>17, <2>1 DEF At
  <2> QED
    BY <1>4, <1>16, <2>2, StutterIs
<1>18. CASE /\ m.sib = NTicks /\ w.sib = 0 /\ w.seq = m.seq + 1
            /\ w.wr = m.wr /\ w.slots = m.slots
  <2>1. t = s
    BY <1>8, <1>15, <1>18 DEF Unread, Back
  <2>2. UNCHANGED Unsent /\ ring.seq' = ring.seq + 1
    BY <1>7, <1>9, <1>12, <1>18, <2>1
  <2>3. At' = At + NTicks
    BY <1>2, <1>6, <1>7, <1>9, <1>18 DEF At
  <2> QED
    BY <1>4, <1>16, <2>2, <2>3, LoseIs
<1>19. CASE /\ m.sib = NTicks /\ w.sib = 0 /\ w.seq = m.seq + 1
            /\ Unread(m) < cap /\ Unread(w) = Unread(m) + 1
            /\ Back(w, 1, cap).start = (tick + 1) - NTicks + 1 /\ Back(w, 1, cap).seq = m.seq
            /\ \A k \in 1 .. Unread(m) : Back(w, k + 1, cap) = Back(m, k, cap)
  <2> DEFINE e == [start |-> At, seq |-> ring.seq]
  <2>1. u \in 0 .. cap /\ u < cap /\ Unread(w) = u + 1 /\ u + 1 <= cap
    BY <1>5, <1>6, <1>8, <1>19 DEF u
  <2>2. Named(Back(w, 1, cap)) = e
    BY <1>6, <1>7, <1>19 DEF Named, At
  <2>3. /\ t \in Seq(Names) /\ Len(t) = u + 1
        /\ \A i \in 1 .. u + 1 : t[i] = Named(Back(w, u + 1 + 1 - i, cap))
    BY <1>14, <2>1
  <2> HIDE DEF e
  <2>4. t[u + 1] = e
    <3>1. u + 1 \in 1 .. u + 1 /\ u + 1 + 1 - (u + 1) = 1
      BY <1>6, <2>1
    <3> QED
      BY <2>2, <2>3, <3>1
  <2>5. \A i \in 1 .. u : t[i] = s[i]
    <3> TAKE i \in 1 .. u
    <3>1. i \in 1 .. u + 1 /\ u + 1 - i \in 1 .. u /\ (u + 1 - i) + 1 = u + 1 + 1 - i
      BY <1>6, <2>1
    <3>2. Back(w, (u + 1 - i) + 1, cap) = Back(ring, u + 1 - i, cap)
      BY <1>8, <1>19, <3>1
    <3> QED
      BY <1>13, <2>3, <3>1, <3>2
  <2>6. e \in Names
    <3>1. u + 1 \in 1 .. Len(t) /\ t \in [1 .. Len(t) -> Names]
      BY <1>6, <2>1, <2>3
    <3> QED
      BY <2>4, <3>1
  <2>7. t = Append(s, e)
    BY <1>13, <2>3, <2>4, <2>5, <2>6, QueueAppend
  <2>8. Unsent' = Append(Unsent, [start |-> At, seq |-> ring.seq]) /\ Len(Unsent) < cap
    BY <1>12, <1>13, <2>1, <2>7 DEF e
  <2>9. ring.seq' = ring.seq + 1 /\ At' = At + NTicks
    BY <1>2, <1>6, <1>7, <1>9, <1>19 DEF At
  <2> QED
    BY <1>4, <1>16, <2>8, <2>9, KeepIs
<1> QED
  BY <1>10, <1>17, <1>18, <1>19

\* Copying a block out takes the oldest one of the queue.
LEMMA StreamCopySends ==
  ASSUME ~Timeouts, AskInv, CoreInv, ReadInv, Cpu2, StreamCopy
  PROVE  B!Send
<1>1. /\ UNCHANGED <<ring, tick, cap>> /\ pc2 = "streamCopy"
      /\ rd' = RingNext(rd, cap) /\ lastBlk' = [start |-> view.start, seq |-> view.seq]
  BY Cpu2Follows DEF StreamCopy, Consumer, At2
<1>2. Following /\ Following'
  BY <1>1, StreamFacts, Cpu2Follows DEF StreamPcs
<1> DEFINE u == Unread(ring)
           s == QueueOf(ring, rd, cap)
           t == QueueOf(ring, rd', cap)
<1>3. /\ TypeInv /\ cap # 0 /\ cap \in Capacity /\ cap \in Capacities /\ ring.wr \in Indices(cap)
      /\ rd \in Indices(cap) /\ u \in 0 .. cap /\ (u = 0 <=> ring.wr = rd)
      /\ ring.slots[RingPos(rd, cap)] = Back(ring, u, cap)
  BY <1>2, FollowFacts
<1>4. ring \in Rings /\ cap \in Nat
  BY <1>3, CapacitiesAre DEF TypeInv, IsrTyped, RingTyped, RingWords
<1>5. rd # ring.wr /\ view = HeadOf(RingPos(rd, cap))
  BY <1>1 DEF ReadInv, ViewInv
<1>6. RingDist(ring.wr, rd', cap) = u - 1 /\ rd' \in Indices(cap)
  <2>1. RingDist(ring.wr, RingNext(rd, cap), cap) = RingDist(ring.wr, rd, cap) - 1
    BY <1>3, <1>5, RingDistance
  <2>2. RingNext(rd, cap) \in Indices(cap)
    BY <1>3, Places
  <2> QED
    BY <1>1, <2>1, <2>2 DEF Unread
<1>7. lastBlk' = Named(Back(ring, u, cap))
  BY <1>1, <1>3, <1>5 DEF HeadOf, Named
<1>8. Unsent = s /\ Unsent' = t
  BY <1>1, UnsentIs
<1>9. /\ s \in Seq(Names) /\ Len(s) = u
      /\ \A i \in 1 .. u : s[i] = Named(Back(ring, u + 1 - i, cap))
  BY <1>3, <1>4, QueueIs DEF Unread
<1>10. u \in 1 .. cap /\ u - 1 <= cap
  BY <1>3, <1>4, <1>5
<1>11. /\ t \in Seq(Names) /\ Len(t) = u - 1
       /\ \A i \in 1 .. u - 1 : t[i] = Named(Back(ring, u - 1 + 1 - i, cap))
  <2> HIDE DEF u
  <2>1. RingDist(ring.wr, rd', cap) <= cap
    BY <1>6, <1>10
  <2> DEFINE n == RingDist(ring.wr, rd', cap)
  <2>2. /\ t \in Seq(Names) /\ Len(t) = n
        /\ \A i \in 1 .. n : t[i] = Named(Back(ring, n + 1 - i, cap))
    BY <1>3, <1>4, <1>6, <2>1, QueueIs
  <2> HIDE DEF t, n
  <2>3. n = u - 1
    BY <1>6 DEF n
  <2> QED
    BY <2>2, <2>3
<1> HIDE DEF s, t, u
<1>12. s # << >>
  BY <1>9, <1>10
<1>13. lastBlk' = Head(s)
  <2>1. 1 \in 1 .. u /\ u + 1 - 1 = u
    BY <1>4, <1>10
  <2>2. s[1] = Named(Back(ring, u, cap))
    BY <1>9, <2>1
  <2> QED
    BY <1>7, <1>9, <1>12, <2>2
<1>14. t = Tail(s)
  <2>1. \A i \in 1 .. u - 1 : t[i] = s[i + 1]
    <3> TAKE i \in 1 .. u - 1
    <3>1. i + 1 \in 1 .. u /\ u + 1 - (i + 1) = u - 1 + 1 - i
      BY <1>4, <1>10
    <3> QED
      BY <1>9, <1>11, <3>1
  <2> QED
    BY <1>9, <1>11, <1>12, <2>1, QueueTail
<1> QED
  BY <1>1, <1>2, <1>8, <1>12, <1>13, <1>14, SendIs

\* CPU2 begins to follow a stream with nothing unsent.
LEMMA UpdateOpens ==
  ASSUME ~Timeouts, AskInv, CoreInv, ReadInv, Cpu2, ~Following, Following'
  PROVE  B!Open
<1>1. /\ TypeInv /\ UNCHANGED <<ring, tick, cap, mode>> /\ mode' = "STREAM"
      /\ cap # 0 /\ ring.wr \in Indices(cap) /\ rd' = ring.wr /\ lastBlk' = None
  BY Cpu2Moves, Cpu2Follows DEF cpu1Vars, isrVars, prodVars, Following
<1>2. /\ cap \in Capacities /\ cap \in Nat /\ ring \in Rings /\ ring.seq \in Nat
      /\ ring.sib \in Int /\ tick \in Int
  BY <1>1, CapacitiesAre DEF TypeInv, IsrTyped, RingTyped, RingWords, Rings, Ticks
<1> DEFINE t == QueueOf(ring, ring.wr, cap)
<1>3. RingDist(ring.wr, ring.wr, cap) = 0
  BY <1>1, AtEnd
<1>4. t \in Seq(Names) /\ Len(t) = 0
  BY <1>1, <1>2, <1>3, QueueIs
<1>5. Unsent' = t
  BY <1>1, UnsentIs
<1> HIDE DEF t
<1>6. Unsent' = << >>
  BY <1>4, <1>5
<1>7. At' \in Int
  BY <1>1, <1>2 DEF At
<1> QED
  BY <1>1, <1>2, <1>6, <1>7, OpenIs

\* Every step of the scope is a step of the queue, or leaves it alone.
LEMMA StreamStep ==
  ASSUME ~Timeouts, AskInv, CoreInv, ReadInv, [Next]_vars
  PROVE  [B!Next]_B!vars
<1>1. CASE Following /\ ~Following'
  BY <1>1, CloseIs DEF B!Next
<1>2. CASE ~Following /\ ~Following'
  <2>1. Following' = Following
    BY <1>2 DEF Following
  <2> QED
    BY <1>2, <2>1, StutterIs
<1>3. CASE Following'
  <2>1. CASE Sample
    BY <1>3, <2>1, SampleFollows DEF B!Next
  <2>2. CASE \/ QuietStep \/ ApplyBind \/ FreezeEnds \/ UNCHANGED vars
             \/ CfgOff \/ CfgAccept \/ CfgReset \/ CfgFrozen \/ CfgIndex \/ CfgMode \/ CfgSeq
             \/ CfgActive
    <3>1. Following /\ UNCHANGED <<ring, tick, cap, rd, lastBlk>>
      BY <1>3, <2>2, BackgroundFollows
    <3> QED
      BY <1>3, <3>1, StutterIs DEF SameStream, Unsent, At
  <2>3. CASE Cpu2
    <3>1. CASE ~Following
      BY <1>3, <2>3, <3>1, UpdateOpens DEF B!Next
    <3>2. CASE Following /\ StreamCopy
      BY <2>3, <3>2, StreamCopySends DEF B!Next
    <3>3. CASE Following /\ UNCHANGED <<rd, lastBlk>>
      <4>1. UNCHANGED <<ring, tick, cap>>
        BY <2>3, Cpu2Follows
      <4> QED
        BY <1>3, <3>3, <4>1, StutterIs DEF SameStream, Unsent, At
    <3> QED
      BY <2>3, <3>1, <3>2, <3>3, Cpu2Follows
  <2> QED
    BY <2>1, <2>2, <2>3, NextIs
<1> QED
  BY <1>1, <1>2, <1>3

(* Under the same assumptions the ring with its two indices, written by two  *)
(* cores without a lock, implements the bounded queue of BlockStream: what   *)
(* CPU1 publishes of a stream CPU2 sends in that order, once and without     *)
(* leaving a block out, and a block is lost only as a whole and with its     *)
(* number, for every capacity and block size.                                *)
THEOREM ImplementsBlockStreamHolds ==
  ASSUME ~LiveReconfig, ~Timeouts
  PROVE  Spec => ImplementsBlockStream
<1>1. Init => B!Init
  BY DEF Init, Following, B!Init, B!Closed
<1>2. AskInv /\ CoreInv /\ ReadInv /\ [Next]_vars => [B!Next]_B!vars
  BY StreamStep
<1> QED
  BY <1>1, <1>2, ReaderInductive, PTL DEF Spec, ImplementsBlockStream, B!Spec
===========================================================================
