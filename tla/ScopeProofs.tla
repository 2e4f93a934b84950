---------------------------- MODULE ScopeProofs ----------------------------
(***************************************************************************)
(* What TLAPS proves of the scope, for every set of capacities, block size, *)
(* bound and host: its words stay in range, and, for a host that turns a   *)
(* sampling scope OFF before it arms it again, a force that CPU1 takes     *)
(* late never hits a later arm generation.                                 *)
(***************************************************************************)
EXTENDS Scope, ScopeRingProofs, NatLemmas

-----------------------------------------------------------------------------
(* Types, with what they rest on: a scope that is not OFF has a ring.      *)

Bodies   == [mode : {"OFF", "STREAM", "ARMED"}, points : Nat, pct : 0 .. 100,
             noTrig : BOOLEAN]
CfgPends == [body : Bodies, seq : Nat, ok : BOOLEAN]
BindPends == [cap : Capacities, seq : Nat, ok : BOOLEAN]
Forces   == [state : Nat, arm : Nat, seq : Nat]
Trigs    == [armed : BOOLEAN, force : BOOLEAN, left : Nat, at : Ticks]

\* The pcs of a configuration under way, and those of one that is accepted and
\* does not turn the scope OFF.
CfgPcs    == {"cfgCheck", "applyCfg", "cfgReset", "cfgFrozen", "cfgIndex", "cfgMode",
              "cfgSeq", "cfgActive", "cfgAck"}
SamplePcs == {"cfgReset", "cfgFrozen", "cfgIndex", "cfgActive"}

Blocks == [start : Ticks, seq : Nat, n : 0 .. NTicks, data : [1 .. NTicks -> Ticks]]
Memory == [Slots -> Blocks]
Rings  == [slots : Memory, wr : Nat, sib : Nat, drop : BOOLEAN, seq : Nat,
           pub : Nat]

\* But for the block being filled, which is full for a moment.
RingWords(r) == r \in Rings /\ r.wr \in Indices(cap) \cup {0} /\ r.pub \in 0 .. cap
RingTyped(r) == RingWords(r) /\ r.sib \in 0 .. NTicks - 1

IsrTyped ==
  /\ tick \in Ticks /\ active \in BOOLEAN /\ ending \in BOOLEAN /\ noTrig \in BOOLEAN
  /\ cap \in Capacities \cup {0} /\ (bound <=> cap # 0)
  /\ RingTyped(ring) /\ trig \in Trigs
  /\ win.total \in Nat /\ win.post \in Nat /\ win.target \in Nat
  /\ win.total # 0 => win.post # 0
  /\ active => cap # 0

ProdTyped ==
  /\ mode \in {"OFF", "STREAM", "ARMED", "POST", "FROZEN"}
  /\ mode # "OFF" => cap # 0
  /\ stateSeq \in Nat /\ frozenEnd \in Nat /\ frozenCount \in Nat
  /\ mode = "FROZEN" => frozenEnd \in Indices(cap) /\ frozenCount \in 0 .. cap

Cpu1Typed ==
  /\ pc1 \in PcsOn1 /\ rdCache \in Nat
  /\ cfgAck \in Nat /\ bindAck \in Nat /\ arms \in Nat
  /\ cfgPend \in CfgPends \cup {None} /\ bindPend \in BindPends \cup {None}
  /\ pc1 \in CfgPcs => cfgPend \in CfgPends
  /\ pc1 \in {"bindCheck", "applyBind"} => bindPend \in BindPends
  /\ cfgPend \in CfgPends /\ cfgPend.ok /\ cfgPend.body.mode # "OFF" => cap # 0
  /\ pc1 \in SamplePcs \cup {"cfgMode", "cfgSeq"} => cfgPend.ok
  /\ pc1 \in SamplePcs => cfgPend.body.mode # "OFF"
  /\ pc1 = "cfgCheck" => ~cfgPend.ok

Cpu2Typed ==
  /\ pc2 \in PcsOn2 /\ rd \in Nat /\ batch \in Nat
  /\ cfgReq \in [body : Bodies, seq : Nat]
  /\ bindReq.seq \in Nat /\ bindReq = [cap |-> bindReq.cap, seq |-> bindReq.seq]
  /\ bindReq.cap \in Capacities \/ (bindReq.seq = 0 /\ seen.bind = 0 /\ pc2 # "bindPublish")
  /\ seen = [cfg |-> seen.cfg, bind |-> seen.bind, force |-> seen.force]
  /\ push \in [id : Int, total : Nat, next : Nat, active : BOOLEAN]
  /\ replay \in [next : Nat, stop : Nat, active : BOOLEAN, asked : Nat]

TypeInv == IsrTyped /\ ProdTyped /\ Cpu1Typed /\ Cpu2Typed

\* The typing invariant gives the one TLC checks.
LEMMA TypeInvSuffices == TypeInv => TypeOK
BY DEF TypeInv, IsrTyped, ProdTyped, Cpu1Typed, Cpu2Typed, TypeOK, RingTyped, RingWords, Trigs, Ticks

\* No request is the absence of one.
LEMMA NonePends == None \notin CfgPends /\ None \notin BindPends
<1>1. \A x \in CfgPends : DOMAIN x = {"body", "seq", "ok"}
  BY DEF CfgPends
<1>2. \A x \in BindPends : DOMAIN x = {"cap", "seq", "ok"}
  BY DEF BindPends
<1>3. DOMAIN None = {"none"}
  BY DEF None
<1> QED
  BY <1>1, <1>2, <1>3

\* The capacities are small positive numbers.
LEMMA CapacitiesAre == \A c \in Capacities : c \in Capacity /\ c \in Nat /\ c # 0
BY RingAssumption DEF Capacity

\* A ring that is bound has a capacity.
LEMMA CapacityFacts ==
  ASSUME cap \in Capacities \cup {0}, cap # 0
  PROVE  cap \in Capacity
BY RingAssumption DEF Capacity

\* The constants the arithmetic rests on.
LEMMA Bounds ==
  /\ NTicks \in Nat /\ NTicks > 0 /\ MaxTick \in Nat
  /\ Points \subseteq Nat /\ Percents \subseteq 0 .. 100
  /\ Modes \subseteq {"OFF", "STREAM", "ARMED"}
<1>1. NTicks \in Nat /\ NTicks > 0
  BY RingAssumption
<1>2. Points \subseteq Nat /\ Percents \subseteq 0 .. 100
  BY RequestAssumption
<1>3. Modes \subseteq {"OFF", "STREAM", "ARMED"}
  BY RequestAssumption
<1>4. MaxTick \in Nat
  BY HostAssumption
<1> QED
  BY <1>1, <1>2, <1>3, <1>4

\* The words at the start.
LEMMA TypeInit == Init => TypeInv
<1> SUFFICES ASSUME Init PROVE TypeInv
  OBVIOUS
<1> USE Bounds DEF Init
<1>1. IsrTyped
  <2>1. RingTyped(ring)
    <3>1. [s \in Slots |-> NoBlock] \in [Slots -> Blocks]
      BY DEF NoBlock, Blocks, Ticks
    <3> QED
      BY <3>1 DEF RingTyped, RingWords, Rings, Memory
  <2>2. trig \in Trigs
    BY DEF Trigs, Ticks
  <2>3. tick \in Ticks /\ win.total \in Nat /\ win.post \in Nat /\ win.target \in Nat /\ win.total = 0
    BY DEF Ticks, NoWindow
  <2> QED
    BY <2>1, <2>2, <2>3 DEF IsrTyped
<1>2. ProdTyped
  BY DEF ProdTyped
<1>3. Cpu1Typed
  BY NonePends DEF Cpu1Typed, PcsOn1, CfgPcs, SamplePcs
<1>4. Cpu2Typed
  BY DEF Cpu2Typed, PcsOn2, Bodies, Off, NoReplay
<1> QED
  BY <1>1, <1>2, <1>3, <1>4 DEF TypeInv

(* The interrupt: every block it stores, completes or freezes leaves the    *)
(* indices in their range.                                                 *)
LEMMA SlotWritten ==
  ASSUME NEW f \in Memory, NEW p, NEW b, p \in Slots => b \in Blocks
  PROVE  [f EXCEPT ![p] = b] \in Memory
BY DEF Memory

\* Store writes one tick into a slot of the ring.
LEMMA StoreTyped ==
  ASSUME TypeInv, tick < MaxTick
  PROVE  RingWords(Store) /\ Store.sib = ring.sib + 1
<1> USE Bounds
<1> DEFINE p == RingPos(ring.wr, cap)
           old == ring.slots[p]
           head == IF ring.sib = 0
                   THEN [old EXCEPT !.start = tick + 1, !.seq = ring.seq, !.n = NTicks]
                   ELSE old
           drop == IF ring.sib = 0 THEN DropsBlock ELSE ring.drop
           blk == IF drop THEN old ELSE [head EXCEPT !.data[ring.sib + 1] = tick + 1]
<1>1. ring \in Rings /\ ring.sib \in 0 .. NTicks - 1 /\ tick + 1 \in Ticks
  BY DEF TypeInv, IsrTyped, RingTyped, RingWords, Ticks
<1>2. drop \in BOOLEAN
  BY <1>1 DEF DropsBlock, Rings
<1>3. p \in Slots => blk \in Blocks
  <2> SUFFICES ASSUME p \in Slots PROVE blk \in Blocks
    OBVIOUS
  <2>1. old \in Blocks
    BY <1>1 DEF Rings, Memory
  <2>2. head \in Blocks
    <3> HIDE DEF old
    <3>1. ring.seq \in Nat /\ NTicks \in 0 .. NTicks
      BY <1>1 DEF Rings
    <3>2. [old EXCEPT !.start = tick + 1, !.seq = ring.seq, !.n = NTicks] \in Blocks
      BY <1>1, <2>1, <3>1 DEF Blocks
    <3> QED
      BY <2>1, <3>2
  <2>3. [head EXCEPT !.data[ring.sib + 1] = tick + 1] \in Blocks
    <3> HIDE DEF head
    <3> QED
      BY <1>1, <2>2 DEF Blocks
  <2> QED
    BY <2>1, <2>3
<1>4. Store = [ring EXCEPT !.drop = drop, !.sib = ring.sib + 1,
                           !.slots = [ring.slots EXCEPT ![p] = blk]]
  BY <1>1 DEF Store, Rings
<1>5. [ring.slots EXCEPT ![p] = blk] \in Memory
  <2> HIDE DEF p, blk
  <2> QED
    BY <1>1, <1>3, SlotWritten DEF Rings
<1>6. Store \in Rings
  <2> HIDE DEF p, blk, drop
  <2>1. ring.sib + 1 \in Nat
    BY <1>1
  <2> QED
    BY <1>1, <1>2, <1>4, <1>5, <2>1 DEF Rings
<1>7. Store.wr = ring.wr /\ Store.pub = ring.pub /\ Store.sib = ring.sib + 1
  <2> HIDE DEF p, blk, drop
  <2> QED
    BY <1>1, <1>4 DEF Rings
<1> QED
  BY <1>6, <1>7 DEF TypeInv, IsrTyped, RingTyped, RingWords

\* Publish moves the indices within their ranges.
LEMMA PublishTyped ==
  ASSUME TypeInv, cap # 0, NEW r, RingWords(r), NEW n \in 0 .. NTicks
  PROVE  /\ RingWords(Publish(r, n)) /\ Publish(r, n).sib = 0
         /\ Publish(r, n).wr \in Indices(cap)
<1> DEFINE p == RingPos(r.wr, cap)
           slots == [r.slots EXCEPT ![p] = [r.slots[p] EXCEPT !.n = n]]
           pub == IF r.pub < cap THEN r.pub + 1 ELSE r.pub
<1>1. cap \in Capacity
  BY CapacityFacts DEF TypeInv, IsrTyped
<1>2. r.wr \in Indices(cap)
  BY <1>1 DEF RingWords, Indices, Capacity
<1>3. RingNext(r.wr, cap) \in Indices(cap) /\ Indices(cap) \subseteq Nat
  <2>1. 0 \in 0 .. cap
    BY <1>1 DEF Capacity
  <2>2. RingNext(r.wr, cap) \in Indices(cap)
    BY <1>1, <1>2, <2>1, RingClosed
  <2> QED
    BY <2>2 DEF Indices
<1>4. pub \in 0 .. cap /\ pub \in Nat
  BY <1>1 DEF RingWords, Capacity
<1>5. slots \in Memory
  <2>1. p \in Slots => [r.slots[p] EXCEPT !.n = n] \in Blocks
    BY DEF RingWords, Rings, Memory, Blocks
  <2> HIDE DEF p
  <2> QED
    BY <2>1, SlotWritten DEF RingWords, Rings
<1>6. Publish(r, n) = [r EXCEPT !.slots = slots, !.wr = RingNext(r.wr, cap),
                                !.seq = r.seq + 1, !.pub = pub, !.sib = 0]
  BY DEF Publish, RingWords, Rings
<1> HIDE DEF slots, pub
<1>7. r \in Rings /\ r.seq + 1 \in Nat /\ 0 \in Nat /\ RingNext(r.wr, cap) \in Nat
  BY <1>3 DEF RingWords, Rings
<1>8. Publish(r, n) \in Rings
  BY <1>3, <1>4, <1>5, <1>6, <1>7 DEF Rings
<1>9. /\ Publish(r, n).wr = RingNext(r.wr, cap) /\ Publish(r, n).pub = pub
      /\ Publish(r, n).sib = 0
  BY <1>6, <1>7 DEF Rings
<1> QED
  BY <1>3, <1>4, <1>8, <1>9 DEF RingWords

\* Complete ends a block that is full.
LEMMA CompleteTyped ==
  ASSUME TypeInv, cap # 0, NEW r, RingWords(r), r.sib \in 1 .. NTicks
  PROVE  RingTyped(Complete(r))
<1> USE Bounds
<1>1. CASE r.sib < NTicks
  BY <1>1 DEF Complete, RingTyped
<1>2. CASE ~(r.sib < NTicks) /\ r.drop
  <2>1. r \in Rings /\ Complete(r) = [r EXCEPT !.sib = 0, !.seq = @ + 1]
    BY <1>2 DEF Complete, RingWords
  <2>2. r.seq + 1 \in Nat /\ 0 \in Nat
    BY <2>1 DEF Rings
  <2>4. Complete(r) \in Rings
    BY <2>1, <2>2 DEF Rings
  <2>3. Complete(r).wr = r.wr /\ Complete(r).pub = r.pub /\ Complete(r).sib = 0
    BY <2>1 DEF Rings
  <2> QED
    BY <2>3, <2>4 DEF RingTyped, RingWords
<1>3. CASE ~(r.sib < NTicks) /\ ~r.drop
  <2>1. Complete(r) = Publish(r, NTicks) /\ NTicks \in 0 .. NTicks
    BY <1>3 DEF Complete
  <2>2. RingWords(Complete(r)) /\ Complete(r).sib = 0
    BY <2>1, PublishTyped
  <2> QED
    BY <2>2 DEF RingTyped
<1> QED
  BY <1>1, <1>2, <1>3

\* A freeze leaves a window within the ring.
LEMMA FrozenTyped ==
  ASSUME TypeInv, cap # 0, NEW r, RingTyped(r)
  PROVE  /\ RingTyped(FrozenRing(r)) /\ FrozenRing(r).wr \in Indices(cap)
         /\ FrozenBlocks(FrozenRing(r)) \in 0 .. cap
<1> USE Bounds
<1>1. cap \in Capacity
  BY CapacityFacts DEF TypeInv, IsrTyped
<1>2. RingTyped(FrozenRing(r)) /\ FrozenRing(r).wr \in Indices(cap)
  <2>1. CASE r.sib = 0
    <3>1. 0 \in Indices(cap)
      BY <1>1 DEF Indices, Capacity
    <3> QED
      BY <2>1, <3>1 DEF FrozenRing, RingTyped, RingWords
  <2>2. CASE r.sib # 0
    <3>1. FrozenRing(r) = Publish(r, r.sib) /\ r.sib \in 0 .. NTicks /\ RingWords(r)
      BY <2>2 DEF FrozenRing, RingTyped
    <3>2. RingWords(FrozenRing(r)) /\ FrozenRing(r).sib = 0 /\ FrozenRing(r).wr \in Indices(cap)
      BY <3>1, PublishTyped
    <3> QED
      BY <3>2 DEF RingTyped
  <2> QED
    BY <2>1, <2>2
<1>3. win.target \in Nat => FrozenBlocks(FrozenRing(r)) \in 0 .. cap
  BY <1>1, <1>2 DEF FrozenBlocks, RingTyped, RingWords, Capacity
<1> QED
  BY <1>2, <1>3 DEF TypeInv, IsrTyped

(* One sample, as the facts the invariants need of it.                      *)
LEMMA SampleFacts ==
  ASSUME TypeInv, Sample
  PROVE  /\ active /\ tick < MaxTick /\ tick' = tick + 1
         /\ trig' \in Trigs /\ (trig'.force => trig.force)
         /\ \/ /\ ring' = Complete(Store) /\ UNCHANGED <<frozenEnd, frozenCount>>
               /\ ending' = FALSE
               /\ mode' = mode \/ (mode = "ARMED" /\ mode' = "POST")
            \/ /\ ring' = FrozenRing(Complete(Store)) /\ ending' = TRUE
               /\ mode \in {"ARMED", "POST"} /\ mode' = "FROZEN"
               /\ frozenEnd' = FrozenRing(Complete(Store)).wr
               /\ frozenCount' = FrozenBlocks(FrozenRing(Complete(Store)))
         /\ stateSeq' = stateSeq \/ stateSeq' = stateSeq + 1
         /\ stateSeq' = stateSeq /\ mode = "ARMED" => mode' = "ARMED"
         /\ UNCHANGED <<active, win, noTrig, cap, bound, ackVars, pc1, rdCache,
                        pendVars, arms, forcedArm, cpu2Vars>>
<1> USE Bounds
<1>1. PICK near \in BOOLEAN, far \in BOOLEAN :
        LET ready  == mode = "ARMED" /\ TriggerReady(Store)
            hit    == ready /\ (trig.force \/ (~noTrig /\ trig.armed /\ far))
            arming == ready /\ ~trig.force /\ ~noTrig /\ ~trig.armed /\ near
            left   == IF hit THEN win.post - 1
                      ELSE IF mode = "POST" /\ trig.left > 0 THEN trig.left - 1
                      ELSE trig.left
            freeze == (hit \/ mode = "POST") /\ left = 0
            r      == Complete(Store)
        IN /\ tick' = tick + 1
           /\ trig' = [armed |-> ~hit /\ (trig.armed \/ arming),
                       force |-> trig.force /\ ~hit, left |-> left,
                       at |-> IF hit THEN tick + 1 ELSE trig.at]
           /\ stateSeq' = IF hit THEN stateSeq + 1 ELSE stateSeq
           /\ ending' = freeze
           /\ IF freeze
                THEN /\ ring' = FrozenRing(r) /\ mode' = "FROZEN"
                     /\ frozenEnd' = FrozenRing(r).wr
                     /\ frozenCount' = FrozenBlocks(FrozenRing(r))
                ELSE /\ ring' = r /\ mode' = IF hit THEN "POST" ELSE mode
                     /\ UNCHANGED <<frozenEnd, frozenCount>>
  BY DEF Sample
<1> DEFINE hit == /\ mode = "ARMED" /\ TriggerReady(Store)
                  /\ trig.force \/ (~noTrig /\ trig.armed /\ far)
           arming == /\ mode = "ARMED" /\ TriggerReady(Store)
                     /\ ~trig.force /\ ~noTrig /\ ~trig.armed /\ near
           left == IF hit THEN win.post - 1
                   ELSE IF mode = "POST" /\ trig.left > 0 THEN trig.left - 1
                   ELSE trig.left
           freeze == (hit \/ mode = "POST") /\ left = 0
           r == Complete(Store)
<1>2. /\ tick' = tick + 1
      /\ trig' = [armed |-> ~hit /\ (trig.armed \/ arming),
                  force |-> trig.force /\ ~hit, left |-> left,
                  at |-> IF hit THEN tick + 1 ELSE trig.at]
      /\ stateSeq' = IF hit THEN stateSeq + 1 ELSE stateSeq
      /\ ending' = freeze
      /\ freeze => /\ ring' = FrozenRing(r) /\ mode' = "FROZEN"
                   /\ frozenEnd' = FrozenRing(r).wr
                   /\ frozenCount' = FrozenBlocks(FrozenRing(r))
      /\ ~freeze => /\ ring' = r /\ mode' = IF hit THEN "POST" ELSE mode
                    /\ UNCHANGED <<frozenEnd, frozenCount>>
  BY <1>1
<1>3. hit => mode = "ARMED" /\ win.total # 0
  BY DEF TriggerReady
<1>4. active /\ tick < MaxTick
  BY DEF Sample
<1>5. UNCHANGED <<active, win, noTrig, cap, bound, ackVars, pc1, rdCache,
                  pendVars, arms, forcedArm, cpu2Vars>>
  BY DEF Sample
<1>6. /\ trig.left \in Nat /\ trig.at \in Ticks /\ tick \in Ticks
      /\ trig.force \in BOOLEAN /\ trig.armed \in BOOLEAN
      /\ win.post \in Nat /\ (win.total # 0 => win.post # 0) /\ stateSeq \in Nat
  BY DEF TypeInv, IsrTyped, ProdTyped, Trigs
<1> HIDE DEF hit, arming, r
<1>7. left \in Nat
  BY <1>3, <1>6
<1> HIDE DEF left
<1>8. (IF hit THEN tick + 1 ELSE trig.at) \in Ticks
  BY <1>4, <1>6 DEF Ticks
<1>9. trig' \in Trigs
  <2>1. /\ (~hit /\ (trig.armed \/ arming)) \in BOOLEAN
        /\ (trig.force /\ ~hit) \in BOOLEAN
    OBVIOUS
  <2> QED
    BY <1>2, <1>7, <1>8, <2>1 DEF Trigs
<1>10. trig'.force => trig.force
  BY <1>2
<1>11. \/ /\ ring' = r /\ UNCHANGED <<frozenEnd, frozenCount>>
          /\ ending' = FALSE
          /\ mode' = mode \/ (mode = "ARMED" /\ mode' = "POST")
       \/ /\ ring' = FrozenRing(r) /\ ending' = TRUE
          /\ mode \in {"ARMED", "POST"} /\ mode' = "FROZEN"
          /\ frozenEnd' = FrozenRing(r).wr
          /\ frozenCount' = FrozenBlocks(FrozenRing(r))
  <2>1. CASE freeze
    BY <1>2, <1>3, <2>1
  <2>2. CASE ~freeze
    BY <1>2, <1>3, <2>2
  <2> QED
    BY <2>1, <2>2
<1>12. /\ stateSeq' = stateSeq \/ stateSeq' = stateSeq + 1
       /\ stateSeq' = stateSeq /\ mode = "ARMED" => mode' = "ARMED"
  <2>1. CASE hit
    BY <1>2, <1>6, <2>1
  <2>2. CASE ~hit
    <3>1. mode = "ARMED" => ~freeze
      BY <2>2
    <3> QED
      BY <1>2, <2>2, <3>1
  <2> QED
    BY <2>1, <2>2
<1> QED
  BY <1>2, <1>4, <1>5, <1>9, <1>10, <1>11, <1>12 DEF r

\* The interrupt keeps the types.
LEMMA SampleTyped == ASSUME TypeInv, Sample PROVE TypeInv'
<1> DEFINE r == Complete(Store)
<1>1. cap # 0 /\ UNCHANGED cap
  BY SampleFacts DEF TypeInv, IsrTyped
<1>2. RingTyped(r)
  <2>1. RingWords(Store) /\ Store.sib = ring.sib + 1
    BY SampleFacts, StoreTyped
  <2>2. ring.sib \in 0 .. NTicks - 1 /\ NTicks \in Nat
    BY Bounds DEF TypeInv, IsrTyped, RingTyped
  <2>3. RingWords(Store) /\ Store.sib \in 1 .. NTicks
    BY <2>1, <2>2
  <2> QED
    BY <1>1, <2>3, CompleteTyped
<1>3. /\ RingTyped(FrozenRing(r)) /\ FrozenRing(r).wr \in Indices(cap)
      /\ FrozenBlocks(FrozenRing(r)) \in 0 .. cap
  BY <1>1, <1>2, FrozenTyped
<1> HIDE DEF r
<1>4. IsrTyped'
  <2>1. RingTyped(ring)'
    <3>1. RingTyped(ring')
      BY <1>2, <1>3, SampleFacts DEF r
    <3> QED
      BY <1>1, <3>1 DEF RingTyped, RingWords
  <2>2. tick' \in Ticks
    <3>1. tick \in Ticks /\ tick < MaxTick /\ tick' = tick + 1 /\ MaxTick \in Nat
      BY SampleFacts, Bounds DEF TypeInv, IsrTyped
    <3> QED
      BY <3>1 DEF Ticks
  <2>3. ending' \in BOOLEAN
    BY SampleFacts
  <2>4. UNCHANGED <<active, noTrig, win, bound>> /\ trig' \in Trigs
    BY SampleFacts
  <2> QED
    BY <1>1, <2>1, <2>2, <2>3, <2>4 DEF TypeInv, IsrTyped
<1>5. ProdTyped'
  <2>1. /\ frozenEnd \in Nat /\ frozenCount \in Nat /\ stateSeq \in Nat
        /\ mode \in {"OFF", "STREAM", "ARMED", "POST", "FROZEN"}
        /\ mode = "FROZEN" => frozenEnd \in Indices(cap) /\ frozenCount \in 0 .. cap
    BY DEF TypeInv, ProdTyped
  <2>2. stateSeq' \in Nat
    BY <2>1, SampleFacts
  <2>3. cap \in Nat /\ FrozenRing(r).wr \in Nat /\ FrozenBlocks(FrozenRing(r)) \in Nat
    <3>1. cap \in Capacity
      BY <1>1, CapacityFacts DEF TypeInv, IsrTyped
    <3> QED
      BY <1>3, <3>1 DEF Capacity, Indices
  <2>4. CASE ring' = r /\ UNCHANGED <<frozenEnd, frozenCount>>
             /\ (mode' = mode \/ (mode = "ARMED" /\ mode' = "POST"))
    BY <1>1, <2>1, <2>2, <2>4 DEF ProdTyped
  <2>5. CASE /\ mode' = "FROZEN" /\ frozenEnd' = FrozenRing(r).wr
             /\ frozenCount' = FrozenBlocks(FrozenRing(r))
    BY <1>1, <1>3, <2>2, <2>3, <2>5 DEF ProdTyped
  <2> QED
    BY <2>4, <2>5, SampleFacts DEF r
<1>6. Cpu1Typed' /\ Cpu2Typed'
  <2>1. /\ UNCHANGED <<pc1, rdCache, cfgAck, bindAck, arms, cfgPend, bindPend, cap, seen>>
        /\ UNCHANGED <<pc2, rd, batch, cfgReq, bindReq, push, replay>>
    BY SampleFacts DEF ackVars, pendVars, cpu2Vars, reqVars, outVars
  <2> QED
    BY <2>1 DEF TypeInv, Cpu1Typed, Cpu2Typed
<1> QED
  BY <1>4, <1>5, <1>6 DEF TypeInv

(* What leaves a group of variables alone keeps its types.                  *)
LEMMA Frames ==
  /\ IsrTyped /\ UNCHANGED <<isrVars, cap, bound>> => IsrTyped'
  /\ ProdTyped /\ UNCHANGED <<prodVars, cap>> => ProdTyped'
  /\ Cpu1Typed /\ UNCHANGED <<pc1, rdCache, cfgAck, bindAck, arms, cfgPend, bindPend, cap>>
       => Cpu1Typed'
  /\ Cpu2Typed /\ UNCHANGED <<pc2, rd, batch, cfgReq, bindReq, seen, push, replay>>
       => Cpu2Typed'
BY DEF IsrTyped, RingTyped, RingWords, ProdTyped, Cpu1Typed, Cpu2Typed, isrVars, prodVars

Quiet1 == UNCHANGED <<isrVars, prodVars, cap, bound>>

(* Taking a request.                                                        *)
LEMMA NextApplyIs ==
  ASSUME NEW b, NEW c, NEW f
  PROVE  /\ NextApply(b, c, f) \in {"applyBind", "applyCfg", "applyForce", "service"}
         /\ NextApply(b, c, f) = "applyBind" => b # None
         /\ NextApply(b, c, f) = "applyCfg" => c # None
BY DEF NextApply

\* The verdict on a configuration is a truth value.
LEMMA ValidCfgIs ==
  ASSUME TypeInv, NEW c, ValidCfg(c), c.mode # "OFF"
  PROVE  cap # 0
BY DEF ValidCfg, TypeInv, IsrTyped

\* Writing the verdict changes only the verdict.
LEMMA OkWritten ==
  ASSUME NEW p \in CfgPends, NEW x \in BOOLEAN
  PROVE  [p EXCEPT !.ok = x].ok = x
BY DEF CfgPends

\* The steps that take a request keep the types.
LEMMA TakeTyped ==
  ASSUME TypeInv,
         CacheReadIndex \/ CopyCfg \/ CheckCfg \/ CopyBind \/ CheckBind
           \/ CopyForce \/ CheckForce
  PROVE  TypeInv'
<1>1. Quiet1
  BY DEF CacheReadIndex, CopyCfg, CheckCfg, CopyBind, CheckBind, CopyForce, CheckForce,
         NoSampling, Quiet1
<1>2. IsrTyped' /\ ProdTyped' /\ UNCHANGED cap
  BY <1>1, Frames DEF TypeInv, Quiet1
<1>3. /\ cfgPend \in CfgPends \cup {None} /\ bindPend \in BindPends \cup {None}
      /\ Cpu1Typed /\ Cpu2Typed
  BY DEF TypeInv, Cpu1Typed
<1> USE DEF At1, Goto1
<1>4. CASE CacheReadIndex
  <2>1. UNCHANGED <<cfgAck, bindAck, arms, cfgPend, bindPend, pc2, rd, batch, cfgReq,
                    bindReq, seen, push, replay>> /\ rdCache' = rd /\ pc1' = "cfg"
    BY <1>4 DEF CacheReadIndex, NoHistory, ackVars, pendVars, cpu2Vars, reqVars, outVars
  <2>2. Cpu1Typed'
    BY <1>2, <1>3, <2>1 DEF Cpu1Typed, Cpu2Typed, PcsOn1, CfgPcs, SamplePcs
  <2> QED
    BY <1>2, <1>3, <2>1, <2>2, Frames DEF TypeInv
<1>5. CASE CopyCfg
  <2>1. /\ UNCHANGED <<cfgAck, bindAck, arms, rdCache, bindPend, pc2, rd, batch, cfgReq,
                       bindReq, seen, push, replay>>
        /\ \/ cfgPend' = [body |-> cfgReq.body, seq |-> cfgReq.seq, ok |-> FALSE] /\ pc1' = "cfgCheck"
           \/ UNCHANGED cfgPend /\ pc1' = "bind"
    BY <1>5 DEF CopyCfg, NoHistory, ackVars, cpu2Vars, reqVars, outVars
  <2>2. [body |-> cfgReq.body, seq |-> cfgReq.seq, ok |-> FALSE] \in CfgPends
    BY <1>3 DEF Cpu2Typed, CfgPends
  <2>3. Cpu1Typed'
    <3>1. CASE cfgPend' = [body |-> cfgReq.body, seq |-> cfgReq.seq, ok |-> FALSE]
               /\ pc1' = "cfgCheck"
      <4>1. cfgPend' \in CfgPends /\ ~cfgPend'.ok
        BY <2>2, <3>1
      <4> QED
        BY <1>2, <1>3, <2>1, <3>1, <4>1 DEF Cpu1Typed, PcsOn1, CfgPcs, SamplePcs
    <3>2. CASE UNCHANGED cfgPend /\ pc1' = "bind"
      BY <1>2, <1>3, <2>1, <3>2 DEF Cpu1Typed, PcsOn1, CfgPcs, SamplePcs
    <3> QED
      BY <2>1, <3>1, <3>2
  <2> QED
    BY <1>2, <1>3, <2>1, <2>3, Frames DEF TypeInv
<1>6. CASE CheckCfg
  <2>1. /\ UNCHANGED <<cfgAck, bindAck, arms, rdCache, bindPend, pc2, rd, batch, cfgReq,
                       bindReq, push, replay>>
        /\ pc1 = "cfgCheck" /\ pc1' = "bind"
        /\ \/ /\ cfgPend' = [cfgPend EXCEPT !.ok = ValidCfg(cfgPend.body)]
              /\ seen' = [seen EXCEPT !.cfg = cfgPend.seq]
           \/ cfgPend' = None /\ UNCHANGED seen
    BY <1>6 DEF CheckCfg, NoHistory, ackVars, cpu2Vars, reqVars, outVars
  <2>2. cfgPend \in CfgPends
    BY <1>3, <2>1 DEF Cpu1Typed, CfgPcs
  <2>3. ValidCfg(cfgPend.body) \in BOOLEAN
    BY DEF ValidCfg
  <2>4. ASSUME cfgPend' = [cfgPend EXCEPT !.ok = ValidCfg(cfgPend.body)]
        PROVE  Cpu1Typed'
    <3> DEFINE v == ValidCfg(cfgPend.body)
    <3>1. v => cfgPend.body.mode = "OFF" \/ cap # 0
      BY ValidCfgIs
    <3> HIDE DEF v
    <3>2. cfgPend' = [cfgPend EXCEPT !.ok = v] /\ v \in BOOLEAN
      BY <2>3, <2>4 DEF v
    <3>3. cfgPend' \in CfgPends
      BY <2>2, <3>2 DEF CfgPends
    <3>4. cfgPend'.body = cfgPend.body
      BY <2>2, <3>2 DEF CfgPends
    <3>5. cfgPend'.ok = v
      BY <2>2, <3>2, OkWritten
    <3>6. cfgPend'.ok /\ cfgPend'.body.mode # "OFF" => cap # 0
      BY <3>1, <3>4, <3>5
    <3> QED
      BY <1>2, <1>3, <2>1, <3>3, <3>6 DEF Cpu1Typed, PcsOn1, CfgPcs, SamplePcs
  <2>5. ASSUME cfgPend' = None PROVE Cpu1Typed'
    BY <1>2, <1>3, <2>1, <2>5, NonePends DEF Cpu1Typed, PcsOn1, CfgPcs, SamplePcs
  <2>6. Cpu2Typed'
    <3>1. /\ seen' = [cfg |-> seen'.cfg, bind |-> seen'.bind, force |-> seen'.force]
          /\ seen'.bind = seen.bind
      BY <1>3, <2>1 DEF Cpu2Typed
    <3> QED
      BY <1>3, <2>1, <3>1 DEF Cpu2Typed
  <2> QED
    BY <1>2, <2>1, <2>4, <2>5, <2>6 DEF TypeInv
<1>7. CASE CopyBind
  <2>1. /\ UNCHANGED <<cfgAck, bindAck, arms, rdCache, cfgPend, pc2, rd, batch, cfgReq,
                       bindReq, seen, push, replay>>
        /\ \/ /\ bindReq.seq # seen.bind /\ pc1' = "bindCheck"
              /\ bindPend' = [cap |-> bindReq.cap, seq |-> bindReq.seq, ok |-> FALSE]
           \/ UNCHANGED bindPend /\ pc1' = "force"
    BY <1>7 DEF CopyBind, NoHistory, ackVars, cpu2Vars, reqVars, outVars
  <2>2. bindReq.seq # seen.bind =>
          [cap |-> bindReq.cap, seq |-> bindReq.seq, ok |-> FALSE] \in BindPends
    BY <1>3 DEF Cpu2Typed, BindPends
  <2>3. Cpu1Typed'
    BY <1>2, <1>3, <2>1, <2>2 DEF Cpu1Typed, PcsOn1, CfgPcs, SamplePcs
  <2> QED
    BY <1>2, <1>3, <2>1, <2>3, Frames DEF TypeInv
<1>8. CASE CheckBind
  <2>1. /\ UNCHANGED <<cfgAck, bindAck, arms, rdCache, cfgPend, pc2, rd, batch, cfgReq,
                       bindReq, push, replay>>
        /\ pc1 = "bindCheck" /\ pc1' = "force"
        /\ \/ /\ \E valid \in BOOLEAN : bindPend' = [bindPend EXCEPT !.ok = valid]
              /\ seen' = [seen EXCEPT !.bind = bindPend.seq] /\ bindReq.seq = bindPend.seq
           \/ bindPend' = None /\ UNCHANGED seen
    BY <1>8 DEF CheckBind, NoHistory, ackVars, cpu2Vars, reqVars, outVars
  <2>2. bindPend \in BindPends
    BY <1>3, <2>1 DEF Cpu1Typed
  <2>3. bindPend' \in BindPends \cup {None}
    BY <2>1, <2>2 DEF BindPends
  <2>4. Cpu1Typed'
    BY <1>2, <1>3, <2>1, <2>3 DEF Cpu1Typed, PcsOn1, CfgPcs, SamplePcs
  <2>5. Cpu2Typed'
    <3>1. CASE UNCHANGED seen
      BY <1>3, <2>1, <3>1, Frames
    <3>2. CASE seen' = [seen EXCEPT !.bind = bindPend.seq] /\ bindReq.seq = bindPend.seq
      <4>1. /\ seen' = [cfg |-> seen'.cfg, bind |-> seen'.bind, force |-> seen'.force]
            /\ seen'.bind = bindReq.seq
        BY <1>3, <3>2 DEF Cpu2Typed
      <4> QED
        BY <1>3, <2>1, <4>1 DEF Cpu2Typed
    <3> QED
      BY <2>1, <3>1, <3>2
  <2> QED
    BY <1>2, <2>4, <2>5 DEF TypeInv
<1>9. CASE CopyForce
  <2>1. /\ UNCHANGED <<cfgAck, bindAck, arms, rdCache, cfgPend, bindPend, pc2, rd, batch,
                       cfgReq, bindReq, seen, push, replay>>
        /\ pc1' = "forceCheck" \/ pc1' = NextApply(bindPend, cfgPend, forcePend)
    BY <1>9 DEF CopyForce, NoHistory, ackVars, cpu2Vars, reqVars, outVars
  <2>2. Cpu1Typed'
    BY <1>2, <1>3, <2>1, NextApplyIs DEF Cpu1Typed, PcsOn1, CfgPcs, SamplePcs
  <2> QED
    BY <1>2, <1>3, <2>1, <2>2, Frames DEF TypeInv
<1>10. CASE CheckForce
  <2>1. /\ UNCHANGED <<cfgAck, bindAck, arms, rdCache, cfgPend, bindPend, pc2, rd, batch,
                       cfgReq, bindReq, push, replay>>
        /\ pc1' = NextApply(bindPend, cfgPend, forcePend')
        /\ UNCHANGED seen \/ seen' = [seen EXCEPT !.force = forcePend.seq]
    BY <1>10 DEF CheckForce, NoHistory, ackVars, cpu2Vars, reqVars, outVars
  <2>2. Cpu1Typed'
    BY <1>2, <1>3, <2>1, NextApplyIs DEF Cpu1Typed, PcsOn1, CfgPcs, SamplePcs
  <2>3. Cpu2Typed'
    <3>1. /\ seen' = [cfg |-> seen'.cfg, bind |-> seen'.bind, force |-> seen'.force]
          /\ seen'.bind = seen.bind
      BY <1>3, <2>1 DEF Cpu2Typed
    <3> QED
      BY <1>3, <2>1, <3>1 DEF Cpu2Typed
  <2> QED
    BY <1>2, <2>2, <2>3 DEF TypeInv
<1> QED
  BY <1>4, <1>5, <1>6, <1>7, <1>8, <1>9, <1>10

(* Applying a request.                                                      *)
LEMMA PostSamplesTyped ==
  ASSUME NEW total \in Nat, NEW pct \in 0 .. 100
  PROVE  PostSamples(total, pct) \in Nat /\ PostSamples(total, pct) # 0
<1> DEFINE prod == total * pct
           q == prod \div 100
<1>1. prod \in Nat /\ prod <= total * 100
  <2>1. \A k \in 0 .. 100 : total * k + total * (100 - k) = total * 100
    OBVIOUS
  <2>2. 100 - pct \in Nat /\ pct \in Nat
    OBVIOUS
  <2>3. \A a, b \in Nat : a * b \in Nat
    OBVIOUS
  <2>4. total * pct \in Nat /\ total * (100 - pct) \in Nat /\ total * 100 \in Nat
    BY <2>2, <2>3
  <2> QED
    BY <2>1, <2>4
<1> HIDE DEF prod
<1>2. q \in Nat /\ q <= total
  BY <1>1
<1>3. PostSamples(total, pct) = IF total - q = 0 THEN 1 ELSE total - q
  BY DEF PostSamples, prod
<1> QED
  BY <1>2, <1>3

\* So does the application of a binding.
LEMMA ApplyBindTyped == ASSUME TypeInv, ApplyBind PROVE TypeInv'
<1>1. /\ bindPend \in BindPends /\ IsrTyped /\ ProdTyped /\ Cpu1Typed /\ Cpu2Typed
      /\ UNCHANGED <<tick, active, win, trig, noTrig, ending, prodVars, cfgAck, rdCache,
                     cfgPend, seen, arms, cpu2Vars>>
      /\ pc1' = NextApply(None, cfgPend, forcePend)
      /\ bindAck' = bindPend.seq /\ bindPend' = None
  BY DEF ApplyBind, TypeInv, Cpu1Typed, At1, Goto1, NoHistory
<1>2. Cpu2Typed'
  BY <1>1, Frames DEF cpu2Vars, reqVars, outVars
<1>3. bindAck' \in Nat
  BY <1>1 DEF BindPends
<1>4. CASE mode = "OFF" /\ bindPend.ok
  <2>1. /\ cap' = bindPend.cap /\ bound' = TRUE
        /\ ring' = [ring EXCEPT !.wr = 0, !.sib = 0, !.pub = 0,
                      !.slots = IF cap \in {0, bindPend.cap} THEN @
                                ELSE [s \in Slots |-> Garbled]]
    BY <1>4 DEF ApplyBind
  <2>2. cap' \in Capacities /\ cap' # 0 /\ cap' \in Nat
    BY <1>1, <2>1, CapacitiesAre DEF BindPends
  <2>3. ring \in Rings /\ 0 \in Nat
    BY <1>1 DEF IsrTyped, RingTyped, RingWords
  <2>4. (IF cap \in {0, bindPend.cap} THEN ring.slots ELSE [s \in Slots |-> Garbled])
          \in Memory
    <3>1. Garbled \in Blocks
      BY Bounds DEF Garbled, NoBlock, Blocks, Ticks
    <3>2. [s \in Slots |-> Garbled] \in Memory
      BY <3>1 DEF Memory
    <3>3. ring.slots \in Memory
      BY <2>3 DEF Rings
    <3> QED
      BY <3>2, <3>3
  <2>5. ring' \in Rings
    BY <2>1, <2>3, <2>4 DEF Rings
  <2>6. ring'.wr = 0 /\ ring'.sib = 0 /\ ring'.pub = 0
    BY <2>1, <2>3 DEF Rings
  <2>7. RingTyped(ring)'
    <3>1. 0 \in 0 .. NTicks - 1 /\ 0 \in 0 .. cap' /\ 0 \in {0}
      BY <2>2, Bounds
    <3> QED
      BY <2>5, <2>6, <3>1 DEF RingTyped, RingWords
  <2>8. IsrTyped'
    BY <1>1, <2>1, <2>2, <2>7 DEF IsrTyped
  <2>9. ProdTyped'
    BY <1>1, <1>4, <2>2 DEF ProdTyped, prodVars
  <2>10. Cpu1Typed'
    BY <1>1, <1>3, <2>2, NextApplyIs, NonePends DEF Cpu1Typed, PcsOn1, CfgPcs, SamplePcs
  <2> QED
    BY <1>2, <2>8, <2>9, <2>10 DEF TypeInv
<1>5. CASE ~(mode = "OFF" /\ bindPend.ok)
  <2>1. UNCHANGED <<ring, cap, bound>>
    BY <1>5 DEF ApplyBind
  <2>2. IsrTyped' /\ ProdTyped'
    BY <1>1, <2>1, Frames DEF isrVars
  <2>3. Cpu1Typed'
    BY <1>1, <1>3, <2>1, NextApplyIs, NonePends DEF Cpu1Typed, PcsOn1, CfgPcs, SamplePcs
  <2> QED
    BY <1>2, <2>2, <2>3 DEF TypeInv
<1> QED
  BY <1>4, <1>5

\* A reset of the block being filled, and of the published blocks or not.
LEMMA ResetTyped ==
  ASSUME TypeInv, UNCHANGED cap,
         \/ ring' = [ring EXCEPT !.sib = 0, !.drop = FALSE]
         \/ ring' = [ring EXCEPT !.sib = 0, !.drop = FALSE, !.pub = 0],
         trig' = [trig EXCEPT !.armed = FALSE, !.force = FALSE, !.left = 0]
  PROVE  RingTyped(ring)' /\ trig' \in Trigs
<1>1. /\ ring \in Rings /\ trig \in Trigs /\ 0 \in Nat /\ FALSE \in BOOLEAN
      /\ RingWords(ring) /\ cap \in Nat
  BY CapacitiesAre DEF TypeInv, IsrTyped, RingTyped, RingWords
<1>2. ring' \in Rings
  <2>1. CASE ring' = [ring EXCEPT !.sib = 0, !.drop = FALSE]
    BY <1>1, <2>1 DEF Rings
  <2>2. CASE ring' = [ring EXCEPT !.sib = 0, !.drop = FALSE, !.pub = 0]
    BY <1>1, <2>2 DEF Rings
  <2> QED
    BY <2>1, <2>2
<1>3. ring'.wr = ring.wr /\ ring'.sib = 0 /\ ring'.pub \in {0, ring.pub}
  <2>1. CASE ring' = [ring EXCEPT !.sib = 0, !.drop = FALSE]
    BY <1>1, <2>1 DEF Rings
  <2>2. CASE ring' = [ring EXCEPT !.sib = 0, !.drop = FALSE, !.pub = 0]
    BY <1>1, <2>2 DEF Rings
  <2> QED
    BY <2>1, <2>2
<1>4. trig' \in Trigs
  BY <1>1 DEF Trigs
<1>5. 0 \in 0 .. NTicks - 1 /\ 0 \in 0 .. cap
  BY <1>1, Bounds
<1> QED
  BY <1>1, <1>2, <1>3, <1>4, <1>5 DEF RingTyped, RingWords

\* So do the steps of a configuration.
LEMMA CfgTyped ==
  ASSUME TypeInv,
         CfgRefuse \/ CfgOff \/ CfgAccept \/ CfgReset \/ CfgFrozen \/ CfgIndex
           \/ CfgMode \/ CfgSeq \/ CfgActive \/ CfgAck
  PROVE  TypeInv'
<1>1. /\ UNCHANGED <<tick, ending, cap, bound, bindAck, rdCache, bindPend, seen, cpu2Vars>>
      /\ IsrTyped /\ ProdTyped /\ Cpu1Typed /\ Cpu2Typed /\ pc1 \in CfgPcs
      /\ cfgPend \in CfgPends
  BY DEF CfgRefuse, CfgOff, CfgAccept, CfgReset, CfgFrozen, CfgIndex, CfgMode, CfgSeq,
         CfgActive, CfgAck, CfgStep, At1, TypeInv, Cpu1Typed, CfgPcs
<1>2. Cpu2Typed'
  BY <1>1, Frames DEF cpu2Vars, reqVars, outVars
<1>3. \A x : NextApply(None, None, x) \in {"applyForce", "service"}
  BY DEF NextApply
<1>4. /\ cfgPend.body \in Bodies /\ cfgPend.seq \in Nat /\ cfgPend.ok \in BOOLEAN
      /\ cfgPend.body.mode \in {"OFF", "STREAM", "ARMED"} /\ cfgPend.body.points \in Nat
      /\ cfgPend.body.pct \in 0 .. 100 /\ cfgPend.body.noTrig \in BOOLEAN
  BY <1>1 DEF CfgPends, Bodies
<1>5. pc1 \in SamplePcs => cap # 0
  BY <1>1 DEF Cpu1Typed, SamplePcs
<1> USE DEF CfgStep, At1, Goto1
<1>6. CASE CfgRefuse
  <2>1. Cpu1Typed'
    BY <1>1, <1>6 DEF CfgRefuse, Cpu1Typed, PcsOn1, CfgPcs, SamplePcs
  <2> QED
    BY <1>1, <1>2, <1>6, <2>1, Frames DEF CfgRefuse, TypeInv, isrVars
<1>7. CASE CfgOff
  <2>1. RingTyped(ring)' /\ trig' \in Trigs /\ UNCHANGED prodVars
    <3>1. /\ ring' = [ring EXCEPT !.sib = 0, !.drop = FALSE]
          /\ trig' = [trig EXCEPT !.armed = FALSE, !.force = FALSE, !.left = 0]
          /\ UNCHANGED prodVars
      BY <1>7 DEF CfgOff, ResetCapture
    <3> QED
      BY <1>1, <3>1, ResetTyped
  <2>2. IsrTyped'
    <3>1. UNCHANGED <<tick, ending, noTrig, cap, bound>> /\ active' = FALSE
      BY <1>1, <1>7 DEF CfgOff
    <3>2. win'.total = 0 /\ win'.post = 0 /\ win'.target = 0
      BY <1>7 DEF CfgOff, ResetCapture, NoWindow
    <3>3. tick' \in Ticks /\ ending' \in BOOLEAN /\ noTrig' \in BOOLEAN
          /\ cap' \in Capacities \cup {0} /\ (bound' <=> cap' # 0)
      BY <1>1, <3>1 DEF IsrTyped, Ticks
    <3>4. active' \in BOOLEAN /\ (active' => cap' # 0)
      BY <3>1
    <3>5. win'.total \in Nat /\ win'.post \in Nat /\ win'.target \in Nat
          /\ (win'.total # 0 => win'.post # 0)
      BY <3>2
    <3> QED
      BY <2>1, <3>3, <3>4, <3>5 DEF IsrTyped
  <2>3. Cpu1Typed'
    BY <1>1, <1>7 DEF CfgOff, CfgRefused, Cpu1Typed, PcsOn1, CfgPcs, SamplePcs
  <2> QED
    BY <1>1, <1>2, <2>1, <2>2, <2>3, Frames DEF TypeInv
<1>8. CASE CfgAccept
  <2>1. Cpu1Typed'
    BY <1>1, <1>8 DEF CfgAccept, CfgRefused, Cpu1Typed, PcsOn1, CfgPcs, SamplePcs
  <2> QED
    BY <1>1, <1>2, <1>8, <2>1, Frames DEF CfgAccept, TypeInv, isrVars
<1>9. CASE CfgReset
  <2>1. RingTyped(ring)' /\ trig' \in Trigs /\ UNCHANGED prodVars
    <3>1. /\ ring' = [ring EXCEPT !.sib = 0, !.drop = FALSE, !.pub = 0]
          /\ trig' = [trig EXCEPT !.armed = FALSE, !.force = FALSE, !.left = 0]
          /\ UNCHANGED prodVars
      BY <1>9 DEF CfgReset, ResetCapture
    <3> QED
      BY <1>1, <3>1, ResetTyped
  <2>2. IsrTyped'
    BY <1>1, <1>9, <2>1 DEF CfgReset, ResetCapture, IsrTyped, NoWindow
  <2>3. Cpu1Typed'
    BY <1>1, <1>9 DEF CfgReset, Cpu1Typed, PcsOn1, CfgPcs, SamplePcs
  <2> QED
    BY <1>1, <1>2, <2>1, <2>2, <2>3, Frames DEF TypeInv
<1>10. CASE CfgFrozen
  <2>1. IsrTyped'
    BY <1>1, <1>4, <1>10 DEF CfgFrozen, IsrTyped, RingTyped, RingWords
  <2>2. 0 \in Nat /\ (cap # 0 => 0 \in Indices(cap) /\ 0 \in 0 .. cap)
    BY <1>1, CapacitiesAre DEF IsrTyped, Indices, Capacity
  <2>3. ProdTyped'
    BY <1>1, <1>10, <2>2 DEF CfgFrozen, ProdTyped
  <2>4. Cpu1Typed'
    BY <1>1, <1>10 DEF CfgFrozen, Cpu1Typed, PcsOn1, CfgPcs, SamplePcs
  <2> QED
    BY <1>2, <2>1, <2>3, <2>4 DEF TypeInv
<1>11. CASE CfgIndex
  <2>1. /\ pc1 = "cfgIndex" /\ pc1' = "cfgMode" /\ cap # 0
        /\ UNCHANGED <<active, trig, noTrig, prodVars, cfgAck, cfgPend, arms>>
    BY <1>5, <1>11 DEF CfgIndex, SamplePcs
  <2>2. PICK x : /\ x \in Nat /\ x \in Indices(cap) /\ ring' = [ring EXCEPT !.wr = x]
                 /\ \/ UNCHANGED win
                    \/ win' = [total  |-> cfgPend.body.points,
                               post   |-> PostSamples(cfgPend.body.points, cfgPend.body.pct),
                               pre    |-> cfgPend.body.points
                                            - PostSamples(cfgPend.body.points, cfgPend.body.pct),
                               target |-> TargetBlocks(cfgPend.body.points)]
    <3>1. 0 \in Nat /\ 0 \in Indices(cap)
      BY <1>1, <2>1, CapacitiesAre DEF IsrTyped, Indices, Capacity
    <3>2. rdCache < 2 * cap => rdCache \in Nat /\ rdCache \in Indices(cap)
      BY <1>1, <2>1, CapacitiesAre DEF Cpu1Typed, IsrTyped, Indices, Capacity
    <3>3. CASE cfgPend.body.mode = "STREAM"
      BY <1>11, <3>1, <3>2, <3>3 DEF CfgIndex
    <3>4. CASE cfgPend.body.mode # "STREAM"
      BY <1>11, <3>1, <3>4 DEF CfgIndex
    <3> QED
      BY <3>3, <3>4
  <2>3. /\ win'.total \in Nat /\ win'.post \in Nat /\ win'.target \in Nat
        /\ win'.total # 0 => win'.post # 0
    <3>1. TargetBlocks(cfgPend.body.points) \in Nat
      BY <1>4, Bounds DEF TargetBlocks
    <3>2. /\ PostSamples(cfgPend.body.points, cfgPend.body.pct) \in Nat
          /\ PostSamples(cfgPend.body.points, cfgPend.body.pct) # 0
      BY <1>4, PostSamplesTyped
    <3>3. CASE UNCHANGED win
      BY <1>1, <3>3 DEF IsrTyped
    <3>4. CASE ~UNCHANGED win
      <4> DEFINE post == PostSamples(cfgPend.body.points, cfgPend.body.pct)
                 target == TargetBlocks(cfgPend.body.points)
      <4>1. win'.total = cfgPend.body.points /\ win'.post = post /\ win'.target = target
        BY <2>2, <3>4
      <4> QED
        BY <1>4, <3>1, <3>2, <4>1
    <3> QED
      BY <3>3, <3>4
  <2>4. RingTyped(ring)'
    <3>1. ring \in Rings /\ RingTyped(ring)
      BY <1>1 DEF IsrTyped, RingTyped, RingWords
    <3>2. ring' \in Rings
      BY <2>2, <3>1 DEF Rings
    <3>3. ring'.wr = x /\ ring'.sib = ring.sib /\ ring'.pub = ring.pub
      BY <2>2, <3>1 DEF Rings
    <3> QED
      BY <1>1, <2>2, <3>1, <3>2, <3>3 DEF RingTyped, RingWords
  <2>5. IsrTyped'
    BY <1>1, <2>1, <2>3, <2>4 DEF IsrTyped
  <2>6. Cpu1Typed'
    BY <1>1, <2>1 DEF Cpu1Typed, PcsOn1, CfgPcs, SamplePcs
  <2> QED
    BY <1>1, <1>2, <2>1, <2>5, <2>6, Frames DEF TypeInv
<1>12. CASE CfgMode
  <2>1. /\ pc1 = "cfgMode" /\ mode' = cfgPend.body.mode
        /\ pc1' \in {"cfgSeq", "cfgAck", "cfgActive"}
        /\ pc1' = "cfgActive" => cfgPend.body.mode # "OFF"
        /\ arms' = arms \/ arms' = arms + 1
        /\ UNCHANGED <<active, ring, win, trig, noTrig, stateSeq, frozenEnd, frozenCount,
                       cfgAck, cfgPend>>
    BY <1>12 DEF CfgMode
  <2>2. cfgPend.ok /\ (cfgPend.body.mode # "OFF" => cap # 0)
    BY <1>1, <2>1 DEF Cpu1Typed
  <2>3. ProdTyped'
    BY <1>1, <1>4, <2>1, <2>2 DEF ProdTyped
  <2>4. arms' \in Nat
    BY <1>1, <2>1 DEF Cpu1Typed
  <2>5. Cpu1Typed'
    BY <1>1, <2>1, <2>2, <2>4 DEF Cpu1Typed, PcsOn1, CfgPcs, SamplePcs
  <2>6. IsrTyped'
    BY <1>1, <2>1, Frames DEF isrVars
  <2> QED
    BY <1>2, <2>3, <2>5, <2>6 DEF TypeInv
<1>13. CASE CfgSeq
  <2>1. /\ pc1 = "cfgSeq" /\ pc1' = IF cfgPend.body.mode = "OFF" THEN "cfgAck" ELSE "cfgActive"
        /\ stateSeq' = stateSeq + 1
        /\ UNCHANGED <<active, ring, win, trig, noTrig, mode, frozenEnd, frozenCount,
                       cfgAck, cfgPend, arms>>
    BY <1>13 DEF CfgSeq
  <2>2. ProdTyped'
    BY <1>1, <2>1 DEF ProdTyped
  <2>3. Cpu1Typed'
    BY <1>1, <2>1 DEF Cpu1Typed, PcsOn1, CfgPcs, SamplePcs
  <2>4. IsrTyped'
    BY <1>1, <2>1, Frames DEF isrVars
  <2> QED
    BY <1>2, <2>2, <2>3, <2>4 DEF TypeInv
<1>14. CASE CfgActive
  <2>1. cap # 0
    BY <1>5, <1>14 DEF CfgActive, SamplePcs
  <2>2. IsrTyped'
    BY <1>1, <1>14, <2>1 DEF CfgActive, IsrTyped, RingTyped, RingWords
  <2>3. Cpu1Typed'
    BY <1>1, <1>14 DEF CfgActive, Cpu1Typed, PcsOn1, CfgPcs, SamplePcs
  <2> QED
    BY <1>1, <1>2, <1>14, <2>2, <2>3, Frames DEF CfgActive, TypeInv
<1>15. CASE CfgAck
  <2>1. /\ pc1' \in {"applyForce", "service"} /\ cfgAck' = cfgPend.seq /\ cfgPend' = None
        /\ UNCHANGED <<active, ring, win, trig, noTrig, prodVars, arms>>
    BY <1>3, <1>15 DEF CfgAck
  <2>2. Cpu1Typed'
    BY <1>1, <1>4, <2>1, NonePends DEF Cpu1Typed, PcsOn1, CfgPcs, SamplePcs
  <2> QED
    BY <1>1, <1>2, <2>1, <2>2, Frames DEF TypeInv, isrVars
<1> QED
  BY <1>6, <1>7, <1>8, <1>9, <1>10, <1>11, <1>12, <1>13, <1>14, <1>15

\* So do the steps of a force.
LEMMA ForceTyped ==
  ASSUME TypeInv, ForceRefuse \/ ForceAccept \/ ForceSet
  PROVE  TypeInv'
<1>1. /\ UNCHANGED <<tick, active, ring, win, noTrig, ending, prodVars, cap, bound,
                     cfgAck, bindAck, rdCache, cfgPend, bindPend, seen, arms, cpu2Vars>>
      /\ pc1' \in {"service", "forceSet"}
      /\ trig' = trig \/ trig' = [trig EXCEPT !.force = TRUE]
  BY DEF ForceRefuse, ForceAccept, ForceSet, ForceStep, Goto1
<1>2. trig' \in Trigs
  BY <1>1 DEF TypeInv, IsrTyped, Trigs
<1>3. IsrTyped'
  BY <1>1, <1>2 DEF TypeInv, IsrTyped, RingTyped, RingWords
<1>4. Cpu1Typed'
  BY <1>1 DEF TypeInv, Cpu1Typed, PcsOn1, CfgPcs, SamplePcs
<1>5. ProdTyped' /\ Cpu2Typed'
  BY <1>1, Frames DEF TypeInv, cpu2Vars, reqVars, outVars
<1> QED
  BY <1>3, <1>4, <1>5 DEF TypeInv

(* CPU2.                                                                    *)
LEMMA HandlerTyped ==
  ASSUME TypeInv,
         DaqCtrl \/ DaqCtrlBody \/ DaqCtrlPublish \/ DaqBind \/ DaqBindPublish
           \/ CaptureForce \/ CaptureForcePublish
  PROVE  TypeInv'
<1>1. UNCHANGED <<cpu1Vars, rd, seenSeq, outVars>> /\ Cpu2Typed
  BY DEF DaqCtrl, DaqCtrlBody, DaqCtrlPublish, DaqBind, DaqBindPublish, CaptureForce,
         CaptureForcePublish, Handler, TypeInv
<1>2. IsrTyped' /\ ProdTyped' /\ Cpu1Typed'
  BY <1>1, Frames DEF TypeInv, cpu1Vars, isrVars, prodVars, ackVars, pendVars
<1>3. /\ UNCHANGED <<batch, rd, seen, push, replay>> /\ cfgReq \in [body : Bodies, seq : Nat]
      /\ cfgReq.body \in Bodies /\ cfgReq.seq \in Nat
  BY <1>1 DEF Cpu2Typed, cpu1Vars, pendVars, outVars
<1> USE DEF Handler, At2, Goto2
<1>4. CASE DaqCtrl
  <2>1. PICK m \in Modes : cfgReq' = [cfgReq EXCEPT !.body.mode = m]
    BY <1>4 DEF DaqCtrl
  <2>2. m \in {"OFF", "STREAM", "ARMED"}
    BY Bounds
  <2>3. [cfgReq.body EXCEPT !.mode = m] \in Bodies
    BY <1>3, <2>2 DEF Bodies
  <2>4. cfgReq' = [cfgReq EXCEPT !.body = [cfgReq.body EXCEPT !.mode = m]]
    BY <2>1
  <2>5. cfgReq' \in [body : Bodies, seq : Nat]
    BY <1>3, <2>3, <2>4
  <2> QED
    BY <1>1, <1>2, <1>3, <1>4, <2>5 DEF DaqCtrl, Cpu2Typed, PcsOn2, TypeInv
<1>5. CASE DaqCtrlBody
  <2>1. PICK c \in Cfgs : cfgReq' = [cfgReq EXCEPT !.body = c]
    BY <1>5 DEF DaqCtrlBody
  <2>2. c \in Bodies
    <3>1. c \in [mode : Modes, points : Points \cup {0}, pct : Percents \cup {0},
                 noTrig : BOOLEAN]
      BY DEF Cfgs
    <3>2. /\ Modes \subseteq {"OFF", "STREAM", "ARMED"} /\ Points \cup {0} \subseteq Nat
          /\ Percents \cup {0} \subseteq 0 .. 100
      BY Bounds
    <3> QED
      BY <3>1, <3>2 DEF Bodies
  <2>3. cfgReq' \in [body : Bodies, seq : Nat]
    BY <1>3, <2>1, <2>2
  <2> QED
    BY <1>1, <1>2, <1>3, <1>5, <2>3 DEF DaqCtrlBody, Cpu2Typed, PcsOn2, TypeInv
<1>6. CASE DaqCtrlPublish
  <2>1. cfgReq' = [cfgReq EXCEPT !.seq = cfgReq.seq + 1] /\ cfgReq.seq + 1 \in Nat
    BY <1>3, <1>6 DEF DaqCtrlPublish
  <2>2. cfgReq' \in [body : Bodies, seq : Nat]
    BY <1>3, <2>1
  <2> QED
    BY <1>1, <1>2, <1>3, <1>6, <2>2 DEF DaqCtrlPublish, Cpu2Typed, PcsOn2, TypeInv
<1>7. CASE DaqBind
  <2>1. PICK c \in Capacities : bindReq' = [bindReq EXCEPT !.cap = c]
    BY <1>7 DEF DaqBind
  <2>2. bindReq' = [cap |-> c, seq |-> bindReq.seq]
    BY <1>1, <2>1 DEF Cpu2Typed
  <2>3. bindReq'.cap = c /\ bindReq'.seq = bindReq.seq
    BY <2>2
  <2> QED
    BY <1>1, <1>2, <1>3, <1>7, <2>2, <2>3 DEF DaqBind, Cpu2Typed, PcsOn2, TypeInv
<1>8. CASE DaqBindPublish
  <2>1. bindReq' = [cap |-> bindReq.cap, seq |-> bindReq.seq + 1]
    BY <1>1, <1>8 DEF DaqBindPublish, Cpu2Typed
  <2>2. bindReq'.cap = bindReq.cap /\ bindReq'.seq = bindReq.seq + 1
    BY <2>1
  <2>3. bindReq'.cap \in Capacities /\ bindReq'.seq \in Nat
    BY <1>1, <1>8, <2>2 DEF DaqBindPublish, Cpu2Typed
  <2> QED
    BY <1>1, <1>2, <1>3, <1>8, <2>1, <2>2, <2>3 DEF DaqBindPublish, Cpu2Typed, PcsOn2, TypeInv
<1>9. CASE CaptureForce
  BY <1>1, <1>2, <1>3, <1>9 DEF CaptureForce, Cpu2Typed, PcsOn2, TypeInv
<1>10. CASE CaptureForcePublish
  BY <1>1, <1>2, <1>3, <1>10 DEF CaptureForcePublish, Cpu2Typed, PcsOn2, TypeInv
<1> QED
  BY <1>4, <1>5, <1>6, <1>7, <1>8, <1>9, <1>10

\* So do the update and the pushes of CPU2.
LEMMA ConsumerTyped ==
  ASSUME TypeInv,
         CaptureReplay \/ Update \/ PushNothing
           \/ CapturePush \/ CaptureView \/ CaptureCopy \/ CaptureSubmit
           \/ ReplayPush \/ ReplayView \/ ReplayCopy \/ ReplaySubmit
           \/ StreamPush \/ StreamPeek \/ StreamCopy \/ StreamSubmit
  PROVE  TypeInv'
<1>1. UNCHANGED <<cpu1Vars, reqVars>> /\ Cpu2Typed
  BY DEF CaptureReplay, Update, PushNothing, CapturePush, CaptureView, CaptureCopy,
         CaptureSubmit, ReplayPush, ReplayView, ReplayCopy, ReplaySubmit, StreamPush,
         StreamPeek, StreamCopy, StreamSubmit, ViewFrozen, CopyFrozen, Consumer, TypeInv
<1>2. IsrTyped' /\ ProdTyped' /\ Cpu1Typed'
  BY <1>1, Frames DEF TypeInv, cpu1Vars, isrVars, prodVars, ackVars, pendVars
<1>3. UNCHANGED <<cfgReq, bindReq, seen, stateSeq, frozenEnd, frozenCount>>
  BY <1>1 DEF cpu1Vars, pendVars, prodVars, reqVars
<1>4. /\ push \in [id : Int, total : Nat, next : Nat, active : BOOLEAN]
      /\ replay \in [next : Nat, stop : Nat, active : BOOLEAN, asked : Nat]
      /\ rd \in Nat /\ batch \in Nat /\ 0 \in Nat
      /\ push.next \in Nat /\ push.total \in Nat /\ replay.next \in Nat
      /\ replay.stop \in Nat /\ replay.asked \in Nat
      /\ stateSeq \in Nat /\ frozenCount \in Nat /\ frozenEnd \in Nat /\ ring.wr \in Nat
  BY <1>1 DEF Cpu2Typed, TypeInv, ProdTyped, IsrTyped, RingTyped, RingWords, Rings
<1>5. \A n \in Nat : NoReplay(n) \in [next : Nat, stop : Nat, active : BOOLEAN, asked : Nat]
  BY DEF NoReplay
<1>6. SUFFICES ASSUME pc2 # "bindPublish"
               PROVE  /\ pc2' \in PcsOn2 \ {"bindPublish"} /\ rd' \in Nat /\ batch' \in Nat
                      /\ push' \in [id : Int, total : Nat, next : Nat, active : BOOLEAN]
                      /\ replay' \in [next : Nat, stop : Nat, active : BOOLEAN, asked : Nat]
  <2>1. pc2 # "bindPublish"
    BY DEF CaptureReplay, Update, PushNothing, CapturePush, CaptureView, CaptureCopy,
           CaptureSubmit, ReplayPush, ReplayView, ReplayCopy, ReplaySubmit, StreamPush,
           StreamPeek, StreamCopy, StreamSubmit, ViewFrozen, CopyFrozen, Consumer, At2
  <2> QED
    BY <1>1, <1>2, <1>3, <2>1 DEF TypeInv, Cpu2Typed
<1> USE DEF Consumer, At2, Goto2, PcsOn2
<1>7. CASE CaptureReplay
  <2>1. PICK first \in 0 .. frozenCount - 1 : \E stop \in first + 1 .. frozenCount :
          replay' = [next |-> first, stop |-> stop, active |-> TRUE,
                     asked |-> replay.asked + 1]
    BY <1>7 DEF CaptureReplay
  <2>2. PICK stop \in first + 1 .. frozenCount :
          replay' = [next |-> first, stop |-> stop, active |-> TRUE,
                     asked |-> replay.asked + 1]
    BY <2>1
  <2>3. first \in Nat /\ stop \in Nat /\ replay.asked + 1 \in Nat
    BY <1>4
  <2> QED
    BY <1>4, <1>7, <2>2, <2>3 DEF CaptureReplay
<1>8. CASE Update
  <2>1. pc2' = "push" /\ batch' = batch /\ rd' \in {rd, ring.wr}
    BY <1>8 DEF Update
  <2>2. \/ push' = [push EXCEPT !.id = -1, !.total = 0, !.active = FALSE]
        \/ push' = push
        \/ push' = [id |-> stateSeq, total |-> frozenCount, next |-> 0,
                    active |-> frozenCount # 0]
    BY <1>8 DEF Update
  <2>3. -1 \in Int /\ stateSeq \in Int /\ (frozenCount # 0) \in BOOLEAN
    BY <1>4
  <2>4. push' \in [id : Int, total : Nat, next : Nat, active : BOOLEAN]
    <3>1. [push EXCEPT !.id = -1, !.total = 0, !.active = FALSE]
            \in [id : Int, total : Nat, next : Nat, active : BOOLEAN]
      <4>1. 0 \in Nat /\ FALSE \in BOOLEAN
        OBVIOUS
      <4> QED
        BY <1>4, <2>3, <4>1
    <3>2. [id |-> stateSeq, total |-> frozenCount, next |-> 0, active |-> frozenCount # 0]
            \in [id : Int, total : Nat, next : Nat, active : BOOLEAN]
      <4>1. 0 \in Nat
        OBVIOUS
      <4> QED
        BY <1>4, <2>3, <4>1
    <3> QED
      BY <1>4, <2>2, <3>1, <3>2
  <2>5. replay' = replay \/ replay' = NoReplay(replay.asked)
    BY <1>8 DEF Update
  <2> QED
    BY <1>4, <1>5, <2>1, <2>4, <2>5
<1>9. CASE PushNothing
  BY <1>4, <1>9 DEF PushNothing, outVars
<1>10. CASE CapturePush
  BY <1>4, <1>10 DEF CapturePush
<1>11. CASE CaptureView
  BY <1>4, <1>11 DEF CaptureView, ViewFrozen
<1>12. CASE CaptureCopy
  BY <1>4, <1>12 DEF CaptureCopy, CopyFrozen
<1>13. CASE CaptureSubmit
  <2>1. /\ push' = [push EXCEPT !.next = push.next + batch,
                               !.active = (push.active /\ push.next + batch < push.total)]
        /\ pc2' \in {"loop", "push"} /\ batch' = 0 /\ UNCHANGED <<rd, replay>>
    BY <1>13 DEF CaptureSubmit
  <2>2. /\ push.next + batch \in Nat
        /\ (push.active /\ push.next + batch < push.total) \in BOOLEAN
    BY <1>4
  <2>3. push' \in [id : Int, total : Nat, next : Nat, active : BOOLEAN]
    BY <1>4, <2>1, <2>2
  <2> QED
    BY <1>4, <2>1, <2>3
<1>14. CASE ReplayPush
  BY <1>4, <1>14 DEF ReplayPush
<1>15. CASE ReplayView
  BY <1>4, <1>15 DEF ReplayView, ViewFrozen
<1>16. CASE ReplayCopy
  BY <1>4, <1>16 DEF ReplayCopy, CopyFrozen
<1>17. CASE ReplaySubmit
  <2>1. /\ \/ replay' = [replay EXCEPT !.next = replay.next + batch]
           \/ replay' = NoReplay(replay.asked)
        /\ pc2' \in {"initial", "push"} /\ batch' = 0 /\ UNCHANGED <<rd, push>>
    BY <1>17 DEF ReplaySubmit, ReplayRest
  <2>2. replay.next + batch \in Nat
    BY <1>4
  <2>3. replay' \in [next : Nat, stop : Nat, active : BOOLEAN, asked : Nat]
    BY <1>4, <1>5, <2>1, <2>2
  <2> QED
    BY <1>4, <2>1, <2>3
<1>18. CASE StreamPush
  BY <1>4, <1>18 DEF StreamPush
<1>19. CASE StreamPeek
  BY <1>4, <1>19 DEF StreamPeek
<1>20. CASE StreamCopy
  <2>1. RingNext(rd, cap) \in Nat
    BY <1>4 DEF RingNext, Uint16
  <2> QED
    BY <1>4, <1>20, <2>1 DEF StreamCopy
<1>21. CASE StreamSubmit
  BY <1>4, <1>21 DEF StreamSubmit, ReadFrom, StreamEnd
<1> QED
  BY <1>7, <1>8, <1>9, <1>10, <1>11, <1>12, <1>13, <1>14, <1>15, <1>16, <1>17, <1>18, <1>19,
     <1>20, <1>21

\* The typing invariant is inductive.
LEMMA TypeStep == TypeInv /\ [Next]_vars => TypeInv'
<1> SUFFICES ASSUME TypeInv, [Next]_vars PROVE TypeInv'
  OBVIOUS
<1>1. CASE Sample
  BY <1>1, SampleTyped
<1>2. CASE FreezeEnds
  <2>1. /\ ending' = FALSE /\ stateSeq' = stateSeq + 1 /\ active' = FALSE
        /\ UNCHANGED <<tick, ring, win, trig, noTrig, mode, frozenEnd, frozenCount, cap,
                       bound, ackVars, pc1, rdCache, pendVars, arms, forcedArm, cpu2Vars>>
    BY <1>2 DEF FreezeEnds
  <2>2. IsrTyped'
    <3>1. FALSE \in BOOLEAN
      OBVIOUS
    <3> QED
      BY <2>1, <3>1 DEF TypeInv, IsrTyped, RingTyped, RingWords
  <2>3. ProdTyped'
    <3>1. stateSeq \in Nat => stateSeq + 1 \in Nat
      OBVIOUS
    <3> QED
      BY <2>1, <3>1 DEF TypeInv, ProdTyped
  <2>4. Cpu1Typed' /\ Cpu2Typed'
    BY <2>1, Frames DEF TypeInv, ackVars, pendVars, cpu2Vars, reqVars, outVars
  <2> QED
    BY <2>2, <2>3, <2>4 DEF TypeInv
<1>3. CASE Background
  BY <1>3, TakeTyped, ApplyBindTyped, CfgTyped, ForceTyped DEF Background
<1>4. CASE Cpu2
  BY <1>4, HandlerTyped, ConsumerTyped DEF Cpu2
<1>5. CASE UNCHANGED vars
  BY <1>5, Frames DEF TypeInv, vars, cpu1Vars, cpu2Vars, isrVars, prodVars, ackVars, pendVars,
     reqVars, outVars
<1> QED
  BY <1>1, <1>2, <1>3, <1>4, <1>5 DEF Next

(* The words both cores share and the state of each stay in range, for      *)
(* every capacity, block size, request and bound.                           *)
THEOREM TypeCorrect == Spec => []TypeOK
<1>1. Spec => []TypeInv
  BY TypeInit, TypeStep, PTL DEF Spec
<1> QED
  BY <1>1, TypeInvSuffices, PTL

-----------------------------------------------------------------------------
(* A late force.  Its generation is compared with state_seq, so it is enough *)
(* that every arming changes state_seq: the mode such a configuration        *)
(* meets is OFF or FROZEN, because the host asks for it only then and waits  *)
(* for the answer.                                                           *)

ForceWords ==
  /\ forceReq \in Forces /\ forcePend \in Forces \cup {None}
  /\ pc1 \in {"forceCheck", "applyForce", "forceSet"} => forcePend \in Forces

\* One configuration at a time is pending, and none that was answered.
CfgOrder ==
  /\ cfgAck <= cfgReq.seq
  /\ cfgPend \in CfgPends => cfgAck < cfgPend.seq /\ cfgPend.seq <= cfgReq.seq

Rests == mode \in {"OFF", "FROZEN"}

\* The mode rests from the moment the host asks for STREAM or ARMED until that is
\* applied.
AsksAtRest ==
  pc2 \in {"cfgBody", "cfgPublish"} /\ cfgReq.body.mode # "OFF" => Settled /\ Rests
WaitsAtRest ==
  cfgAck < cfgReq.seq /\ cfgReq.body.mode # "OFF" =>
    IF cfgPend \in CfgPends THEN cfgPend.seq = cfgReq.seq ELSE Rests
ArmsAtRest ==
  /\ cfgPend \in CfgPends /\ cfgPend.body.mode # "OFF"
  /\ pc1 \notin {"cfgSeq", "cfgActive", "cfgAck"}
  => Rests

\* A force whose generation is still the present one was asked for in it.
Meant(f) ==
  /\ f.state <= stateSeq
  /\ f.state = stateSeq /\ mode = "ARMED" /\ pc1 # "cfgSeq" => f.arm = arms

ForceInv ==
  /\ Meant(forceReq) /\ (forcePend \in Forces => Meant(forcePend))
  /\ pc1 = "forceSet" => forcePend.arm = arms
  /\ trig.force => forcedArm = arms
  /\ trig.force => pc1 \notin {"cfgFrozen", "cfgIndex", "cfgMode"}

ArmInv == TypeInv /\ ForceWords /\ CfgOrder /\ AsksAtRest /\ WaitsAtRest /\ ArmsAtRest
LateInv == ArmInv /\ ForceInv

\* No force is the absence of one.
LEMMA NoneForces == None \notin Forces
<1>1. \A x \in Forces : DOMAIN x = {"state", "arm", "seq"}
  BY DEF Forces
<1>2. DOMAIN None = {"none"}
  BY DEF None
<1> QED
  BY <1>1, <1>2

\* Nothing is asked for at the start.
LEMMA LateInit == Init => LateInv
<1> SUFFICES ASSUME Init PROVE LateInv
  OBVIOUS
<1>1. TypeInv
  BY TypeInit
<1>2. ForceWords
  BY DEF Init, ForceWords, Forces
<1>3. CfgOrder /\ AsksAtRest /\ WaitsAtRest /\ ArmsAtRest
  BY NonePends DEF Init, CfgOrder, AsksAtRest, WaitsAtRest, ArmsAtRest, Rests, Off
<1>4. ForceInv
  BY NoneForces DEF Init, ForceInv, Meant
<1> QED
  BY <1>1, <1>2, <1>3, <1>4 DEF LateInv, ArmInv

(* What a step can do to the words of a configuration. *)

\* The background away from a configuration.
LEMMA BackgroundQuiet ==
  ASSUME CacheReadIndex \/ CopyBind \/ CheckBind \/ CopyForce \/ CheckForce \/ ApplyBind
           \/ ForceRefuse \/ ForceAccept \/ ForceSet
  PROVE  /\ UNCHANGED <<cfgAck, cfgPend, cfgReq, mode, stateSeq, pc2, arms>>
         /\ pc1 \notin {"cfgSeq", "cfgActive", "cfgAck"}
<1>1. CASE CacheReadIndex \/ CopyBind \/ CheckBind
  BY <1>1 DEF CacheReadIndex, CopyBind, CheckBind, At1, NoSampling, NoHistory, cpu2Vars,
     reqVars, prodVars, ackVars, pendVars
<1>2. CASE CopyForce \/ CheckForce \/ ApplyBind
  BY <1>2 DEF CopyForce, CheckForce, ApplyBind, At1, NoSampling, NoHistory, cpu2Vars,
     reqVars, prodVars, ackVars, pendVars
<1>3. CASE ForceRefuse \/ ForceAccept \/ ForceSet
  BY <1>3 DEF ForceRefuse, ForceAccept, ForceSet, ForceStep, At1, cpu2Vars, reqVars, prodVars
<1> QED
  BY <1>1, <1>2, <1>3

\* The steps of a configuration but for its mode and its acknowledgement.
LEMMA CfgQuiet ==
  ASSUME CfgRefuse \/ CfgOff \/ CfgAccept \/ CfgReset \/ CfgFrozen \/ CfgIndex \/ CfgSeq
           \/ CfgActive
  PROVE  /\ UNCHANGED <<cfgAck, cfgPend, cfgReq, mode, pc2, arms>>
         /\ pc1 \in {"cfgSeq", "cfgActive", "cfgAck"} =>
              pc1' \in {"cfgSeq", "cfgActive", "cfgAck"}
<1>1. CASE CfgRefuse \/ CfgOff \/ CfgAccept \/ CfgReset
  BY <1>1 DEF CfgRefuse, CfgOff, CfgAccept, CfgReset, CfgStep, At1, Goto1, cpu2Vars,
     reqVars, prodVars
<1>2. CASE CfgFrozen \/ CfgIndex \/ CfgSeq \/ CfgActive
  BY <1>2 DEF CfgFrozen, CfgIndex, CfgSeq, CfgActive, CfgStep, At1, Goto1, cpu2Vars,
     reqVars, prodVars
<1> QED
  BY <1>1, <1>2

\* The interrupt: a mode that rests stays.
LEMMA IsrQuiet ==
  ASSUME Sample \/ FreezeEnds
  PROVE  /\ UNCHANGED <<cfgAck, cfgPend, cfgReq, pc1, pc2, arms, forcedArm, forceReq,
                        forcePend>>
         /\ Rests => mode' = mode
         /\ mode' = "ARMED" => mode = "ARMED"
         /\ stateSeq' \in {stateSeq, stateSeq + 1}
         /\ trig'.force => trig.force
<1>1. CASE FreezeEnds
  BY <1>1 DEF FreezeEnds, cpu2Vars, reqVars, ackVars, pendVars
<1>2. CASE Sample
  <2>1. UNCHANGED <<cfgAck, cfgPend, cfgReq, pc1, pc2, arms, forcedArm, forceReq, forcePend>>
    BY <1>2 DEF Sample, cpu2Vars, reqVars, ackVars, pendVars
  <2>2. PICK near, far \in BOOLEAN :
          LET ready  == mode = "ARMED" /\ TriggerReady(Store)
              hit    == ready /\ (trig.force \/ (~noTrig /\ trig.armed /\ far))
              left   == IF hit THEN win.post - 1
                        ELSE IF mode = "POST" /\ trig.left > 0 THEN trig.left - 1
                        ELSE trig.left
              freeze == (hit \/ mode = "POST") /\ left = 0
          IN /\ trig'.force = (trig.force /\ ~hit)
             /\ stateSeq' = IF hit THEN stateSeq + 1 ELSE stateSeq
             /\ mode' = IF freeze THEN "FROZEN" ELSE IF hit THEN "POST" ELSE mode
    BY <1>2 DEF Sample
  <2> QED
    BY <2>1, <2>2 DEF Rests
<1> QED
  BY <1>1, <1>2

\* CPU2 away from a configuration request.
LEMMA Cpu2Quiet ==
  ASSUME Cpu2
  PROVE  /\ UNCHANGED <<cfgAck, cfgPend, mode, stateSeq, pc1, arms, trig, forcedArm, forcePend>>
         /\ \/ DaqCtrl \/ DaqCtrlBody \/ DaqCtrlPublish
            \/ cfgReq' = cfgReq /\ pc2' \notin {"cfgBody", "cfgPublish"}
         /\ \/ CaptureForce \/ CaptureForcePublish \/ UNCHANGED forceReq
<1>1. CASE DaqCtrl \/ DaqCtrlBody \/ DaqCtrlPublish \/ DaqBind \/ DaqBindPublish
             \/ CaptureForce \/ CaptureForcePublish
  BY <1>1 DEF DaqCtrl, DaqCtrlBody, DaqCtrlPublish, DaqBind, DaqBindPublish, CaptureForce,
     CaptureForcePublish, Handler, At2, Goto2, cpu1Vars, isrVars, prodVars, ackVars, pendVars
<1>2. CASE CaptureReplay \/ Update \/ PushNothing \/ CapturePush \/ CaptureView \/ CaptureCopy
             \/ CaptureSubmit
  BY <1>2 DEF CaptureReplay, Update, PushNothing, CapturePush, CaptureView, CaptureCopy,
     CaptureSubmit, ViewFrozen, CopyFrozen, Consumer, At2, Goto2, cpu1Vars, isrVars,
     prodVars, ackVars, pendVars, reqVars
<1>3. CASE ReplayPush \/ ReplayView \/ ReplayCopy \/ ReplaySubmit \/ StreamPush \/ StreamPeek
             \/ StreamCopy \/ StreamSubmit
  BY <1>3 DEF ReplayPush, ReplayView, ReplayCopy, ReplaySubmit, StreamPush, StreamPeek,
     StreamCopy, StreamSubmit, ViewFrozen, CopyFrozen, Consumer, At2, Goto2, cpu1Vars,
     isrVars, prodVars, ackVars, pendVars, reqVars
<1> QED
  BY <1>1, <1>2, <1>3 DEF Cpu2

\* The words of a force keep their types.
LEMMA ForceWordsStep ==
  ASSUME TypeInv, ForceWords, [Next]_vars
  PROVE  ForceWords'
<1>1. /\ stateSeq \in Nat /\ arms \in Nat
      /\ forceReq \in Forces /\ forcePend \in Forces \cup {None}
      /\ pc1 \in {"forceCheck", "applyForce", "forceSet"} => forcePend \in Forces
  BY DEF TypeInv, ProdTyped, Cpu1Typed, ForceWords
<1>2. CASE Sample \/ FreezeEnds
  BY <1>1, <1>2, IsrQuiet DEF ForceWords
<1>3. CASE Cpu2
  <2>1. UNCHANGED <<pc1, forcePend>>
    BY <1>3, Cpu2Quiet
  <2>2. forceReq' \in Forces
    <3>1. CASE CaptureForce
      <4>1. forceReq' = [forceReq EXCEPT !.state = stateSeq, !.arm = arms]
        BY <3>1 DEF CaptureForce
      <4> QED
        BY <1>1, <4>1 DEF Forces
    <3>2. CASE CaptureForcePublish
      <4>1. forceReq' = [forceReq EXCEPT !.seq = forceReq.seq + 1]
        BY <3>2 DEF CaptureForcePublish
      <4>2. forceReq.seq + 1 \in Nat
        BY <1>1 DEF Forces
      <4> QED
        BY <1>1, <4>1, <4>2 DEF Forces
    <3> QED
      BY <1>1, <1>3, <3>1, <3>2, Cpu2Quiet
  <2> QED
    BY <1>1, <2>1, <2>2 DEF ForceWords
<1>4. CASE CopyForce \/ CheckForce
  <2>1. forceReq' = forceReq
    BY <1>4 DEF CopyForce, CheckForce, cpu2Vars, reqVars
  <2>2. CASE CopyForce
    BY <1>1, <2>1, <2>2, NoneForces DEF CopyForce, Goto1, NextApply, ForceWords
  <2>3. CASE CheckForce
    BY <1>1, <2>1, <2>3, NoneForces DEF CheckForce, At1, Goto1, NextApply, ForceWords
  <2> QED
    BY <1>4, <2>2, <2>3
<1>5. CASE ForceRefuse \/ ForceAccept \/ ForceSet
  BY <1>1, <1>5 DEF ForceRefuse, ForceAccept, ForceSet, ForceStep, At1, Goto1, ForceWords,
     cpu2Vars, reqVars
<1>6. CASE CacheReadIndex \/ CopyCfg \/ CheckCfg \/ CopyBind \/ CheckBind
  BY <1>1, <1>6 DEF CacheReadIndex, CopyCfg, CheckCfg, CopyBind, CheckBind, Goto1,
     ForceWords, pendVars, cpu2Vars, reqVars
<1>7. CASE ApplyBind \/ CfgRefuse \/ CfgAck
  BY <1>1, <1>7 DEF ApplyBind, CfgRefuse, CfgAck, CfgStep, Goto1, NextApply, ForceWords,
     cpu2Vars, reqVars
<1>8. CASE CfgOff \/ CfgAccept \/ CfgReset \/ CfgFrozen \/ CfgIndex \/ CfgMode \/ CfgSeq
             \/ CfgActive
  BY <1>1, <1>8 DEF CfgOff, CfgAccept, CfgReset, CfgFrozen, CfgIndex, CfgMode, CfgSeq,
     CfgActive, CfgStep, Goto1, ForceWords, cpu2Vars, reqVars
<1>9. CASE UNCHANGED vars
  BY <1>1, <1>9 DEF vars, cpu1Vars, cpu2Vars, reqVars, pendVars, ForceWords
<1> QED
  BY <1>2, <1>3, <1>4, <1>5, <1>6, <1>7, <1>8, <1>9 DEF Next, Background

\* A step that leaves the words of a configuration alone.
LEMMA ArmFrame ==
  ASSUME CfgOrder, AsksAtRest, WaitsAtRest, ArmsAtRest,
         UNCHANGED <<cfgAck, cfgPend, cfgReq>>,
         Rests => Rests',
         pc2' \in {"cfgBody", "cfgPublish"} => pc2 \in {"cfgBody", "cfgPublish"},
         pc1 \in {"cfgSeq", "cfgActive", "cfgAck"} => pc1' \in {"cfgSeq", "cfgActive", "cfgAck"}
  PROVE  (CfgOrder /\ AsksAtRest /\ WaitsAtRest /\ ArmsAtRest)'
<1>1. CfgOrder' /\ WaitsAtRest'
  BY DEF CfgOrder, WaitsAtRest
<1>2. AsksAtRest' /\ ArmsAtRest'
  BY DEF AsksAtRest, ArmsAtRest, Settled
<1> QED
  BY <1>1, <1>2

\* A configuration that samples is asked for, waits and is taken at rest.
LEMMA ArmStep ==
  ASSUME ~LiveReconfig, TypeInv, CfgOrder, AsksAtRest, WaitsAtRest, ArmsAtRest, [Next]_vars
  PROVE  (CfgOrder /\ AsksAtRest /\ WaitsAtRest /\ ArmsAtRest)'
<1>1. /\ cfgAck \in Nat /\ cfgReq.seq \in Nat /\ cfgReq.body \in Bodies
      /\ cfgReq \in [body : Bodies, seq : Nat]
      /\ cfgPend \in CfgPends \cup {None} /\ None \notin CfgPends
      /\ pc1 \in CfgPcs => cfgPend \in CfgPends
      /\ cfgPend \in CfgPends => cfgPend.seq \in Nat
  BY NonePends DEF TypeInv, Cpu1Typed, Cpu2Typed, CfgPends
<1>2. CASE Sample \/ FreezeEnds
  BY <1>2, IsrQuiet, ArmFrame DEF Rests
<1>3. CASE CacheReadIndex \/ CopyBind \/ CheckBind \/ CopyForce \/ CheckForce \/ ApplyBind
             \/ ForceRefuse \/ ForceAccept \/ ForceSet
  BY <1>3, BackgroundQuiet, ArmFrame DEF Rests
<1>4. CASE CfgRefuse \/ CfgOff \/ CfgAccept \/ CfgReset \/ CfgFrozen \/ CfgIndex \/ CfgSeq
             \/ CfgActive
  BY <1>4, CfgQuiet, ArmFrame DEF Rests
<1>5. CASE CopyCfg
  <2>1. /\ pc1 = "cfg" /\ UNCHANGED <<cfgReq, cfgAck, mode, pc2>>
        /\ \/ cfgPend' = cfgPend
           \/ /\ cfgPend = None /\ cfgReq.seq # cfgAck
              /\ cfgPend' = [body |-> cfgReq.body, seq |-> cfgReq.seq, ok |-> FALSE]
    BY <1>5 DEF CopyCfg, At1, NoSampling, cpu2Vars, reqVars, prodVars, ackVars
  <2>2. CASE cfgPend' = cfgPend
    BY <2>1, <2>2, ArmFrame DEF Rests
  <2>3. CASE /\ cfgPend = None /\ cfgReq.seq # cfgAck
             /\ cfgPend' = [body |-> cfgReq.body, seq |-> cfgReq.seq, ok |-> FALSE]
    <3>1. cfgAck < cfgReq.seq
      BY <1>1, <2>3 DEF CfgOrder
    <3>2. cfgPend' \in CfgPends /\ cfgPend'.seq = cfgReq.seq /\ cfgPend'.body = cfgReq.body
      BY <1>1, <2>3 DEF CfgPends
    <3>3. cfgReq.body.mode # "OFF" => Rests
      BY <1>1, <2>3, <3>1 DEF WaitsAtRest
    <3>4. CfgOrder' /\ WaitsAtRest'
      BY <1>1, <2>1, <3>1, <3>2 DEF CfgOrder, WaitsAtRest
    <3>5. AsksAtRest' /\ ArmsAtRest'
      BY <2>1, <3>2, <3>3 DEF AsksAtRest, ArmsAtRest, Settled, Rests
    <3> QED
      BY <3>4, <3>5
  <2> QED
    BY <2>1, <2>2, <2>3
<1>6. CASE CheckCfg
  <2>1. /\ pc1 = "cfgCheck" /\ UNCHANGED <<cfgReq, cfgAck, mode, pc2>>
        /\ \/ cfgPend' = [cfgPend EXCEPT !.ok = ValidCfg(cfgPend.body)]
           \/ cfgReq.seq # cfgPend.seq /\ cfgPend' = None
    BY <1>6 DEF CheckCfg, At1, NoSampling, cpu2Vars, reqVars, prodVars, ackVars
  <2>2. cfgPend \in CfgPends
    BY <1>1, <2>1 DEF CfgPcs
  <2>3. CASE cfgPend' = [cfgPend EXCEPT !.ok = ValidCfg(cfgPend.body)]
    <3>1. cfgPend'.seq = cfgPend.seq /\ cfgPend'.body = cfgPend.body
      BY <2>2, <2>3 DEF CfgPends
    <3>2. CfgOrder' /\ AsksAtRest'
      BY <2>1, <2>2, <3>1 DEF CfgOrder, AsksAtRest, Settled, Rests
    <3>3. ValidCfg(cfgPend.body) \in BOOLEAN
      BY DEF ValidCfg
    <3>4. cfgPend' \in CfgPends
      BY <2>2, <2>3, <3>3 DEF CfgPends
    <3>5. WaitsAtRest' /\ ArmsAtRest'
      BY <2>1, <2>2, <3>1, <3>4 DEF WaitsAtRest, ArmsAtRest, Rests
    <3> QED
      BY <3>2, <3>5
  <2>4. CASE cfgReq.seq # cfgPend.seq /\ cfgPend' = None
    <3>1. CfgOrder' /\ AsksAtRest' /\ ArmsAtRest'
      BY <1>1, <2>1, <2>4 DEF CfgOrder, AsksAtRest, ArmsAtRest, Settled, Rests
    <3>2. WaitsAtRest'
      BY <1>1, <2>1, <2>2, <2>4 DEF WaitsAtRest
    <3> QED
      BY <3>1, <3>2
  <2> QED
    BY <2>1, <2>3, <2>4
\* A configuration that is pending is not answered, so nobody asks meanwhile.
<1>7. CASE CfgMode
  <2>1. /\ pc1 = "cfgMode" /\ UNCHANGED <<cfgReq, cfgAck, cfgPend, pc2>>
        /\ pc1' \in {"cfgSeq", "cfgActive", "cfgAck"}
    BY <1>7 DEF CfgMode, CfgStep, At1, Goto1, cpu2Vars, reqVars
  <2>2. cfgPend \in CfgPends
    BY <1>1, <2>1 DEF CfgPcs
  <2>3. ~Settled
    BY <1>1, <2>2 DEF CfgOrder, Settled
  <2>4. CfgOrder' /\ AsksAtRest'
    BY <2>1, <2>3 DEF CfgOrder, AsksAtRest
  <2>5. WaitsAtRest' /\ ArmsAtRest'
    BY <2>1, <2>2 DEF WaitsAtRest, ArmsAtRest
  <2> QED
    BY <2>4, <2>5
<1>8. CASE CfgAck
  <2>1. /\ pc1 = "cfgAck" /\ UNCHANGED <<cfgReq, mode, pc2>>
        /\ cfgAck' = cfgPend.seq /\ cfgPend' = None
    BY <1>8 DEF CfgAck, CfgStep, At1, cpu2Vars, reqVars, prodVars
  <2>2. cfgPend \in CfgPends
    BY <1>1, <2>1 DEF CfgPcs
  <2>3. ~Settled
    BY <1>1, <2>2 DEF CfgOrder, Settled
  <2>4. CfgOrder' /\ AsksAtRest' /\ ArmsAtRest'
    BY <1>1, <2>1, <2>2, <2>3 DEF CfgOrder, AsksAtRest, ArmsAtRest
  <2>5. WaitsAtRest'
    BY <1>1, <2>1, <2>2 DEF WaitsAtRest, CfgOrder
  <2> QED
    BY <2>4, <2>5
<1>9. CASE Cpu2
  <2>1. UNCHANGED <<cfgAck, cfgPend, mode, pc1>>
    BY <1>9, Cpu2Quiet
  <2>2. CASE cfgReq' = cfgReq /\ pc2' \notin {"cfgBody", "cfgPublish"}
    BY <2>1, <2>2, ArmFrame DEF Rests
  <2>3. CASE DaqCtrl
    <3>1. PICK m \in Modes : HostAllows(m) /\ cfgReq' = [cfgReq EXCEPT !.body.mode = m]
      BY <2>3 DEF DaqCtrl
    <3>2. cfgReq'.seq = cfgReq.seq /\ cfgReq'.body.mode = m
      BY <1>1, <3>1 DEF Bodies
    <3>3. m # "OFF" => Settled /\ Rests
      BY <3>1 DEF HostAllows, CaptureSent, Rests
    <3>4. CfgOrder' /\ AsksAtRest' /\ ArmsAtRest'
      BY <2>1, <3>2, <3>3 DEF CfgOrder, AsksAtRest, ArmsAtRest, Settled, Rests
    <3>5. WaitsAtRest'
      BY <1>1, <2>1, <3>2, <3>3 DEF WaitsAtRest, Settled
    <3> QED
      BY <3>4, <3>5
  <2>4. CASE DaqCtrlBody
    <3>1. PICK c \in Cfgs : c.mode = cfgReq.body.mode /\ cfgReq' = [cfgReq EXCEPT !.body = c]
      BY <2>4 DEF DaqCtrlBody
    <3>2. cfgReq'.seq = cfgReq.seq /\ cfgReq'.body.mode = cfgReq.body.mode /\ pc2 = "cfgBody"
      BY <1>1, <2>4, <3>1 DEF DaqCtrlBody, Handler, At2
    <3>3. CfgOrder' /\ AsksAtRest'
      BY <2>1, <3>2 DEF CfgOrder, AsksAtRest, Settled, Rests
    <3>4. WaitsAtRest' /\ ArmsAtRest'
      BY <2>1, <3>2 DEF WaitsAtRest, ArmsAtRest, Rests
    <3> QED
      BY <3>3, <3>4
  <2>5. CASE DaqCtrlPublish
    <3>1. cfgReq' = [cfgReq EXCEPT !.seq = cfgReq.seq + 1] /\ pc2 = "cfgPublish"
          /\ pc2' = "update"
      BY <2>5 DEF DaqCtrlPublish, Handler, At2, Goto2
    <3>2. cfgReq'.seq = cfgReq.seq + 1 /\ cfgReq'.body = cfgReq.body
      BY <1>1, <3>1
    <3>3. CfgOrder'
      BY <1>1, <2>1, <3>2 DEF CfgOrder
    <3>4. AsksAtRest' /\ ArmsAtRest'
      BY <2>1, <3>1 DEF AsksAtRest, ArmsAtRest, Rests
    <3>5. cfgReq.body.mode # "OFF" => Rests /\ cfgPend \notin CfgPends
      <4>1. cfgReq.body.mode # "OFF" => Settled /\ Rests
        BY <3>1 DEF AsksAtRest
      <4>2. Settled => cfgPend \notin CfgPends
        BY <1>1 DEF CfgOrder, Settled
      <4> QED
        BY <4>1, <4>2
    <3>6. WaitsAtRest'
      BY <2>1, <3>2, <3>5 DEF WaitsAtRest, Rests
    <3> QED
      BY <3>3, <3>4, <3>6
  <2> QED
    BY <1>9, <2>2, <2>3, <2>4, <2>5, Cpu2Quiet
<1>10. CASE UNCHANGED vars
  BY <1>10, ArmFrame DEF vars, cpu1Vars, cpu2Vars, reqVars, pendVars, ackVars, prodVars, Rests
<1> QED
  BY <1>2, <1>3, <1>4, <1>5, <1>6, <1>7, <1>8, <1>9, <1>10 DEF Next, Background

\* A force stays meant for its generation while neither the mode becomes ARMED
\* nor a transition ends.
LEMMA MeantFrame ==
  ASSUME NEW f \in Forces, TypeInv, Meant(f),
         stateSeq' \in {stateSeq, stateSeq + 1}, arms' = arms,
         mode' = "ARMED" => mode = "ARMED",
         pc1 = "cfgSeq" => pc1' = "cfgSeq" \/ stateSeq' = stateSeq + 1
  PROVE  /\ f.state <= stateSeq'
         /\ f.state = stateSeq' /\ mode' = "ARMED" /\ pc1' # "cfgSeq" => f.arm = arms'
<1>1. f.state \in Nat /\ stateSeq \in Nat /\ f.state <= stateSeq
  BY DEF Forces, TypeInv, ProdTyped, Meant
<1>2. CASE stateSeq' = stateSeq + 1
  BY <1>1, <1>2
<1>3. CASE stateSeq' = stateSeq
  BY <1>1, <1>3 DEF Meant
<1> QED
  BY <1>2, <1>3

\* A force that is accepted is meant for the present generation.
LEMMA ForceStepInv ==
  ASSUME ArmInv, ForceInv, [Next]_vars
  PROVE  ForceInv'
<1> DEFINE StillMeant(f) ==
      /\ f.state <= stateSeq'
      /\ f.state = stateSeq' /\ mode' = "ARMED" /\ pc1' # "cfgSeq" => f.arm = arms'
<1>1. /\ TypeInv /\ forceReq \in Forces /\ forcePend \in Forces \cup {None}
      /\ None \notin Forces /\ stateSeq \in Nat
      /\ pc1 \in {"forceCheck", "applyForce", "forceSet"} => forcePend \in Forces
      /\ Meant(forceReq) /\ (forcePend \in Forces => Meant(forcePend))
  BY NoneForces DEF ArmInv, TypeInv, ProdTyped, ForceWords, ForceInv
<1>2. ASSUME StillMeant(forceReq), forcePend \in Forces => StillMeant(forcePend),
             UNCHANGED <<forceReq, arms>>,
             forcePend' \in {forcePend, forceReq, None},
             pc1' = "forceSet" => forcePend' = forcePend /\ (pc1 = "forceSet" \/ ForceAccept),
             trig'.force => trig.force, forcedArm' = forcedArm,
             pc1' \in {"cfgFrozen", "cfgIndex", "cfgMode"} =>
               pc1 \in {"cfgFrozen", "cfgIndex", "cfgMode"} \/ ~trig'.force
      PROVE  ForceInv'
  <2>1. Meant(forceReq)'
    BY <1>2 DEF Meant
  <2>2. forcePend' \in Forces => Meant(forcePend)'
    <3> SUFFICES ASSUME forcePend' \in Forces PROVE Meant(forcePend)'
      OBVIOUS
    <3>1. CASE forcePend' = forceReq
      BY <1>2, <3>1 DEF Meant
    <3>2. CASE forcePend' = forcePend
      BY <1>2, <3>2 DEF Meant
    <3> QED
      BY <1>1, <1>2, <3>1, <3>2
  <2>3. pc1' = "forceSet" => forcePend'.arm = arms'
    <3>1. CASE pc1 = "forceSet"
      BY <1>2, <3>1 DEF ForceInv
    <3>2. CASE ForceAccept
      BY <1>1, <1>2, <3>2 DEF ForceAccept, ForceStep, ForceAccepted, At1, Meant
    <3> QED
      BY <1>2, <3>1, <3>2
  <2>4. (trig'.force => forcedArm' = arms')
        /\ (trig'.force => pc1' \notin {"cfgFrozen", "cfgIndex", "cfgMode"})
    BY <1>2 DEF ForceInv
  <2> QED
    BY <2>1, <2>2, <2>3, <2>4 DEF ForceInv
\* The steps that leave the requests and the arm generations alone.
<1>3. ASSUME UNCHANGED <<forceReq, arms>>,
             forcePend' \in {forcePend, forceReq, None},
             stateSeq' \in {stateSeq, stateSeq + 1},
             mode' = "ARMED" => mode = "ARMED",
             pc1 = "cfgSeq" => pc1' = "cfgSeq" \/ stateSeq' = stateSeq + 1,
             pc1' = "forceSet" => forcePend' = forcePend /\ (pc1 = "forceSet" \/ ForceAccept),
             trig'.force => trig.force, forcedArm' = forcedArm,
             pc1' \in {"cfgFrozen", "cfgIndex", "cfgMode"} =>
               pc1 \in {"cfgFrozen", "cfgIndex", "cfgMode"} \/ ~trig'.force
      PROVE  ForceInv'
  <2>1. StillMeant(forceReq)
    BY <1>1, <1>3, MeantFrame
  <2>2. forcePend \in Forces => StillMeant(forcePend)
    BY <1>1, <1>3, MeantFrame
  <2> HIDE DEF StillMeant
  <2> QED
    BY <1>2, <1>3, <2>1, <2>2
<1> HIDE DEF StillMeant
<1>4. CASE Sample \/ FreezeEnds
  BY <1>3, <1>4, IsrQuiet
<1>5. CASE CacheReadIndex \/ CopyBind \/ CheckBind \/ CopyForce \/ CheckForce \/ ApplyBind
             \/ ForceRefuse \/ ForceAccept
  <2>1. UNCHANGED <<arms, stateSeq, mode, forceReq, trig, forcedArm>> /\ pc1 # "cfgSeq"
    <3>1. UNCHANGED <<arms, stateSeq, mode>> /\ pc1 # "cfgSeq"
      BY <1>5, BackgroundQuiet
    <3>2. CASE CacheReadIndex \/ CopyBind \/ CheckBind \/ CopyForce \/ CheckForce
      BY <3>1, <3>2 DEF CacheReadIndex, CopyBind, CheckBind, CopyForce, CheckForce,
         NoSampling, NoHistory, isrVars, cpu2Vars, reqVars
    <3>3. CASE ApplyBind \/ ForceRefuse \/ ForceAccept
      BY <3>1, <3>3 DEF ApplyBind, ForceRefuse, ForceAccept, ForceStep, NoHistory,
         cpu2Vars, reqVars
    <3> QED
      BY <1>5, <3>1, <3>2, <3>3
  <2>2. /\ pc1' \notin {"cfgFrozen", "cfgIndex", "cfgMode"}
        /\ pc1' = "forceSet" => ForceAccept /\ forcePend' = forcePend
        /\ forcePend' \in {forcePend, forceReq, None}
    <3>1. CASE CacheReadIndex \/ CopyBind \/ CheckBind
      BY <3>1 DEF CacheReadIndex, CopyBind, CheckBind, Goto1, pendVars
    <3>2. CASE CopyForce \/ CheckForce
      BY <3>2 DEF CopyForce, CheckForce, Goto1, NextApply
    <3>3. CASE ApplyBind \/ ForceRefuse \/ ForceAccept
      BY <3>3 DEF ApplyBind, ForceRefuse, ForceAccept, ForceStep, Goto1, NextApply
    <3> QED
      BY <1>5, <3>1, <3>2, <3>3
  <2> QED
    BY <1>3, <2>1, <2>2
<1>6. CASE ForceSet
  <2>1. /\ pc1 = "forceSet" /\ pc1' = "service" /\ forcePend' = None
        /\ trig' = [trig EXCEPT !.force = TRUE] /\ forcedArm' = forcePend.arm
        /\ UNCHANGED <<forceReq, stateSeq, mode, arms>>
    BY <1>6 DEF ForceSet, ForceStep, At1, Goto1, cpu2Vars, reqVars, prodVars
  <2>2. Meant(forceReq)'
    BY <1>1, <2>1 DEF Meant
  <2>3. forcedArm' = arms'
    BY <2>1 DEF ForceInv
  <2> QED
    BY <1>1, <2>1, <2>2, <2>3 DEF ForceInv
<1>7. CASE CopyCfg \/ CheckCfg \/ CfgRefuse \/ CfgAccept \/ CfgActive \/ CfgAck
  <2>1. CASE CopyCfg \/ CheckCfg
    BY <1>3, <2>1 DEF CopyCfg, CheckCfg, At1, Goto1, NoSampling, NoHistory, isrVars,
       prodVars, cpu2Vars, reqVars
  <2>2. CASE CfgRefuse \/ CfgAccept \/ CfgActive \/ CfgAck
    BY <1>3, <2>2 DEF CfgRefuse, CfgAccept, CfgActive, CfgAck, CfgStep, At1, Goto1,
       NextApply, prodVars, cpu2Vars, reqVars
  <2> QED
    BY <1>7, <2>1, <2>2
<1>8. CASE CfgOff \/ CfgReset
  <2>1. trig'.force = FALSE
    <3>1. trig' = [trig EXCEPT !.armed = FALSE, !.force = FALSE, !.left = 0]
      BY <1>8 DEF CfgOff, CfgReset, ResetCapture
    <3>2. trig \in Trigs
      BY <1>1 DEF TypeInv, IsrTyped
    <3> QED
      BY <3>1, <3>2 DEF Trigs
  <2> QED
    BY <1>3, <1>8, <2>1 DEF CfgOff, CfgReset, CfgStep, At1, Goto1, prodVars, cpu2Vars, reqVars
<1>9. CASE CfgFrozen \/ CfgIndex
  BY <1>3, <1>9 DEF CfgFrozen, CfgIndex, CfgStep, At1, Goto1, prodVars, cpu2Vars, reqVars
<1>10. CASE CfgSeq
  BY <1>3, <1>10 DEF CfgSeq, CfgStep, At1, Goto1, cpu2Vars, reqVars
\* Arming: the mode was at rest, so it changes, and the new state_seq is due.
<1>11. CASE CfgMode
  <2>1. /\ pc1 = "cfgMode" /\ mode' = cfgPend.body.mode
        /\ pc1' = IF mode # cfgPend.body.mode THEN "cfgSeq"
                  ELSE IF mode = "OFF" THEN "cfgAck" ELSE "cfgActive"
        /\ UNCHANGED <<trig, stateSeq, forceReq, forcePend, forcedArm>>
    BY <1>11 DEF CfgMode, CfgStep, At1, Goto1, cpu2Vars, reqVars
  <2>2. mode' = "ARMED" => pc1' = "cfgSeq"
    <3>1. cfgPend \in CfgPends
      BY <1>1, <2>1 DEF TypeInv, Cpu1Typed, CfgPcs
    <3> QED
      BY <2>1, <3>1 DEF ArmInv, ArmsAtRest, Rests
  <2>3. ~trig.force
    BY <2>1 DEF ForceInv
  <2>4. Meant(forceReq)' /\ (forcePend' \in Forces => Meant(forcePend)')
    BY <1>1, <2>1, <2>2 DEF Meant
  <2> QED
    BY <2>1, <2>3, <2>4 DEF ForceInv
<1>12. CASE Cpu2
  <2>1. UNCHANGED <<mode, stateSeq, pc1, arms, trig, forcedArm, forcePend>>
    BY <1>12, Cpu2Quiet
  <2>2. Meant(forceReq)'
    <3>1. CASE CaptureForce
      <4>1. forceReq' = [forceReq EXCEPT !.state = stateSeq, !.arm = arms]
        BY <3>1 DEF CaptureForce
      <4>2. forceReq'.state = stateSeq /\ forceReq'.arm = arms
        BY <1>1, <4>1 DEF Forces
      <4> QED
        BY <1>1, <2>1, <4>2 DEF Meant
    <3>2. CASE CaptureForcePublish
      <4>1. forceReq' = [forceReq EXCEPT !.seq = forceReq.seq + 1]
        BY <3>2 DEF CaptureForcePublish
      <4>2. forceReq'.state = forceReq.state /\ forceReq'.arm = forceReq.arm
        BY <1>1, <4>1 DEF Forces
      <4> QED
        BY <1>1, <2>1, <4>2 DEF Meant
    <3>3. CASE forceReq' = forceReq
      BY <1>1, <2>1, <3>3 DEF Meant
    <3> QED
      BY <1>12, <3>1, <3>2, <3>3, Cpu2Quiet
  <2>3. forcePend' \in Forces => Meant(forcePend)'
    BY <1>1, <2>1 DEF Meant
  <2> QED
    BY <2>1, <2>2, <2>3 DEF ForceInv
<1>13. CASE UNCHANGED vars
  BY <1>3, <1>13 DEF vars, cpu1Vars, isrVars, prodVars, pendVars, cpu2Vars, reqVars
<1> QED
  BY <1>4, <1>5, <1>6, <1>7, <1>8, <1>9, <1>10, <1>11, <1>12, <1>13 DEF Next, Background

(* With a host that turns a sampling scope OFF before it arms it again, a    *)
(* force CPU1 accepts is pending in the arm generation it was asked for in,  *)
(* whatever the number of requests, the time they take and the lag of either *)
(* core.                                                                     *)
THEOREM ForceHitsItsCaptureHolds ==
  ASSUME ~LiveReconfig
  PROVE  Spec => []ForceHitsItsCapture
<1>1. LateInv /\ [Next]_vars => LateInv'
  <2> SUFFICES ASSUME LateInv, [Next]_vars PROVE LateInv'
    OBVIOUS
  <2>1. TypeInv'
    BY TypeStep DEF LateInv, ArmInv
  <2>2. ForceWords'
    BY ForceWordsStep DEF LateInv, ArmInv
  <2>3. (CfgOrder /\ AsksAtRest /\ WaitsAtRest /\ ArmsAtRest)'
    BY ArmStep DEF LateInv, ArmInv
  <2>4. ForceInv'
    BY ForceStepInv DEF LateInv
  <2> QED
    BY <2>1, <2>2, <2>3, <2>4 DEF LateInv, ArmInv
<1>2. LateInv => ForceHitsItsCapture
  BY DEF LateInv, ForceInv, ForceHitsItsCapture
<1> QED
  BY LateInit, <1>1, <1>2, PTL DEF Spec
=============================================================================
