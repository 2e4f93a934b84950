---------------------------- MODULE TxPipeProofs ----------------------------
(***************************************************************************)
(* What every step of the transmit pipe keeps, for every number of slots,  *)
(* length of frames and depth of the FIFO.  SciLinkProofs draws the        *)
(* theorems about the link from it.                                        *)
(***************************************************************************)
EXTENDS TxPipe, NatLemmas, FiniteSetTheorems

SlotRecords == [state : States, prio : Prios, pos : 0 .. FrameLen, order : Nat, data : Nat]

\* The foreground is inside the refill only with the interrupt masked.
Exclusive == at["fg"] \in {"refill", "write", "update"} => ~pieier /\ at["isr"] = "out"

\* The slot being filled is out of the refill's reach.
Filling == at["fg"] = "fill" => slot["fg"] \in Slots /\ slots[slot["fg"]].state = "FILLING"

\* The line stands where the active slot stands, and at the end of a frame if
\* none is active.
LineAt ==
  /\ active = 0 => line.octet \in {0, FrameLen}
  /\ active # 0 =>
       LET s == slots[active]
       IN /\ s.state = "ACTIVE" /\ s.pos < FrameLen
          /\ s.pos = 0 => line.octet \in {0, FrameLen}
          /\ s.pos # 0 => line.frame = s.data /\ line.octet = s.pos

\* What a context has read of the active slot is still so when it writes.
Writing ==
  \A c \in Contexts : at[c] = "write" =>
    active # 0 /\ slot[c] = active /\ pos[c] = slots[active].pos

SlotLeft == (\A i \in Slots : slots[i].state # "FREE" => slots[i].prio = "NORMAL") => Free # {}

PipeInv == PipeTypeOK /\ Exclusive /\ Filling /\ LineAt /\ Writing /\ SlotLeft

\* A step of the pipe, whatever the super-loop does with it.
PipeNext ==
  \/ \E prio \in Prios : Submit(prio)
  \/ ForegroundStep \/ InterruptStep \/ Drain

-----------------------------------------------------------------------------
(* The choices of the code exist.                                          *)

(* The slots have a newest order, which v2k_cpu2_board_pipe_tx_submit_frame
   goes on from. *)
LEMMA BoundExists ==
  ASSUME NEW N \in Nat, NEW f \in [1 .. N -> Nat]
  PROVE  \E b \in Nat : \A i \in 1 .. N : f[i] <= b
<1> DEFINE Bounded(k) == \E b \in Nat : \A i \in 1 .. k : f[i] <= b
           T == {k \in 0 .. N : ~Bounded(k)}
<1> SUFFICES ASSUME T # {} PROVE FALSE
  <2>1. N \in 0 .. N
    OBVIOUS
  <2> QED
    BY <2>1
<1> HIDE DEF Bounded
<1>1. PICK k \in T : \A j \in T : k <= j
  <2>1. T \subseteq Nat
    OBVIOUS
  <2> QED
    BY <2>1, LeastExists
<1>2. k # 0
  <2>1. Bounded(0)
    <3>1. \A i \in 1 .. 0 : f[i] <= 0
      OBVIOUS
    <3> QED
      BY <3>1 DEF Bounded
  <2> QED
    BY <2>1, <1>1
<1>3. k - 1 \in 0 .. N /\ k - 1 \notin T
  <2>1. k \in Nat /\ k <= N
    OBVIOUS
  <2>2. k - 1 \in 0 .. N /\ ~(k <= k - 1)
    BY <2>1, <1>2
  <2> HIDE DEF T
  <2> QED
    BY <1>1, <2>2
<1>4. PICK b \in Nat : \A i \in 1 .. k - 1 : f[i] <= b
  BY <1>3 DEF Bounded
<1>5. k \in 1 .. N /\ f[k] \in Nat
  BY <1>1, <1>2
<1>6. \A i \in 1 .. k : f[i] <= b + f[k]
  <2> TAKE i \in 1 .. k
  <2>1. i = k \/ i \in 1 .. k - 1
    BY <1>5
  <2>2. f[i] \in Nat
    BY <1>5
  <2> QED
    BY <1>4, <1>5, <2>1, <2>2
<1>7. Bounded(k)
  <2>1. b + f[k] \in Nat
    BY <1>5
  <2> QED
    BY <1>6, <2>1 DEF Bounded
<1> QED
  BY <1>1, <1>7

(* The number of a new submission is a number.                             *)
LEMMA NextOrderIsNat ==
  ASSUME slots \in [Slots -> SlotRecords]
  PROVE  NextOrder \in Nat
<1> DEFINE O == {slots[i].order : i \in Slots}
<1>1. O \subseteq Nat
  BY DEF SlotRecords
<1>2. O # {}
  <2>1. 1 \in Slots
    BY PipeAssumption DEF Slots
  <2> QED
    BY <2>1
<1>3. PICK b \in Nat : \A i \in Slots : slots[i].order <= b
  <2> DEFINE f == [i \in Slots |-> slots[i].order]
  <2>1. f \in [1 .. NSlots -> Nat] /\ NSlots \in Nat
    BY PipeAssumption DEF SlotRecords, Slots
  <2>2. \E b \in Nat : \A i \in 1 .. NSlots : f[i] <= b
    <3> HIDE DEF f
    <3> QED
      BY <2>1, BoundExists
  <2> QED
    BY <2>2 DEF Slots
<1>4. O \subseteq 0 .. b
  <2> SUFFICES ASSUME NEW i \in Slots PROVE slots[i].order \in 0 .. b
    OBVIOUS
  <2>1. slots[i].order \in Nat
    BY DEF SlotRecords
  <2> QED
    BY <1>3, <2>1
<1>5. PICK x \in O : \A y \in O : y <= x
  <2> HIDE DEF O
  <2> QED
    BY <1>2, <1>4, GreatestExists
<1> DEFINE newest == CHOOSE n \in O : \A m \in O : m <= n
<1>6. newest \in O
  <2> HIDE DEF O
  <2> QED
    BY <1>5
<1>7. newest \in Nat
  BY <1>1, <1>6
<1>8. NextOrder = 1 + newest
  BY DEF NextOrder
<1> HIDE DEF newest
<1> QED
  BY <1>7, <1>8

(* A frame that may be submitted has a free slot.                          *)
LEMMA FreeSlotExists ==
  ASSUME NEW prio, CanSubmit(prio)
  PROVE  \E i \in Free : \A k \in Free : i <= k
<1>1. Free \subseteq Nat
  BY PipeAssumption DEF Free, Slots
<1>2. Free # {}
  BY FS_EmptySet DEF CanSubmit
<1> QED
  BY <1>1, <1>2, LeastExists

(* A push that may be submitted leaves a second slot free.                 *)
LEMMA SecondFreeSlot ==
  ASSUME CanSubmit("NORMAL"), NEW i \in Free
  PROVE  \E k \in Free : k # i
<1>1. Cardinality(Free) > 1
  BY DEF CanSubmit
<1>2. Free # {i}
  BY <1>1, FS_Singleton
<1> QED
  BY <1>2

(* select_active finds the active slot or the oldest that is waiting.      *)
LEMMA NextSlotChoice ==
  ASSUME slots \in [Slots -> SlotRecords], active \in 0 .. NSlots, NextSlot # 0
  PROVE  /\ active # 0 => NextSlot = active
         /\ active = 0 =>
              /\ NextSlot \in Slots /\ slots[NextSlot].state = "PENDING"
              /\ NextSlot \in Pending(slots[NextSlot].prio)
              /\ \A i \in Pending(slots[NextSlot].prio) :
                   slots[i].order >= slots[NextSlot].order
              /\ slots[NextSlot].prio = "NORMAL" => Pending("HIGH") = {}
<1>1. active # 0 => NextSlot = active
  BY DEF NextSlot
<1>2. ASSUME active = 0
      PROVE  /\ NextSlot \in Slots /\ slots[NextSlot].state = "PENDING"
             /\ NextSlot \in Pending(slots[NextSlot].prio)
             /\ \A i \in Pending(slots[NextSlot].prio) :
                  slots[i].order >= slots[NextSlot].order
             /\ slots[NextSlot].prio = "NORMAL" => Pending("HIGH") = {}
  <2> DEFINE p == IF Pending("HIGH") # {} THEN "HIGH" ELSE "NORMAL"
             W == Pending(p)
             O == {slots[i].order : i \in W}
  <2>1. W # {} /\ NextSlot = CHOOSE i \in W : \A j \in W : slots[i].order <= slots[j].order
    BY <1>2 DEF NextSlot
  <2>2. W \subseteq Slots
    BY DEF Pending
  <2>3. O \subseteq Nat /\ O # {}
    BY <2>1, <2>2 DEF SlotRecords
  <2>4. PICK o \in O : \A y \in O : o <= y
    <3> HIDE DEF O
    <3> QED
      BY <2>3, LeastExists
  <2>5. \E i \in W : \A j \in W : slots[i].order <= slots[j].order
    <3>1. PICK i \in W : o = slots[i].order
      OBVIOUS
    <3> QED
      BY <2>4, <3>1
  <2>6. NextSlot \in W /\ \A j \in W : slots[NextSlot].order <= slots[j].order
    <3> HIDE DEF W
    <3> QED
      BY <2>1, <2>5
  <2>7. slots[NextSlot].state = "PENDING" /\ slots[NextSlot].prio = p
    BY <2>6 DEF Pending
  <2>8. \A i \in W : slots[i].order \in Nat
    BY <2>2 DEF SlotRecords
  <2> QED
    BY <2>2, <2>6, <2>7, <2>8
<1> QED
  BY <1>1, <1>2

-----------------------------------------------------------------------------
(* Every step keeps the invariant.                                         *)

LEMMA PipeInitHolds == PipeInit => PipeInv
<1> SUFFICES ASSUME PipeInit PROVE PipeInv
  OBVIOUS
<1>1. FreeSlot \in SlotRecords
  BY PipeAssumption DEF FreeSlot, SlotRecords, States, Prios
<1>2. NoOctet \in [frame : Nat, octet : 0 .. FrameLen]
  BY PipeAssumption DEF NoOctet
<1>3. PipeTypeOK
  <2>1. slots \in [Slots -> SlotRecords] /\ line \in [frame : Nat, octet : 0 .. FrameLen]
    BY <1>1, <1>2 DEF PipeInit
  <2>2. /\ at \in [Contexts -> Places] /\ at["isr"] = "out"
        /\ slot \in [Contexts -> 0 .. NSlots] /\ pos \in [Contexts -> 0 .. FrameLen]
    BY PipeAssumption DEF PipeInit, Contexts, Places
  <2>3. /\ active \in 0 .. NSlots /\ fifo \in 0 .. FifoDepth
    BY PipeAssumption DEF PipeInit
  <2>4. txffiena \in BOOLEAN /\ pieier \in BOOLEAN /\ pieifr \in BOOLEAN
    BY Zenon DEF PipeInit
  <2> QED
    BY <2>1, <2>2, <2>3, <2>4 DEF PipeTypeOK, SlotRecords
<1>4. Exclusive /\ Filling /\ LineAt /\ Writing
  BY DEF PipeInit, Exclusive, Filling, LineAt, Writing, Contexts, NoOctet
<1>5. SlotLeft
  <2>1. 1 \in Slots /\ slots[1].state = "FREE"
    BY PipeAssumption DEF PipeInit, FreeSlot, Slots
  <2> QED
    BY <2>1 DEF SlotLeft, Free
<1> QED
  BY <1>3, <1>4, <1>5 DEF PipeInv

(* A context goes from place to place.                                     *)
LEMMA GoTyped ==
  ASSUME PipeTypeOK, NEW c \in Contexts, NEW from, NEW to \in Places, Go(c, from, to),
         c = "isr" => to \notin {"fill", "kick"}
  PROVE  /\ at' \in [Contexts -> Places] /\ at'["isr"] \notin {"fill", "kick"}
         /\ at[c] = from /\ at'[c] = to
         /\ \A d \in Contexts : d # c => at'[d] = at[d]
BY DEF Go, PipeTypeOK, Contexts

LEMMA SubmitKeeps ==
  ASSUME PipeInv, NEW prio \in Prios, Submit(prio)
  PROVE  PipeInv'
<1> DEFINE i == CHOOSE j \in Free : \A k \in Free : j <= k
           new == [slots[i] EXCEPT !.state = "FILLING", !.prio = prio, !.pos = 0,
                                   !.order = NextOrder]
<1>1. i \in Free
  BY FreeSlotExists DEF Submit
<1>2. i \in Slots /\ slots[i].state = "FREE" /\ slots[i] \in SlotRecords
  BY <1>1 DEF Free, PipeInv, PipeTypeOK, SlotRecords
<1>3. /\ slots' = [slots EXCEPT ![i] = new] /\ slot' = [slot EXCEPT !["fg"] = i]
      /\ UNCHANGED <<active, fifo, txffiena, pieier, pieifr, pos, line>>
      /\ CanSubmit(prio) /\ Go("fg", "out", "fill") /\ at["isr"] = "out"
  BY DEF Submit, hwVars, Foreground
<1>4. new \in SlotRecords /\ new.state = "FILLING" /\ new.prio = prio
  <2>1. NextOrder \in Nat
    BY NextOrderIsNat DEF PipeInv, PipeTypeOK, SlotRecords
  <2>2. 0 \in 0 .. FrameLen
    BY PipeAssumption
  <2> QED
    BY <1>2, <2>1, <2>2 DEF SlotRecords, States
<1> HIDE DEF i, new
<1>5. /\ slots'[i] = new /\ \A k \in Slots : k # i => slots'[k] = slots[k]
      /\ slots' \in [Slots -> SlotRecords] /\ slot' \in [Contexts -> 0 .. NSlots]
      /\ slot'["fg"] = i
  BY <1>2, <1>3, <1>4 DEF PipeInv, PipeTypeOK, SlotRecords, Contexts, Slots
<1>6. /\ at' \in [Contexts -> Places] /\ at'["isr"] = "out" /\ at'["fg"] = "fill"
      /\ at["fg"] = "out"
  BY <1>3, GoTyped DEF PipeInv, Contexts, Places
<1>7. PipeTypeOK'
  BY <1>3, <1>5, <1>6 DEF PipeInv, PipeTypeOK, SlotRecords
<1>8. Exclusive' /\ Filling' /\ Writing'
  BY <1>2, <1>4, <1>5, <1>6 DEF Exclusive, Filling, Writing, Contexts
<1>9. LineAt'
  <2>1. active # 0 => active \in Slots /\ active # i
    BY <1>2 DEF PipeInv, LineAt, PipeTypeOK, Slots
  <2> QED
    BY <1>3, <1>5, <2>1 DEF PipeInv, LineAt
<1>10. SlotLeft'
  <2>1. CASE prio = "HIGH"
    BY <1>2, <1>4, <1>5, <2>1 DEF SlotLeft
  <2>2. CASE prio = "NORMAL"
    <3>1. PICK k \in Free : k # i
      BY <1>1, <1>3, <2>2, SecondFreeSlot
    <3>2. k \in Slots /\ slots'[k].state = "FREE"
      BY <1>5, <3>1 DEF Free
    <3> QED
      BY <3>2 DEF SlotLeft, Free
  <2> QED
    BY <2>1, <2>2 DEF Prios
<1> QED
  BY <1>7, <1>8, <1>9, <1>10 DEF PipeInv

LEMMA FillKeeps ==
  ASSUME PipeInv, Fill
  PROVE  PipeInv'
<1> DEFINE i == slot["fg"]
           new == [slots[i] EXCEPT !.state = "PENDING", !.data = slots[i].order]
<1>1. i \in Slots /\ slots[i].state = "FILLING" /\ slots[i] \in SlotRecords
  BY DEF Fill, Go, PipeInv, Filling, PipeTypeOK, SlotRecords
<1>2. /\ slots' = [slots EXCEPT ![i] = new] /\ slot' = [slot EXCEPT !["fg"] = 0]
      /\ UNCHANGED <<active, fifo, txffiena, pieier, pieifr, pos, line>>
      /\ Go("fg", "fill", "kick") /\ at["isr"] = "out"
  BY <1>1 DEF Fill, hwVars, Foreground, PipeInv, PipeTypeOK
<1>3. new \in SlotRecords /\ new.state = "PENDING" /\ new.prio = slots[i].prio
  BY <1>1 DEF SlotRecords, States
<1> HIDE DEF i, new
<1>4. /\ slots'[i] = new /\ \A k \in Slots : k # i => slots'[k] = slots[k]
      /\ slots' \in [Slots -> SlotRecords] /\ slot' \in [Contexts -> 0 .. NSlots]
  BY <1>1, <1>2, <1>3, PipeAssumption DEF PipeInv, PipeTypeOK, SlotRecords, Contexts
<1>5. /\ at' \in [Contexts -> Places] /\ at'["isr"] = "out" /\ at'["fg"] = "kick"
      /\ at["fg"] = "fill"
  BY <1>2, GoTyped DEF PipeInv, Contexts, Places
<1>6. PipeTypeOK'
  BY <1>2, <1>4, <1>5 DEF PipeInv, PipeTypeOK, SlotRecords
<1>7. Exclusive' /\ Filling' /\ Writing'
  BY <1>5 DEF Exclusive, Filling, Writing, Contexts
<1>8. LineAt'
  <2>1. active # 0 => active \in Slots /\ active # i
    BY <1>1 DEF PipeInv, LineAt, PipeTypeOK, Slots
  <2> QED
    BY <1>2, <1>4, <2>1 DEF PipeInv, LineAt
<1>9. SlotLeft'
  <2>1. \A k \in Slots : /\ slots'[k].prio = slots[k].prio
                         /\ slots'[k].state = "FREE" <=> slots[k].state = "FREE"
    BY <1>1, <1>3, <1>4
  <2> QED
    BY <2>1 DEF PipeInv, SlotLeft, Free
<1> QED
  BY <1>6, <1>7, <1>8, <1>9 DEF PipeInv

(* A step that leaves the slots alone only has to keep the contexts apart. *)
LEMMA SlotsKept ==
  ASSUME PipeInv, UNCHANGED <<slots, active, line>>
  PROVE  LineAt' /\ SlotLeft'
<1>1. LineAt'
  BY DEF PipeInv, LineAt
<1>2. SlotLeft'
  BY DEF PipeInv, SlotLeft, Free
<1> QED
  BY <1>1, <1>2

LEMMA KickKeeps ==
  ASSUME PipeInv, Kick
  PROVE  PipeInv'
<1>1. /\ at' \in [Contexts -> Places] /\ at'["isr"] = "out" /\ at'["fg"] = "refill"
  BY GoTyped DEF Kick, Foreground, PipeInv, Contexts, Places
<1>2. PipeTypeOK'
  BY <1>1 DEF Kick, PipeInv, PipeTypeOK
<1>3. Exclusive' /\ Filling' /\ Writing'
  BY <1>1 DEF Kick, Exclusive, Filling, Writing, Contexts
<1> QED
  BY <1>2, <1>3, SlotsKept DEF Kick, PipeInv

(* A slot that becomes active starts at its first octet.                   *)
LEMMA Activated ==
  ASSUME NEW s \in SlotRecords
  PROVE  LET new == [s EXCEPT !.state = "ACTIVE", !.pos = 0]
         IN /\ new \in SlotRecords /\ new.state = "ACTIVE" /\ new.pos = 0
            /\ new.prio = s.prio /\ new.data = s.data
<1> DEFINE one == [s EXCEPT !.state = "ACTIVE"]
           new == [one EXCEPT !.pos = 0]
<1>1. /\ one \in SlotRecords /\ one.state = "ACTIVE"
      /\ one.prio = s.prio /\ one.data = s.data
  BY DEF SlotRecords, States
<1>2. /\ new \in SlotRecords /\ new.state = one.state /\ new.pos = 0
      /\ new.prio = one.prio /\ new.data = one.data
  <2>1. 0 \in 0 .. FrameLen
    BY PipeAssumption
  <2> HIDE DEF one
  <2> QED
    BY <1>1, <2>1 DEF SlotRecords
<1>3. new = [s EXCEPT !.state = "ACTIVE", !.pos = 0]
  OBVIOUS
<1> QED
  BY <1>1, <1>2, <1>3

LEMMA ReadKeeps ==
  ASSUME PipeInv, NEW c \in Contexts, RefillRead(c)
  PROVE  PipeInv'
<1> DEFINE i == NextSlot
<1>1. /\ NextSlot # 0 /\ active' = i /\ slot' = [slot EXCEPT ![c] = i]
      /\ slots' = IF active = 0
                  THEN [slots EXCEPT ![i].state = "ACTIVE", ![i].pos = 0]
                  ELSE slots
      /\ pos' = [pos EXCEPT ![c] = slots'[i].pos]
      /\ UNCHANGED <<fifo, txffiena, pieier, pieifr, line>>
      /\ Go(c, "refill", "write") /\ (c = "isr" \/ at["isr"] = "out")
  BY DEF RefillRead, hwVars, Runs, Foreground
<1>2. /\ active # 0 => i = active
      /\ active = 0 => i \in Slots /\ slots[i].state = "PENDING"
  BY <1>1, NextSlotChoice DEF PipeInv, PipeTypeOK, SlotRecords
<1> HIDE DEF i
<1>3. i \in Slots /\ slots[i] \in SlotRecords
  BY <1>1, <1>2 DEF PipeInv, PipeTypeOK, Slots, SlotRecords
<1>4. /\ slots'[i] \in SlotRecords /\ slots'[i].state = "ACTIVE"
      /\ slots'[i].prio = slots[i].prio /\ slots'[i].data = slots[i].data
      /\ slots'[i].pos = IF active = 0 THEN 0 ELSE slots[i].pos
      /\ \A k \in Slots : k # i => slots'[k] = slots[k]
      /\ slots' \in [Slots -> SlotRecords]
  <2>1. CASE active = 0
    <3> DEFINE new == [slots[i] EXCEPT !.state = "ACTIVE", !.pos = 0]
    <3>1. slots' = [slots EXCEPT ![i] = new]
      BY <1>1, <1>3, <2>1 DEF PipeInv, PipeTypeOK
    <3>2. /\ new \in SlotRecords /\ new.state = "ACTIVE" /\ new.pos = 0
          /\ new.prio = slots[i].prio /\ new.data = slots[i].data
      BY <1>3, Activated
    <3> HIDE DEF new
    <3>3. slots \in [Slots -> SlotRecords]
      BY DEF PipeInv, PipeTypeOK, SlotRecords
    <3> QED
      BY <1>3, <2>1, <3>1, <3>2, <3>3
  <2>2. CASE active # 0
    BY <1>1, <1>2, <1>3, <2>2 DEF PipeInv, PipeTypeOK, LineAt, SlotRecords
  <2> QED
    BY <2>1, <2>2
<1>5. slots'[i].pos \in 0 .. FrameLen
  BY <1>4 DEF SlotRecords
<1>6. /\ slot' \in [Contexts -> 0 .. NSlots] /\ slot'[c] = i
      /\ pos' \in [Contexts -> 0 .. FrameLen] /\ pos'[c] = slots'[i].pos
      /\ \A d \in Contexts : d # c => slot'[d] = slot[d] /\ pos'[d] = pos[d]
  BY <1>1, <1>3, <1>5 DEF PipeInv, PipeTypeOK, Slots
<1>7. /\ at' \in [Contexts -> Places] /\ at'["isr"] \notin {"fill", "kick"}
      /\ at[c] = "refill" /\ at'[c] = "write"
      /\ \A d \in Contexts : d # c => at'[d] = at[d]
  BY <1>1, GoTyped DEF PipeInv, Places
<1>8. PipeTypeOK'
  BY <1>1, <1>3, <1>4, <1>6, <1>7 DEF PipeInv, PipeTypeOK, SlotRecords, Slots
<1>9. Exclusive'
  BY <1>1, <1>7 DEF PipeInv, Exclusive, Contexts
<1>10. Filling'
  <2> SUFFICES ASSUME at'["fg"] = "fill"
               PROVE  slot'["fg"] \in Slots /\ slots'[slot'["fg"]].state = "FILLING"
    BY DEF Filling
  <2>1. c = "isr" /\ at["fg"] = "fill" /\ slot'["fg"] = slot["fg"]
    BY <1>6, <1>7 DEF Contexts
  <2>2. slot["fg"] \in Slots /\ slots[slot["fg"]].state = "FILLING"
    BY <2>1 DEF PipeInv, Filling
  <2>3. slot["fg"] # i
    BY <1>2, <2>2 DEF PipeInv, LineAt
  <2> QED
    BY <1>4, <2>1, <2>2, <2>3
<1>11. LineAt'
  <2>1. i # 0 /\ i \in 0 .. NSlots
    BY <1>3 DEF Slots
  <2>2. active = 0 => line.octet \in {0, FrameLen} /\ slots'[i].pos = 0
    BY <1>4 DEF PipeInv, LineAt
  <2> QED
    BY <1>1, <1>2, <1>4, <2>1, <2>2, PipeAssumption DEF PipeInv, LineAt
<1>12. Writing'
  <2>1. \A d \in Contexts : d # c => at[d] # "write"
    BY <1>1, <1>7 DEF PipeInv, Exclusive, Contexts
  <2> QED
    BY <1>1, <1>3, <1>6, <1>7, <2>1 DEF Writing, Slots
<1>13. SlotLeft'
  <2>1. \A k \in Slots : /\ slots'[k].prio = slots[k].prio
                         /\ slots'[k].state = "FREE" <=> slots[k].state = "FREE"
    BY <1>2, <1>4 DEF PipeInv, LineAt
  <2> QED
    BY <2>1 DEF PipeInv, SlotLeft, Free
<1> QED
  BY <1>8, <1>9, <1>10, <1>11, <1>12, <1>13 DEF PipeInv

(* The octet a context writes is the next one of the frame on the line.    *)
LEMMA WriteStep ==
  ASSUME PipeInv, NEW c \in Contexts, RefillWrite(c)
  PROVE  /\ active \in Slots /\ slot[c] = active /\ pos[c] = slots[active].pos
         /\ pos[c] \in 0 .. FrameLen - 1
         /\ line' = [frame |-> slots[active].data, octet |-> pos[c] + 1]
         /\ pos[c] = 0 => line.octet \in {0, FrameLen}
         /\ pos[c] # 0 => line.frame = slots[active].data /\ line.octet = pos[c]
<1>1. at[c] = "write"
  BY DEF RefillWrite, Go
<1>2. active \in Slots /\ slot[c] = active /\ pos[c] = slots[active].pos
  BY <1>1 DEF PipeInv, Writing, PipeTypeOK, Slots
<1>3. pos[c] \in 0 .. FrameLen /\ pos[c] < FrameLen
  BY <1>2 DEF PipeInv, PipeTypeOK, LineAt, Slots
<1> QED
  BY <1>2, <1>3, PipeAssumption DEF RefillWrite, PipeInv, LineAt, Slots

LEMMA WriteKeeps ==
  ASSUME PipeInv, NEW c \in Contexts, RefillWrite(c)
  PROVE  PipeInv'
<1> DEFINE i == active
           last == pos[c] + 1 >= FrameLen
           new == IF last THEN FreeSlot ELSE [slots[i] EXCEPT !.pos = pos[c] + 1]
<1>1. /\ i \in Slots /\ slots[i] \in SlotRecords /\ slots[i].state = "ACTIVE"
      /\ pos[c] \in 0 .. FrameLen - 1
      /\ line' = [frame |-> slots[i].data, octet |-> pos[c] + 1]
  BY WriteStep DEF PipeInv, PipeTypeOK, LineAt, SlotRecords, Slots
<1>2. /\ fifo' = IF fifo < FifoDepth THEN fifo + 1 ELSE fifo
      /\ slots' = [slots EXCEPT ![i] = new]
      /\ active' = IF last THEN 0 ELSE active
      /\ slot' = [slot EXCEPT ![c] = 0] /\ pos' = [pos EXCEPT ![c] = 0]
      /\ UNCHANGED <<txffiena, pieier, pieifr>>
      /\ Go(c, "write", "refill") /\ (c = "isr" \/ at["isr"] = "out")
  BY WriteStep DEF RefillWrite, Runs, Foreground
<1>3. new \in SlotRecords
  <2>1. FreeSlot \in SlotRecords
    BY PipeAssumption DEF FreeSlot, SlotRecords, States, Prios
  <2>2. ~last => pos[c] + 1 \in 0 .. FrameLen
    BY <1>1, PipeAssumption
  <2> QED
    BY <1>1, <2>1, <2>2 DEF SlotRecords
<1>4. /\ last => new.state = "FREE" /\ pos[c] + 1 = FrameLen
      /\ ~last => /\ new.state = "ACTIVE" /\ new.pos = pos[c] + 1
                  /\ new.prio = slots[i].prio /\ new.data = slots[i].data
                  /\ pos[c] + 1 \in 1 .. FrameLen - 1
  BY <1>1, PipeAssumption DEF FreeSlot, SlotRecords
<1> HIDE DEF i, new, last
<1>5. /\ slots' \in [Slots -> SlotRecords] /\ slots'[i] = new
      /\ \A k \in Slots : k # i => slots'[k] = slots[k]
  BY <1>1, <1>2, <1>3 DEF PipeInv, PipeTypeOK, SlotRecords
<1>6. /\ at' \in [Contexts -> Places] /\ at'["isr"] \notin {"fill", "kick"}
      /\ at[c] = "write" /\ at'[c] = "refill"
      /\ \A d \in Contexts : d # c => at'[d] = at[d]
  BY <1>2, GoTyped DEF PipeInv, Places
<1>7. /\ slot' \in [Contexts -> 0 .. NSlots] /\ pos' \in [Contexts -> 0 .. FrameLen]
      /\ \A d \in Contexts : d # c => slot'[d] = slot[d]
  BY <1>2, PipeAssumption DEF PipeInv, PipeTypeOK
<1>8. PipeTypeOK'
  <2>1. fifo' \in 0 .. FifoDepth
    BY <1>2, PipeAssumption DEF PipeInv, PipeTypeOK
  <2>2. active' \in 0 .. NSlots
    BY <1>2, PipeAssumption DEF PipeInv, PipeTypeOK
  <2>3. line' \in [frame : Nat, octet : 0 .. FrameLen]
    BY <1>1, PipeAssumption DEF SlotRecords
  <2> QED
    BY <1>2, <1>5, <1>6, <1>7, <2>1, <2>2, <2>3 DEF PipeInv, PipeTypeOK, SlotRecords
<1>9. Exclusive'
  BY <1>2, <1>6 DEF PipeInv, Exclusive, Contexts
<1>10. Filling'
  <2> SUFFICES ASSUME at'["fg"] = "fill"
               PROVE  slot'["fg"] \in Slots /\ slots'[slot'["fg"]].state = "FILLING"
    BY DEF Filling
  <2>1. c = "isr" /\ at["fg"] = "fill" /\ slot'["fg"] = slot["fg"]
    BY <1>6, <1>7 DEF Contexts
  <2>2. slot["fg"] \in Slots /\ slots[slot["fg"]].state = "FILLING"
    BY <2>1 DEF PipeInv, Filling
  <2> QED
    BY <1>1, <1>5, <2>1, <2>2
<1>11. LineAt'
  <2>1. CASE last
    BY <1>1, <1>2, <1>4, <2>1 DEF LineAt
  <2>2. CASE ~last
    <3>1. /\ active' = i /\ i # 0 /\ slots'[active'] = new
      BY <1>1, <1>2, <1>5, <2>2 DEF Slots, i
    <3>2. new.state = "ACTIVE" /\ new.pos < FrameLen /\ new.pos # 0
      BY <1>4, <2>2, PipeAssumption
    <3>3. line'.frame = new.data /\ line'.octet = new.pos
      BY <1>1, <1>4, <2>2
    <3> QED
      BY <3>1, <3>2, <3>3 DEF LineAt
  <2> QED
    BY <2>1, <2>2
<1>12. Writing'
  <2>1. \A d \in Contexts : d # c => at[d] # "write"
    BY <1>2, <1>6 DEF PipeInv, Exclusive, Contexts
  <2> QED
    BY <1>6, <2>1 DEF Writing
<1>13. SlotLeft'
  <2>1. CASE last
    BY <1>1, <1>4, <1>5, <2>1 DEF SlotLeft, Free
  <2>2. CASE ~last
    <3>1. \A k \in Slots : /\ slots'[k].prio = slots[k].prio
                           /\ slots'[k].state = "FREE" <=> slots[k].state = "FREE"
      BY <1>1, <1>4, <1>5, <2>2
    <3> QED
      BY <3>1 DEF PipeInv, SlotLeft, Free
  <2> QED
    BY <2>1, <2>2
<1> QED
  BY <1>8, <1>9, <1>10, <1>11, <1>12, <1>13 DEF PipeInv

LEMMA EndsKeeps ==
  ASSUME PipeInv, NEW c \in Contexts, RefillEnds(c)
  PROVE  PipeInv'
<1>1. /\ UNCHANGED <<slots, active, fifo, txffiena, pieier, pieifr, slot, pos, line>>
      /\ Go(c, "refill", "update")
  BY DEF RefillEnds, hwVars
<1>2. /\ at' \in [Contexts -> Places] /\ at'["isr"] \notin {"fill", "kick"}
      /\ at[c] = "refill" /\ at'[c] = "update"
      /\ \A d \in Contexts : d # c => at'[d] = at[d]
  BY <1>1, GoTyped DEF PipeInv, Places
<1>3. PipeTypeOK' /\ Exclusive' /\ Filling' /\ Writing'
  BY <1>1, <1>2
     DEF PipeInv, PipeTypeOK, Exclusive, Filling, Writing, Contexts
<1> QED
  BY <1>1, <1>3, SlotsKept DEF PipeInv

LEMMA UpdateKeeps ==
  ASSUME PipeInv, NEW c \in Contexts, Update(c)
  PROVE  PipeInv'
<1>1. /\ UNCHANGED <<slots, active, fifo, slot, pos, line>>
      /\ Go(c, "update", "out") /\ pieier' = (c = "fg" \/ pieier)
  BY DEF Update
<1>2. /\ at' \in [Contexts -> Places] /\ at'["isr"] \notin {"fill", "kick"}
      /\ at[c] = "update" /\ at'[c] = "out"
      /\ \A d \in Contexts : d # c => at'[d] = at[d]
  BY <1>1, GoTyped DEF PipeInv, Places
<1>3. txffiena' \in BOOLEAN /\ pieifr' \in BOOLEAN
  BY DEF Update, HasData, Latched, PipeInv, PipeTypeOK
<1>4. pieier' \in BOOLEAN
  BY <1>1 DEF PipeInv, PipeTypeOK
<1>5. PipeTypeOK'
  BY <1>1, <1>2, <1>3, <1>4 DEF PipeInv, PipeTypeOK
<1>6. Exclusive'
  <2>1. CASE c = "fg"
    BY <1>2, <2>1 DEF Exclusive
  <2>2. CASE c = "isr"
    BY <1>1, <1>2, <2>2 DEF PipeInv, Exclusive, Contexts
  <2> QED
    BY <2>1, <2>2 DEF Contexts
<1>7. Filling' /\ Writing'
  BY <1>1, <1>2 DEF PipeInv, Filling, Writing, Contexts
<1> QED
  BY <1>1, <1>5, <1>6, <1>7, SlotsKept DEF PipeInv

LEMMA DrainKeeps ==
  ASSUME PipeInv, Drain
  PROVE  PipeInv'
<1>1. PipeTypeOK'
  <2>1. fifo' \in 0 .. FifoDepth
    BY PipeAssumption DEF Drain, PipeInv, PipeTypeOK
  <2>2. pieifr' \in BOOLEAN
    BY DEF Drain, Latched, PipeInv, PipeTypeOK
  <2> QED
    BY <2>1, <2>2 DEF Drain, PipeInv, PipeTypeOK
<1>2. Exclusive' /\ Filling' /\ Writing'
  BY DEF Drain, PipeInv, Exclusive, Filling, Writing
<1> QED
  BY <1>1, <1>2, SlotsKept DEF Drain, PipeInv

LEMMA TxIsrKeeps ==
  ASSUME PipeInv, TxIsr
  PROVE  PipeInv'
<1>1. /\ at' \in [Contexts -> Places] /\ at'["isr"] = "refill" /\ at'["fg"] = at["fg"]
      /\ at["isr"] = "out"
  BY GoTyped DEF TxIsr, PipeInv, Contexts, Places
<1>2. PipeTypeOK'
  BY <1>1 DEF TxIsr, PipeInv, PipeTypeOK
<1>3. Exclusive' /\ Filling' /\ Writing'
  BY <1>1 DEF TxIsr, PipeInv, Exclusive, Filling, Writing, Contexts
<1> QED
  BY <1>2, <1>3, SlotsKept DEF TxIsr, PipeInv

LEMMA PipeStepKeeps ==
  ASSUME PipeInv, PipeNext
  PROVE  PipeInv'
<1>1. CASE \E prio \in Prios : Submit(prio)
  BY <1>1, SubmitKeeps
<1>2. CASE Fill
  BY <1>2, FillKeeps
<1>3. CASE Kick
  BY <1>3, KickKeeps
<1>4. CASE \E c \in Contexts : Refill(c)
  BY <1>4, ReadKeeps, WriteKeeps, EndsKeeps, UpdateKeeps DEF Refill
<1>5. CASE TxIsr
  BY <1>5, TxIsrKeeps
<1>6. CASE Drain
  BY <1>6, DrainKeeps
<1> QED
  BY <1>1, <1>2, <1>3, <1>4, <1>5, <1>6
     DEF PipeNext, ForegroundStep, InterruptStep, Contexts
=============================================================================
