------------------------------- MODULE TxPipe -------------------------------
(***************************************************************************)
(* The transmit pipe of CPU2 (cpu2/v2k_cpu2_board.c): a few frame slots, a *)
(* hardware FIFO, and two contexts that refill the FIFO from the slots:    *)
(* the foreground when it submits a frame ("fg"), and the transmit         *)
(* interrupt ("isr"), which preempts it.  One refill is a loop of two      *)
(* steps, the reading of the octet's place and the writing of the octet    *)
(* with the new place, so that a refill inside a refill can be told.       *)
(* A frame is the number of its submission and FrameLen octets.            *)
(***************************************************************************)
EXTENDS Integers, FiniteSets

CONSTANTS
  NSlots,     \* V2K_CPU2_PIPE_TX_FRAME_SLOTS
  FrameLen,   \* octets of a frame
  FifoDepth,  \* SCI_FIFO_TX16
  FifoLevel   \* SCI_FIFO_TX8: the FIFO asks for more at this fill or below

ASSUME PipeAssumption ==
  /\ NSlots \in Nat \ {0, 1} /\ FrameLen \in Nat \ {0}
  /\ FifoDepth \in Nat \ {0} /\ FifoLevel \in 0 .. FifoDepth - 1

VARIABLES
  slots, active,    \* s_pipe_tx_slots; s_pipe_tx_active, 0 for none
  fifo,             \* octets in the FIFO
  txffiena, pieier, pieifr,  \* TXFFIENA, PIEIER9.2 and PIEIFR9.2
  at,               \* where each context is in the pipe
  slot, pos,        \* each context's locals in the refill loop
  line              \* history: the last octet written of a frame that is not
                    \* at its end

pipeVars == <<slots, active, fifo, txffiena, pieier, pieifr, at, slot,
              pos, line>>
hwVars   == <<fifo, txffiena, pieier, pieifr>>

Slots    == 1 .. NSlots
Contexts == {"fg", "isr"}
Prios    == {"NORMAL", "HIGH"}
States   == {"FREE", "FILLING", "PENDING", "ACTIVE"}
Places   == {"out", "fill", "kick", "refill", "write", "update"}

\* What a free slot holds is never read: it is blank.
FreeSlot == [state |-> "FREE", prio |-> "NORMAL", pos |-> 0, order |-> 0, data |-> 0]

NoOctet  == [frame |-> 0, octet |-> 0]

PipeInit ==
  /\ slots = [i \in Slots |-> FreeSlot]
  /\ active = 0 /\ fifo = 0
  /\ txffiena = FALSE /\ pieier = TRUE /\ pieifr = FALSE
  /\ at = [c \in Contexts |-> "out"]
  /\ slot = [c \in Contexts |-> 0] /\ pos = [c \in Contexts |-> 0]
  /\ line = NoOctet

PipeTypeOK ==
  /\ slots \in [Slots -> [state : States, prio : Prios, pos : 0 .. FrameLen,
                          order : Nat, data : Nat]]
  /\ active \in 0 .. NSlots /\ fifo \in 0 .. FifoDepth
  /\ txffiena \in BOOLEAN /\ pieier \in BOOLEAN /\ pieifr \in BOOLEAN
  /\ at \in [Contexts -> Places] /\ at["isr"] \notin {"fill", "kick"}
  /\ slot \in [Contexts -> 0 .. NSlots] /\ pos \in [Contexts -> 0 .. FrameLen]
  /\ line \in [frame : Nat, octet : 0 .. FrameLen]

-----------------------------------------------------------------------------
(* Submitting a frame, in the foreground.                                  *)

Free == {i \in Slots : slots[i].state = "FREE"}

\* Mutant: pushes may take the last slot.
CanSubmitAny(prio) == Free # {}

\* Pushes of normal priority leave one slot for responses and replays.
CanSubmit(prio) == IF prio = "HIGH" THEN Free # {} ELSE Cardinality(Free) > 1

\* The foreground runs: no interrupt preempts it.
Foreground == at["isr"] = "out"
Go(c, from, to) == at[c] = from /\ at' = [at EXCEPT ![c] = to]

\* s_pipe_tx_submit_order counts submissions; only the order of the slots that
\* are not free is ever compared, so it goes on from the newest of them.
NextOrder ==
  LET O == {slots[i].order : i \in Slots} IN 1 + CHOOSE n \in O : \A m \in O : m <= n

Submit(prio) ==
  /\ Foreground /\ Go("fg", "out", "fill") /\ CanSubmit(prio)
  /\ LET i == CHOOSE j \in Free : \A k \in Free : j <= k
     IN /\ slots' = [slots EXCEPT ![i] = [@ EXCEPT !.state = "FILLING",
                       !.prio = prio, !.pos = 0, !.order = NextOrder]]
        /\ slot' = [slot EXCEPT !["fg"] = i]
  /\ UNCHANGED <<active, hwVars, pos, line>>

\* The octets are copied before the slot is offered to the refill.
Fill ==
  /\ Foreground /\ Go("fg", "fill", "kick")
  /\ LET i == slot["fg"]
     IN slots' = [slots EXCEPT ![i].state = "PENDING", ![i].data = slots[i].order]
  /\ slot' = [slot EXCEPT !["fg"] = 0]
  /\ UNCHANGED <<active, hwVars, pos, line>>

\* Mutant: only the peripheral enable is cleared, not the PIE level.
KickTxffOnly ==
  /\ Foreground /\ Go("fg", "kick", "refill")
  /\ txffiena' = FALSE
  /\ UNCHANGED <<slots, active, fifo, pieier, pieifr, slot, pos, line>>

\* The interrupt is masked at the PIE for the whole refill; a request that is
\* latched stays latched.
Kick ==
  /\ Foreground /\ Go("fg", "kick", "refill")
  /\ pieier' = FALSE /\ txffiena' = FALSE
  /\ UNCHANGED <<slots, active, fifo, pieifr, slot, pos, line>>

-----------------------------------------------------------------------------
(* The refill, in either context.                                          *)

Runs(c) == c = "isr" \/ Foreground
Pending(p) == {i \in Slots : slots[i].state = "PENDING" /\ slots[i].prio = p}

\* Mutant: the lowest slot, whatever its priority and its age.
NextSlotAny ==
  LET P == Pending("HIGH") \cup Pending("NORMAL")
  IN IF active # 0 THEN active
     ELSE IF P = {} THEN 0 ELSE CHOOSE i \in P : \A j \in P : i <= j

\* select_active: the active slot, else the oldest response, else the oldest
\* push; 0 if there is none.
NextSlot ==
  LET P == IF Pending("HIGH") # {} THEN Pending("HIGH") ELSE Pending("NORMAL")
  IN IF active # 0 THEN active
     ELSE IF P = {} THEN 0
     ELSE CHOOSE i \in P : \A j \in P : slots[i].order <= slots[j].order

RefillRead(c) ==
  /\ Runs(c) /\ fifo < FifoDepth /\ NextSlot # 0 /\ Go(c, "refill", "write")
  /\ active' = NextSlot /\ slot' = [slot EXCEPT ![c] = NextSlot]
  /\ slots' = IF active = 0
              THEN [slots EXCEPT ![NextSlot].state = "ACTIVE", ![NextSlot].pos = 0]
              ELSE slots
  /\ pos' = [pos EXCEPT ![c] = slots'[NextSlot].pos]
  /\ UNCHANGED <<hwVars, line>>

RefillWrite(c) ==
  /\ Runs(c) /\ Go(c, "write", "refill")
  /\ LET i == slot[c]
         s == slots[i]
         last == pos[c] + 1 >= FrameLen
     IN /\ fifo' = IF fifo < FifoDepth THEN fifo + 1 ELSE fifo
        /\ slots' = [slots EXCEPT ![i] = IF last THEN FreeSlot
                                         ELSE [s EXCEPT !.pos = pos[c] + 1]]
        /\ active' = IF last THEN 0 ELSE active
        /\ slot' = [slot EXCEPT ![c] = 0] /\ pos' = [pos EXCEPT ![c] = 0]
        /\ line' = [frame |-> s.data, octet |-> pos[c] + 1]
  /\ UNCHANGED <<txffiena, pieier, pieifr>>

RefillEnds(c) ==
  /\ Runs(c) /\ Go(c, "refill", "update") /\ (fifo = FifoDepth \/ NextSlot = 0)
  /\ UNCHANGED <<slots, active, hwVars, slot, pos, line>>

\* Mutant: only the frame being sent asks for the interrupt.
HasDataActive == active # 0

HasData == active # 0 \/ \E i \in Slots : slots[i].state = "PENDING"

\* A FIFO at its level or below asks for the interrupt when that is enabled;
\* the PIE latches the request.
Latched(ena, fill) == pieifr \/ (ena /\ fill <= FifoLevel)

\* Mutant: the foreground leaves the interrupt masked.
UpdateMasked(c) ==
  /\ Runs(c) /\ Go(c, "update", "out")
  /\ txffiena' = HasData /\ pieifr' = Latched(HasData, fifo)
  /\ UNCHANGED <<slots, active, fifo, pieier, slot, pos, line>>

\* update_interrupt and the way out of the context; the foreground unmasks the
\* interrupt.
Update(c) ==
  /\ Runs(c) /\ Go(c, "update", "out")
  /\ txffiena' = HasData /\ pieifr' = Latched(HasData, fifo)
  /\ pieier' = (c = "fg" \/ pieier)
  /\ UNCHANGED <<slots, active, fifo, slot, pos, line>>

Refill(c) == RefillRead(c) \/ RefillWrite(c) \/ RefillEnds(c) \/ Update(c)

-----------------------------------------------------------------------------
(* The hardware.                                                           *)

\* The line takes an octet.
Drain ==
  /\ fifo > 0 /\ fifo' = fifo - 1 /\ pieifr' = Latched(txffiena, fifo - 1)
  /\ UNCHANGED <<slots, active, txffiena, pieier, at, slot, pos, line>>

\* The interrupt is taken.
TxIsr ==
  /\ pieifr /\ pieier /\ pieifr' = FALSE /\ Go("isr", "out", "refill")
  /\ UNCHANGED <<slots, active, fifo, txffiena, pieier, slot, pos, line>>

ForegroundStep == Fill \/ Kick \/ Refill("fg")
InterruptStep  == TxIsr \/ Refill("isr")
=============================================================================
