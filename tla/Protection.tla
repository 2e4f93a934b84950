----------------------------- MODULE Protection -----------------------------
(***************************************************************************)
(* What the protection layer promises, in the words of the state machine   *)
(* of contracts/v2k_command.h: IDLE and FAULT have the outputs locked, the *)
(* lock opens only inside RUNNING, and RUNNING is left only through a      *)
(* locked state.  FaultLatch implements it.                                *)
(***************************************************************************)
VARIABLES mode, locked

Init == mode = "IDLE" /\ locked = TRUE

\* A START is granted before the lock is opened.
Grant   == mode = "IDLE" /\ mode' = "RUNNING" /\ UNCHANGED locked
Open    == mode = "RUNNING" /\ locked' = FALSE /\ UNCHANGED mode
Close   == mode = "RUNNING" /\ locked' = TRUE /\ UNCHANGED mode
\* A latched trip is recorded, or a STOP completes, behind a closed lock.
Record  == mode = "RUNNING" /\ locked /\ mode' = "FAULT" /\ UNCHANGED locked
Finish  == mode = "RUNNING" /\ locked /\ mode' = "IDLE" /\ UNCHANGED locked
Clear   == mode = "FAULT" /\ mode' = "IDLE" /\ UNCHANGED locked

Next == Grant \/ Open \/ Close \/ Record \/ Finish \/ Clear

Spec == Init /\ [][Next]_<<mode, locked>>
=============================================================================
