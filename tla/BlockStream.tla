---------------------------- MODULE BlockStream ----------------------------
(***************************************************************************)
(* What the scope promises of a stream (contracts/v2k_scope.h:7-14, 49-51, *)
(* 117): a bounded queue of blocks between the two cores, without locks.   *)
(* Blocks take consecutive numbers and NTicks ticks each; one that finds   *)
(* no room is lost as a whole, and its number with it; what is kept is     *)
(* sent once and in order; a stream begins with nothing unsent.  Scope     *)
(* implements it.                                                          *)
(***************************************************************************)
EXTENDS Integers, Sequences

CONSTANTS NTicks, None

VARIABLES
  open,      \* CPU2 follows the stream CPU1 writes
  size,      \* how many blocks the queue holds
  num, at,   \* number and first tick of the block being filled
  queue,     \* the blocks kept and not sent yet
  last       \* the block that was sent last

vars == <<open, size, num, at, queue, last>>

Closed ==
  open = FALSE /\ size = 0 /\ num = 0 /\ at = 0 /\ queue = <<>> /\ last = None

Init == Closed

Open ==
  /\ ~open /\ open' = TRUE
  /\ size' \in Nat \ {0} /\ num' \in Nat /\ at' \in Int
  /\ queue' = <<>> /\ last' = None

\* The next block takes the next number, lost or kept.
NextBlock == num' = num + 1 /\ at' = at + NTicks /\ UNCHANGED <<open, size, last>>

Keep ==
  /\ open /\ Len(queue) < size
  /\ queue' = Append(queue, [start |-> at, seq |-> num]) /\ NextBlock

Lose == open /\ UNCHANGED queue /\ NextBlock

Send ==
  /\ open /\ queue # <<>>
  /\ last' = Head(queue) /\ queue' = Tail(queue) /\ UNCHANGED <<open, size, num, at>>

Close == open /\ Closed'

Next == Open \/ Keep \/ Lose \/ Send \/ Close

Spec == Init /\ [][Next]_vars
=============================================================================
