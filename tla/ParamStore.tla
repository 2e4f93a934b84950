----------------------------- MODULE ParamStore -----------------------------
(***************************************************************************)
(* What the parameter plane promises (contracts/v2k_param.h): batches are  *)
(* decided one at a time in the order of their commit numbers; a batch     *)
(* whose entries are all legal takes effect as a whole at one instant, any *)
(* other leaves the variables alone; a START that restores the variables   *)
(* of the application is never mixed with a batch.  CalPlane implements    *)
(* it.                                                                     *)
(***************************************************************************)
EXTENDS Naturals, Sequences

CONSTANTS Writable, Default

VARIABLES
  batches,     \* the published batches, in order
  decided,     \* how many of them were applied or refused
  store,       \* the variables of the application
  restoring    \* a START is restoring them

Legal(b) == \A k \in DOMAIN b : b[k].addr \in Writable

\* The variables after the entries of b were written in order.
Written(m, b) ==
  [a \in Writable |->
     LET K == {k \in DOMAIN b : b[k].addr = a}
     IN IF K = {} THEN m[a] ELSE b[CHOOSE k \in K : \A j \in K : j <= k].val]

Init == batches = <<>> /\ decided = 0 /\ store = Default /\ restoring = FALSE

\* The next batch is published only when the last one was decided.
Publish ==
  /\ decided = Len(batches) /\ Len(batches') = Len(batches) + 1
  /\ \A s \in 1 .. Len(batches) : batches'[s] = batches[s]
  /\ UNCHANGED <<decided, store, restoring>>

Apply ==
  /\ decided < Len(batches) /\ Legal(batches[decided + 1]) /\ ~restoring
  /\ decided' = decided + 1
  /\ store' = Written(store, batches[decided + 1])
  /\ UNCHANGED <<batches, restoring>>

Refuse ==
  /\ decided < Len(batches) /\ ~Legal(batches[decided + 1])
  /\ decided' = decided + 1
  /\ UNCHANGED <<batches, store, restoring>>

BeginRestore ==
  ~restoring /\ restoring' = TRUE /\ store' = Default /\ UNCHANGED <<batches, decided>>

EndRestore ==
  restoring /\ restoring' = FALSE /\ UNCHANGED <<batches, decided, store>>

Next == Publish \/ Apply \/ Refuse \/ BeginRestore \/ EndRestore

Spec == Init /\ [][Next]_<<batches, decided, store, restoring>>
=============================================================================
