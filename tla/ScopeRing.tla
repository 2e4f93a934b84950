----------------------------- MODULE ScopeRing -----------------------------
(***************************************************************************)
(* The index arithmetic of the scope ring (contracts/v2k_scope.h).  An     *)
(* index travels in [0, 2*capacity), so that an empty and a full ring are  *)
(* told apart for every capacity; the slot of an index is the index modulo *)
(* the capacity.  The arithmetic is that of uint16_t.                      *)
(***************************************************************************)
EXTENDS Integers

Uint16 == 65536

Indices(cap) == 0 .. 2 * cap - 1   \* where a published index may stand

\* v2k_ring_pos
RingPos(idx, cap) == IF idx >= cap THEN (idx - cap) % Uint16 ELSE idx

\* v2k_ring_next
RingNext(idx, cap) ==
  LET n == (idx + 1) % Uint16 IN IF n >= 2 * cap THEN 0 ELSE n

\* v2k_ring_dist: how far the writer is ahead of the reader
RingDist(wr, rd, cap) ==
  IF wr >= rd THEN wr - rd ELSE (wr + 2 * cap - rd) % Uint16

\* v2k_ring_back: n steps back
RingBack(idx, n, cap) ==
  IF idx >= n THEN idx - n ELSE (idx + 2 * cap - n) % Uint16

\* v2k_ring_add: n steps on
RingAdd(idx, n, cap) ==
  IF idx + n >= 2 * cap THEN (idx + n - 2 * cap) % Uint16 ELSE idx + n
=============================================================================
