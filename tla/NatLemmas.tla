----------------------------- MODULE NatLemmas -----------------------------
(***************************************************************************)
(* Every nonempty set of naturals has a least element, and a bounded one a *)
(* greatest: what a CHOOSE of the oldest slot or of the last entry needs.  *)
(***************************************************************************)
EXTENDS Integers, WellFoundedInduction, TLAPS

LessOnNat == {p \in Nat \X Nat : p[1] < p[2]}

LEMMA LessIsWellFounded == IsWellFoundedOn(LessOnNat, Nat)
BY NatLessThanWellFounded DEF OpToRel, LessOnNat

(* The oldest frame in v2k_cpu2_board_pipe_tx_pick_pending exists.         *)
LEMMA LeastExists ==
  ASSUME NEW T, T \subseteq Nat, T # {}
  PROVE  \E x \in T : \A y \in T : x <= y
<1>1. PICK x \in T : \A y \in T : <<y, x>> \notin LessOnNat
  BY LessIsWellFounded, WFMin
<1>2. \A y \in T : x <= y
  <2> TAKE y \in T
  <2>1. x \in Nat /\ y \in Nat /\ <<y, x>> \in Nat \X Nat
    OBVIOUS
  <2> QED
    BY <1>1, <2>1 DEF LessOnNat
<1> QED
  BY <1>2

(* The entry that v2k_param_apply_ready writes last exists.                *)
LEMMA GreatestExists ==
  ASSUME NEW n \in Nat, NEW T, T \subseteq 0 .. n, T # {}
  PROVE  \E x \in T : \A y \in T : y <= x
<1> DEFINE U == {n - y : y \in T}
<1>1. U \subseteq Nat
  OBVIOUS
<1>2. U # {}
  <2>1. PICK w \in T : TRUE
    OBVIOUS
  <2>2. n - w \in U
    OBVIOUS
  <2> QED
    BY <2>2
<1>3. PICK u \in U : \A v \in U : u <= v
  <2> HIDE DEF U
  <2> QED
    BY <1>1, <1>2, LeastExists
<1>4. PICK x \in T : u = n - x
  OBVIOUS
<1>5. \A y \in T : n - x <= n - y
  BY <1>3, <1>4
<1> QED
  BY <1>5
=============================================================================
