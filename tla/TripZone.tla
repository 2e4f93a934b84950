------------------------------ MODULE TripZone ------------------------------
(***************************************************************************)
(* The shutdown hardware of one motor output stage, as the board driver    *)
(* cpu1/board/v2k_board_pwm.c programs it: the ePWM one-shot latch (OST),  *)
(* its interrupt flag, the two interrupt enables above it, and the board   *)
(* operations that touch them.  The three ePWM modules are always written  *)
(* together, so one latch stands for all of them.                          *)
(*                                                                         *)
(* The silicon itself is external to the repository; its rules are the     *)
(* ones the comments and the code of src/cpu1 rely on:                     *)
(*   - an asserted source latches OST; clearing OST while the source is    *)
(*     still asserted latches it again;                                    *)
(*   - with TZEINT.OST enabled, a latched OST sets TZFLG.INT whenever INT  *)
(*     is clear, and setting INT sets PIEIFR;                              *)
(*   - PIEIFR is cleared only by taking the interrupt.                     *)
(***************************************************************************)

VARIABLES
  nFault,       \* the DRV8323 nFAULT pin asserts TZ1 (a level)
  overCurrent,  \* the CMPSS/ADC current window is violated (a level)
  ost,          \* TZFLG.OST: the outputs are forced low
  dcFlag,       \* TZOSTFLG.DCAEVT1/DCBEVT1: a current trip latched OST
  tzInt,        \* TZFLG.INT
  tzEint,       \* TZEINT.OST
  pieIfr,       \* PIEIFR of INT_EPWM1_TZ
  pieIer,       \* PIEIER of INT_EPWM1_TZ
  tripArmed     \* s_current_trip_armed: DCxEVT1 selected into OST

inputVars == <<nFault, overCurrent>>
tzVars    == <<ost, dcFlag, tzInt, tzEint, pieIfr, pieIer, tripArmed>>

TripZoneTypeOK ==
  /\ nFault \in BOOLEAN /\ overCurrent \in BOOLEAN
  /\ ost \in BOOLEAN /\ dcFlag \in BOOLEAN
  /\ tzInt \in BOOLEAN /\ tzEint \in BOOLEAN
  /\ pieIfr \in BOOLEAN /\ pieIer \in BOOLEAN
  /\ tripArmed \in BOOLEAN

-----------------------------------------------------------------------------
(* A latched OST (o) under the enable e with INT flag i raises the flags.  *)
Forward(o, i, e) ==
  /\ tzInt' = (i \/ (e /\ o))
  /\ pieIfr' = (pieIfr \/ (e /\ o /\ ~i))

(* An asserted source that is routed into OST.                             *)
SourceActive == nFault \/ (tripArmed /\ overCurrent)

-----------------------------------------------------------------------------
(* Board operations; each leaves the input levels alone.                   *)

\* v2k_board_pwm_clear_trip_interrupt
ClearInterruptFlag ==
  /\ Forward(ost, FALSE, tzEint)
  /\ UNCHANGED <<ost, dcFlag, tzEint, pieIer, tripArmed>>

\* v2k_board_pwm_force_ost_all followed by v2k_board_pwm_disarm_current_trip
ForceAndDisarm ==
  /\ ost' = TRUE
  /\ Forward(TRUE, tzInt, tzEint)
  /\ tripArmed' = FALSE
  /\ dcFlag' = FALSE
  /\ UNCHANGED <<tzEint, pieIer>>

\* v2k_board_pwm_disarm_current_trip, its register read-back succeeding
Disarm ==
  /\ tripArmed' = FALSE
  /\ dcFlag' = FALSE
  /\ UNCHANGED <<ost, tzInt, tzEint, pieIfr, pieIer>>

\* v2k_board_pwm_arm_current_trip with all three currents inside the window
Arm ==
  /\ ~overCurrent
  /\ tripArmed' = TRUE
  /\ dcFlag' = FALSE
  /\ UNCHANGED <<ost, tzInt, tzEint, pieIfr, pieIer>>

\* The body of v2k_board_pwm_release_output_lock is two steps: a trip may
\* land between clearing OST and reading it back.
ReleaseRefused == tripArmed /\ dcFlag

ClearOst ==
  /\ ost' = SourceActive
  /\ dcFlag' = (dcFlag \/ (tripArmed /\ overCurrent))
  /\ Forward(SourceActive, FALSE, tzEint)
  /\ UNCHANGED <<tzEint, pieIer, tripArmed>>

ReleaseFailed == (tripArmed /\ dcFlag) \/ ost

ForceOst ==
  /\ ost' = TRUE
  /\ Forward(TRUE, tzInt, tzEint)
  /\ UNCHANGED <<dcFlag, tzEint, pieIer, tripArmed>>

\* The two halves of v2k_board_pwm_enable_trip_irq and _disable_trip_irq.
EnableEint ==
  /\ tzEint' = TRUE
  /\ Forward(ost, tzInt, TRUE)
  /\ UNCHANGED <<ost, dcFlag, pieIer, tripArmed>>

EnableIer ==
  /\ pieIer' = TRUE
  /\ UNCHANGED <<ost, dcFlag, tzInt, tzEint, pieIfr, tripArmed>>

DisableIer ==
  /\ pieIer' = FALSE
  /\ UNCHANGED <<ost, dcFlag, tzInt, tzEint, pieIfr, tripArmed>>

DisableEintForgotten == UNCHANGED tzVars   \* slip: TZEINT.OST stays on

DisableEint ==
  /\ tzEint' = FALSE
  /\ UNCHANGED <<ost, dcFlag, tzInt, pieIfr, pieIer, tripArmed>>

\* What the TZ interrupt does to the hardware: the vector fetch takes the
\* PIE flag, fault_latch disables both levels, the acknowledge clears INT.
TakeTripInterrupt ==
  /\ pieIfr' = FALSE
  /\ pieIer' = FALSE
  /\ tzEint' = FALSE
  /\ tzInt' = FALSE
  /\ UNCHANGED <<ost, dcFlag, tripArmed>>

\* An interrupt the CPU takes before the next background instruction.
TripIrqPending == pieIer /\ pieIfr

-----------------------------------------------------------------------------
(* The environment: the two trip sources come and go.                      *)

FaultPinAsserts ==
  /\ ~nFault
  /\ nFault' = TRUE
  /\ ost' = TRUE
  /\ Forward(TRUE, tzInt, tzEint)
  /\ UNCHANGED <<overCurrent, dcFlag, tzEint, pieIer, tripArmed>>

CurrentLeavesWindow ==
  /\ ~overCurrent
  /\ overCurrent' = TRUE
  /\ ost' = (ost \/ tripArmed)
  /\ dcFlag' = (dcFlag \/ tripArmed)
  /\ Forward(ost \/ tripArmed, tzInt, tzEint)
  /\ UNCHANGED <<nFault, tzEint, pieIer, tripArmed>>

SourceReleases ==
  /\ \/ nFault /\ nFault' = FALSE /\ UNCHANGED overCurrent
     \/ overCurrent /\ overCurrent' = FALSE /\ UNCHANGED nFault
  /\ UNCHANGED tzVars
=============================================================================
