-------------------------- MODULE FaultLatchProofs --------------------------
(***************************************************************************)
(* Proofs about FaultLatch, for every MaxCmds and every board.             *)
(***************************************************************************)
EXTENDS FaultLatch, TLAPS

(* The protection layer of v2k_fault.c never writes a value outside its    *)
(* enumerations: every action keeps every variable in its range.           *)
LEMMA ValuesStep == ValuesOK /\ [Next]_vars => ValuesOK'
<1> SUFFICES ASSUME ValuesOK, [Next]_vars PROVE ValuesOK'
  OBVIOUS
<1> USE DEF ValuesOK, Pcs, StartPcs, StopPcs, States, Codes,
            Results, Cmds, Phases, inputVars, tzVars, smVars, cmdVars, pubVars,
            hostVars, boardVars, userVars, powerVars, At, Goto
<1>1. CASE Service
  BY <1>1 DEF Service, Disarm, DrvOff
<1>2. CASE PollIdle \/ PollPending \/ PollWake \/ PollReady
  BY <1>2 DEF PollIdle, PollPending, PollWake, PollReady, BeginPoll, NotPolling
<1>3. CASE PollFailed
  BY <1>3 DEF PollFailed, BeginPoll, FailStart, Disarm, DrvOff
<1>4. CASE PollArm
  BY <1>4 DEF PollArm, BeginPoll, Arm
<1>5. CASE Prepare \/ RestoreDone \/ Setup
  BY <1>5 DEF Prepare, RestoreDone, Setup
<1>6. CASE RestoreFails
  BY <1>6 DEF RestoreFails, CancelStart, ForceAndDisarm, Forward, DrvOff
<1>7. CASE Release
  BY <1>7 DEF Release, ClearInterruptFlag, Forward
<1>8. CASE ReleaseClear
  BY <1>8 DEF ReleaseClear, OnlyTripZone, ReleaseRefused, ClearOst, SourceActive,
              Forward
<1>9. CASE ReleaseRecheck
  BY <1>9 DEF ReleaseRecheck, OnlyTripZone, ReleaseFailed, ForceOst, Forward
<1>10. CASE StartEnableEint \/ StartEnableIer
  BY <1>10 DEF StartEnableEint, StartEnableIer, OnlyTripZone, EnableEint,
               EnableIer, Forward
<1>11. CASE StartCheck
  BY <1>11 DEF StartCheck, Latch, UserDisable
<1>12. CASE StartAck \/ StartResult
  BY <1>12 DEF StartAck, StartResult
<1>13. CASE DispatchNothing
  BY <1>13 DEF DispatchNothing
<1>14. CASE DispatchRefuse
  BY <1>14 DEF DispatchRefuse, BeginDispatch, Complete
<1>15. CASE DispatchStart
  BY <1>15 DEF DispatchStart, BeginDispatch, ForceAndDisarm, Forward, DrvOff
<1>16. CASE DispatchStop
  BY <1>16 DEF DispatchStop, BeginDispatch
<1>17. CASE DispatchClear
  BY <1>17 DEF DispatchClear, BeginDispatch, Complete, ClearInterruptFlag, Forward
<1>18. CASE StopNeutral \/ StopDisableIer \/ StopDisableEint
  BY <1>18 DEF StopNeutral, StopDisableIer, StopDisableEint, StopStep, DisableIer,
               DisableEint
<1>19. CASE StopForceLock
  BY <1>19 DEF StopForceLock, StopStep, CancelStart, ForceAndDisarm, Forward, DrvOff
<1>20. CASE StopClearFlag
  BY <1>20 DEF StopClearFlag, StopStep, ClearInterruptFlag, Forward
<1>21. CASE StopToIdle
  BY <1>21 DEF StopToIdle, CancelStart, ForceAndDisarm, Forward, DrvOff
<1>22. CASE CommandAck \/ CommandResult \/ PublishState \/ PublishCode
  BY <1>22 DEF CommandAck, CommandResult, PublishState, PublishCode
<1>23. CASE TzIsr
  BY <1>23 DEF TzIsr, TripIrqPending, Latch, UserDisable, TakeTripInterrupt
<1>24. CASE ControlIsr
  BY <1>24 DEF ControlIsr, ParamApplies, ControlRuns
<1>25. CASE Trip
  BY <1>25 DEF Trip, FaultPinAsserts, CurrentLeavesWindow, OutsideBackground,
               Forward
<1>26. CASE TripSourceReleases \/ DrvTimerElapse \/ DrvTimerWrap
  BY <1>26 DEF TripSourceReleases, SourceReleases, DrvTimerElapse, DrvTimerWrap,
               OutsideBackground
<1>27. CASE HostCommand
  BY <1>27 DEF HostCommand, OutsideBackground
<1>28. CASE UNCHANGED vars
  BY <1>28 DEF vars
<1> QED
  BY <1>1, <1>2, <1>3, <1>4, <1>5, <1>6, <1>7, <1>8, <1>9, <1>10, <1>11, <1>12,
     <1>13, <1>14, <1>15, <1>16, <1>17, <1>18, <1>19, <1>20, <1>21, <1>22, <1>23,
     <1>24, <1>25, <1>26, <1>27, <1>28 DEF Next, Background

(* Each board operation of v2k_board_pwm.c keeps the trip-zone registers    *)
(* well typed.                                                             *)
LEMMA TripZoneOperations ==
  ASSUME TripZoneTypeOK, UNCHANGED inputVars,
         \/ UNCHANGED tzVars
         \/ ClearInterruptFlag \/ ForceAndDisarm \/ Disarm \/ Arm
         \/ ClearOst \/ ForceOst \/ EnableEint \/ EnableIer \/ DisableIer
         \/ DisableEint \/ TakeTripInterrupt
  PROVE  TripZoneTypeOK'
<1> USE DEF TripZoneTypeOK, inputVars, tzVars, Forward
<1>1. CASE UNCHANGED tzVars
  BY <1>1
<1>2. CASE ClearInterruptFlag \/ ForceAndDisarm
  BY <1>2, Zenon DEF ClearInterruptFlag, ForceAndDisarm
<1>3. CASE Disarm \/ Arm
  BY <1>3, Zenon DEF Disarm, Arm
<1>4. CASE ClearOst
  BY <1>4 DEF ClearOst, SourceActive
<1>5. CASE ForceOst
  BY <1>5, Zenon DEF ForceOst
<1>6. CASE EnableEint
  BY <1>6, Zenon DEF EnableEint
<1>7. CASE EnableIer
  BY <1>7, Zenon DEF EnableIer
<1>8. CASE DisableIer \/ DisableEint
  BY <1>8, Zenon DEF DisableIer, DisableEint
<1>9. CASE TakeTripInterrupt
  BY <1>9, Zenon DEF TakeTripInterrupt
<1> QED
  BY <1>1, <1>2, <1>3, <1>4, <1>5, <1>6, <1>7, <1>8, <1>9

(* The trip-zone registers stay well typed: every step either uses a board *)
(* operation or is a trip, a release of a source, or the latch's own       *)
(* switching off of both interrupt levels.                                 *)
LEMMA TripZoneStep == TripZoneTypeOK /\ [Next]_vars => TripZoneTypeOK'
<1> SUFFICES ASSUME TripZoneTypeOK, [Next]_vars PROVE TripZoneTypeOK'
  OBVIOUS
<1>1. CASE Service \/ PollIdle \/ PollPending \/ PollWake \/ PollReady \/ PollFailed
          \/ PollArm
  BY <1>1, TripZoneOperations
     DEF Service, PollIdle, PollPending, PollWake, PollReady, PollFailed, PollArm,
         BeginPoll, NotPolling, FailStart
<1>2. CASE Prepare \/ RestoreDone \/ RestoreFails \/ Setup \/ Release
  BY <1>2, TripZoneOperations
     DEF Prepare, RestoreDone, RestoreFails, Setup, Release, CancelStart
<1>3. CASE ReleaseClear \/ ReleaseRecheck \/ StartEnableEint \/ StartEnableIer
  BY <1>3, TripZoneOperations
     DEF ReleaseClear, ReleaseRecheck, StartEnableEint, StartEnableIer, OnlyTripZone
<1>4. CASE StartCheck
  <2>1. CASE ~relOk \/ ost \/ dcFlag
    BY <1>4, <2>1, Zenon DEF StartCheck, TripZoneTypeOK, inputVars
  <2>2. CASE ~(~relOk \/ ost \/ dcFlag)
    BY <1>4, <2>2, TripZoneOperations DEF StartCheck
  <2> QED
    BY <2>1, <2>2
<1>5. CASE StartAck \/ StartResult \/ DispatchNothing \/ DispatchRefuse
          \/ DispatchStart \/ DispatchStop \/ DispatchClear
  BY <1>5, TripZoneOperations
     DEF StartAck, StartResult, DispatchNothing, DispatchRefuse, DispatchStart,
         DispatchStop, DispatchClear, BeginDispatch
<1>6. CASE StopNeutral \/ StopDisableIer \/ StopDisableEint \/ StopForceLock
          \/ StopClearFlag \/ StopToIdle
  BY <1>6, TripZoneOperations
     DEF StopNeutral, StopDisableIer, StopDisableEint, StopForceLock, StopClearFlag,
         StopToIdle, StopStep, CancelStart
<1>7. CASE CommandAck \/ CommandResult \/ PublishState \/ PublishCode \/ TzIsr
          \/ ControlIsr \/ DrvTimerElapse \/ DrvTimerWrap \/ HostCommand
  BY <1>7, TripZoneOperations
     DEF CommandAck, CommandResult, PublishState, PublishCode, TzIsr, ControlIsr,
         DrvTimerElapse, DrvTimerWrap, HostCommand
<1>8. CASE Trip
  BY <1>8, Zenon DEF Trip, FaultPinAsserts, CurrentLeavesWindow, TripZoneTypeOK,
                     Forward
<1>9. CASE TripSourceReleases
  BY <1>9, Zenon DEF TripSourceReleases, SourceReleases, TripZoneTypeOK, tzVars
<1>10. CASE UNCHANGED vars
  BY <1>10, TripZoneOperations DEF vars
<1> QED
  BY <1>1, <1>2, <1>3, <1>4, <1>5, <1>6, <1>7, <1>8, <1>9, <1>10
     DEF Next, Background

(* A flag of the background, of the user runtime or of the power stage     *)
(* never holds anything but TRUE or FALSE.                                 *)
LEMMA FlagsStep == FlagsOK /\ [Next]_vars => FlagsOK'
<1> SUFFICES ASSUME FlagsOK, [Next]_vars PROVE FlagsOK'
  OBVIOUS
<1> USE DEF FlagsOK, cmdVars, userVars, powerVars
<1>1. CASE Service
  BY <1>1, Zenon DEF Service, DrvOff
<1>2. CASE PollIdle
  BY <1>2, Zenon DEF PollIdle, BeginPoll, NotPolling
<1>3. CASE PollPending
  BY <1>3, Zenon DEF PollPending, BeginPoll, NotPolling
<1>4. CASE PollWake
  BY <1>4, Zenon DEF PollWake, BeginPoll, NotPolling
<1>5. CASE PollReady
  BY <1>5, Zenon DEF PollReady, BeginPoll, NotPolling
<1>6. CASE PollFailed
  BY <1>6, Zenon DEF PollFailed, BeginPoll, FailStart, DrvOff
<1>7. CASE PollArm
  BY <1>7, Zenon DEF PollArm, BeginPoll
<1>8. CASE Prepare
  BY <1>8, Zenon DEF Prepare
<1>9. CASE RestoreDone
  BY <1>9, Zenon DEF RestoreDone
<1>10. CASE Setup
  BY <1>10, Zenon DEF Setup
<1>11. CASE RestoreFails
  BY <1>11, Zenon DEF RestoreFails, CancelStart, DrvOff
<1>12. CASE Release
  BY <1>12, Zenon DEF Release
<1>13. CASE ReleaseClear
  BY <1>13, Zenon DEF ReleaseClear, OnlyTripZone
<1>14. CASE ReleaseRecheck
  BY <1>14, Zenon DEF ReleaseRecheck, OnlyTripZone
<1>15. CASE StartEnableEint
  BY <1>15, Zenon DEF StartEnableEint, OnlyTripZone
<1>16. CASE StartEnableIer
  BY <1>16, Zenon DEF StartEnableIer, OnlyTripZone
<1>17. CASE StartCheck
  BY <1>17, Zenon DEF StartCheck, Latch, UserDisable
<1>18. CASE StartAck
  BY <1>18, Zenon DEF StartAck
<1>19. CASE StartResult
  BY <1>19, Zenon DEF StartResult
<1>20. CASE DispatchNothing
  BY <1>20, Zenon DEF DispatchNothing
<1>21. CASE DispatchRefuse
  BY <1>21, Zenon DEF DispatchRefuse, BeginDispatch, Complete
<1>22. CASE DispatchStart
  BY <1>22, Zenon DEF DispatchStart, BeginDispatch, DrvOff
<1>23. CASE DispatchStop
  BY <1>23, Zenon DEF DispatchStop, BeginDispatch
<1>24. CASE DispatchClear
  BY <1>24, Zenon DEF DispatchClear, BeginDispatch, Complete
<1>25. CASE StopNeutral
  BY <1>25, Zenon DEF StopNeutral, StopStep
<1>26. CASE StopDisableIer
  BY <1>26, Zenon DEF StopDisableIer, StopStep
<1>27. CASE StopDisableEint
  BY <1>27, Zenon DEF StopDisableEint, StopStep
<1>28. CASE StopForceLock
  BY <1>28, Zenon DEF StopForceLock, StopStep, CancelStart, DrvOff
<1>29. CASE StopClearFlag
  BY <1>29, Zenon DEF StopClearFlag, StopStep
<1>30. CASE StopToIdle
  BY <1>30, Zenon DEF StopToIdle, CancelStart, DrvOff
<1>31. CASE CommandAck
  BY <1>31, Zenon DEF CommandAck
<1>32. CASE CommandResult
  BY <1>32, Zenon DEF CommandResult
<1>33. CASE PublishState
  BY <1>33, Zenon DEF PublishState
<1>34. CASE PublishCode
  BY <1>34, Zenon DEF PublishCode
<1>35. CASE TzIsr
  BY <1>35, Zenon DEF TzIsr, Latch, UserDisable
<1>36. CASE ControlIsr
  BY <1>36, Zenon DEF ControlIsr, ParamApplies
<1>37. CASE Trip
  BY <1>37, Zenon DEF Trip, OutsideBackground
<1>38. CASE TripSourceReleases
  BY <1>38, Zenon DEF TripSourceReleases, OutsideBackground
<1>39. CASE DrvTimerElapse
  BY <1>39, Zenon DEF DrvTimerElapse, OutsideBackground
<1>40. CASE DrvTimerWrap
  BY <1>40, Zenon DEF DrvTimerWrap, OutsideBackground
<1>41. CASE HostCommand
  BY <1>41, Zenon DEF HostCommand, OutsideBackground
<1>42. CASE UNCHANGED vars
  BY <1>42, Zenon DEF vars
<1> QED
  BY <1>1, <1>2, <1>3, <1>4, <1>5, <1>6, <1>7, <1>8, <1>9, <1>10, <1>11,
     <1>12, <1>13, <1>14, <1>15, <1>16, <1>17, <1>18, <1>19, <1>20, <1>21,
     <1>22, <1>23, <1>24, <1>25, <1>26, <1>27, <1>28, <1>29, <1>30, <1>31,
     <1>32, <1>33, <1>34, <1>35, <1>36, <1>37, <1>38, <1>39, <1>40, <1>41,
     <1>42 DEF Next, Background

(* The board is fixed at boot: no step changes its power-stage mode or the *)
(* approval of its configuration.                                          *)
LEMMA BoardFixed == [Next]_vars => UNCHANGED boardVars
<1> SUFFICES ASSUME [Next]_vars PROVE UNCHANGED boardVars
  OBVIOUS
<1> USE DEF hostVars
<1>1. CASE Service \/ PollIdle \/ PollPending \/ PollWake \/ PollFailed
           \/ PollReady \/ PollArm
  BY <1>1 DEF Service, PollIdle, PollPending, PollWake, PollFailed, PollReady,
              PollArm, BeginPoll
<1>2. CASE Prepare \/ RestoreDone \/ RestoreFails \/ Setup \/ Release
  BY <1>2 DEF Prepare, RestoreDone, RestoreFails, Setup, Release
<1>3. CASE ReleaseClear \/ ReleaseRecheck \/ StartEnableEint \/ StartEnableIer
           \/ StartCheck \/ StartAck \/ StartResult
  BY <1>3 DEF ReleaseClear, ReleaseRecheck, StartEnableEint, StartEnableIer,
              OnlyTripZone, StartCheck, StartAck, StartResult
<1>4. CASE DispatchNothing \/ DispatchRefuse \/ DispatchStart \/ DispatchStop
           \/ DispatchClear
  BY <1>4 DEF DispatchNothing, DispatchRefuse, DispatchStart, DispatchStop,
              DispatchClear, BeginDispatch
<1>5. CASE StopNeutral \/ StopDisableIer \/ StopDisableEint \/ StopForceLock
           \/ StopClearFlag \/ StopToIdle
  BY <1>5 DEF StopNeutral, StopDisableIer, StopDisableEint, StopForceLock,
              StopClearFlag, StopStep, StopToIdle
<1>6. CASE CommandAck \/ CommandResult \/ PublishState \/ PublishCode
  BY <1>6 DEF CommandAck, CommandResult, PublishState, PublishCode
<1>7. CASE TzIsr \/ ControlIsr \/ Trip \/ TripSourceReleases \/ DrvTimerElapse
           \/ DrvTimerWrap \/ HostCommand
  BY <1>7 DEF TzIsr, ControlIsr, Trip, TripSourceReleases, DrvTimerElapse,
              DrvTimerWrap, HostCommand
<1>8. CASE UNCHANGED vars
  BY <1>8 DEF vars
<1> QED
  BY <1>1, <1>2, <1>3, <1>4, <1>5, <1>6, <1>7, <1>8 DEF Next, Background

(* Type correctness of the whole protection layer.                         *)
THEOREM TypeCorrect == Spec => []TypeOK
<1>1. Init => TripZoneTypeOK
  BY Zenon DEF Init, TripZoneTypeOK
<1>2. Init => FlagsOK
  BY Zenon DEF Init, FlagsOK
<1>3. Init => BoardOK /\ ValuesOK
  BY DEF Init, BoardOK, ValuesOK, Pcs, States, Codes, Results, Cmds, Phases
<1>4. BoardOK /\ UNCHANGED boardVars => BoardOK'
  BY DEF BoardOK, boardVars
<1>5. TypeOK /\ [Next]_vars => TypeOK'
  BY <1>4, TripZoneStep, BoardFixed, FlagsStep, ValuesStep DEF TypeOK
<1> QED
  BY <1>1, <1>2, <1>3, <1>5, PTL DEF Spec, TypeOK

-----------------------------------------------------------------------------
(* The safety invariant is inductive: one step per action of FaultLatch.   *)
LEMMA SafetyStep ==
  ASSUME SafetyInv, [Next]_vars
  PROVE  SafetyInv'
<1> USE DEF SafetyInv, ModeInv, IrqInv, FlagInv, DriverInv, HistoryInv,
            IrqOnlyRunning, TripNotLost, StartPcs, StopPcs, PreparePcs, IrqOffPcs,
            TripIrqPending, inputVars, tzVars, smVars, cmdVars, pubVars, hostVars, boardVars,
            userVars, powerVars, At, Goto
<1>1. CASE Service
  BY <1>1 DEF Service, Disarm, DrvOff
<1>2. CASE PollIdle \/ PollPending \/ PollReady
  BY <1>2 DEF PollIdle, PollPending, PollReady, BeginPoll, NotPolling
<1>3. CASE PollWake
  BY <1>3 DEF PollWake, BeginPoll, NotPolling
<1>4. CASE PollFailed
  <2>1. CASE phase = "FAILED"
    BY <1>4, <2>1 DEF PollFailed, BeginPoll, FailStart, Disarm, DrvOff
  <2>2. CASE phase # "FAILED"
    <3>1. FailStart
      BY <1>4, <2>2 DEF PollFailed
    <3> QED
      BY <1>4, <3>1 DEF PollFailed, BeginPoll, FailStart, Disarm, DrvOff
  <2> QED
    BY <2>1, <2>2
<1>5. CASE PollArm
  BY <1>5 DEF PollArm, BeginPoll, Arm
<1>6. CASE Prepare \/ RestoreDone \/ Setup
  BY <1>6 DEF Prepare, RestoreDone, Setup
<1>7. CASE RestoreFails
  BY <1>7 DEF RestoreFails, CancelStart, ForceAndDisarm, Forward, DrvOff
<1>8. CASE Release
  BY <1>8 DEF Release, ClearInterruptFlag, Forward
<1>9. CASE ReleaseClear
  BY <1>9 DEF ReleaseClear, OnlyTripZone, ReleaseRefused, ClearOst,
       SourceActive, Forward
<1>10. CASE ReleaseRecheck
  BY <1>10 DEF ReleaseRecheck, OnlyTripZone, ReleaseFailed, ForceOst, Forward
<1>11. CASE StartEnableEint
  BY <1>11 DEF StartEnableEint, OnlyTripZone, EnableEint, Forward
<1>12. CASE StartEnableIer
  BY <1>12 DEF StartEnableIer, OnlyTripZone, EnableIer
<1>13. CASE StartCheck
  BY <1>13 DEF StartCheck, Latch, UserDisable
<1>14. CASE StartAck \/ StartResult
  BY <1>14 DEF StartAck, StartResult
<1>15. CASE DispatchNothing
  BY <1>15 DEF DispatchNothing
<1>16. CASE DispatchRefuse
  BY <1>16 DEF DispatchRefuse, BeginDispatch, Complete
<1>17. CASE DispatchStart
  BY <1>17 DEF DispatchStart, BeginDispatch, ForceAndDisarm, Forward, DrvOff
<1>18. CASE DispatchStop
  BY <1>18 DEF DispatchStop, BeginDispatch
<1>19. CASE DispatchClear
  BY <1>19 DEF DispatchClear, BeginDispatch, Complete, SourceIsReleased,
       ClearInterruptFlag, Forward
<1>20. CASE StopNeutral
  BY <1>20 DEF StopNeutral, StopStep
<1>21. CASE StopDisableIer
  BY <1>21 DEF StopDisableIer, StopStep, DisableIer
<1>22. CASE StopDisableEint
  BY <1>22 DEF StopDisableEint, StopStep, DisableEint
<1>23. CASE StopForceLock
  BY <1>23 DEF StopForceLock, StopStep, CancelStart, ForceAndDisarm, Forward,
       DrvOff
<1>24. CASE StopClearFlag
  BY <1>24 DEF StopClearFlag, StopStep, ClearInterruptFlag, Forward
<1>25. CASE StopToIdle
  BY <1>25 DEF StopToIdle, CancelStart, ForceAndDisarm, Forward, DrvOff
<1>26. CASE CommandAck \/ CommandResult \/ PublishState \/ PublishCode
  BY <1>26 DEF CommandAck, CommandResult, PublishState, PublishCode
<1>27. CASE TzIsr
  BY <1>27 DEF TzIsr, Latch, UserDisable, TakeTripInterrupt
<1>28. CASE ControlIsr
  BY <1>28 DEF ControlIsr
<1>29. CASE Trip
  <2> USE <1>29 DEF Trip, OutsideBackground, Forward
  <2>1. CASE FaultPinAsserts
    BY <2>1 DEF FaultPinAsserts
  <2>2. CASE CurrentLeavesWindow
    <3>1. ModeInv'
      BY <2>2 DEF CurrentLeavesWindow
    <3>2. IrqInv'
      BY <2>2 DEF CurrentLeavesWindow
    <3>3. FlagInv'
      BY <2>2 DEF CurrentLeavesWindow
    <3>4. DriverInv'
      BY <2>2 DEF CurrentLeavesWindow
    <3>5. HistoryInv'
      BY <2>2 DEF CurrentLeavesWindow
    <3> QED
      BY <3>1, <3>2, <3>3, <3>4, <3>5
  <2> QED
    BY <2>1, <2>2 DEF Trip
<1>30. CASE TripSourceReleases
  BY <1>30 DEF TripSourceReleases, SourceReleases, OutsideBackground
<1>31. CASE DrvTimerElapse \/ DrvTimerWrap
  BY <1>31 DEF DrvTimerElapse, DrvTimerWrap, OutsideBackground
<1>32. CASE HostCommand
  BY <1>32 DEF HostCommand, OutsideBackground
<1>33. CASE UNCHANGED vars
  BY <1>33 DEF vars
<1> QED
  BY <1>1, <1>2, <1>3, <1>4, <1>5, <1>6, <1>7, <1>8, <1>9, <1>10, <1>11,
     <1>12, <1>13, <1>14, <1>15, <1>16, <1>17, <1>18, <1>19, <1>20, <1>21,
     <1>22, <1>23, <1>24, <1>25, <1>26, <1>27, <1>28, <1>29, <1>30, <1>31,
     <1>32, <1>33 DEF Next, Background

(* It holds in every reachable state, on every board and with trips        *)
(* anywhere: where the background stands, which interrupt levels are on,   *)
(* what the PIE flag means, who keeps the driver awake.                    *)
THEOREM SafetyInvariant == Spec => []SafetyInv
<1>1. Init => SafetyInv
  BY DEF Init, SafetyInv, ModeInv, IrqInv, FlagInv, DriverInv, HistoryInv,
         IrqOnlyRunning, TripNotLost, StartPcs, StopPcs, PreparePcs, IrqOffPcs
<1> QED
  BY <1>1, SafetyStep, PTL DEF Spec

(* Both trip interrupt levels are off outside RUNNING (the rule of         *)
(* v2k_fault.c lines 26-43 and of v2k_fault_init).                         *)
THEOREM IrqOnlyRunningHolds == Spec => []IrqOnlyRunning
<1>1. SafetyInv => IrqOnlyRunning
  BY DEF SafetyInv, IrqInv
<1> QED
  BY <1>1, SafetyInvariant, PTL

(* A RUNNING machine whose lock is closed always has its trip interrupt    *)
(* pending, once the start is through (v2k_fault.c lines 171-192).         *)
THEOREM NoSilentTripHolds == Spec => []NoSilentTrip
<1>1. SafetyInv => NoSilentTrip
  BY DEF SafetyInv, IrqInv, FlagInv, NoSilentTrip, StartPcs, StopPcs, IrqOffPcs,
         TripIrqPending
<1> QED
  BY <1>1, SafetyInvariant, PTL

(* A trip of a running machine is not forgotten by a STOP in progress (the *)
(* race guard of v2k_fault.c lines 237-245).                               *)
THEOREM TripNotLostHolds == Spec => []TripNotLost
<1>1. SafetyInv => TripNotLost
  BY DEF SafetyInv, HistoryInv
<1> QED
  BY <1>1, SafetyInvariant, PTL

(* An awake gate driver behind open outputs means RUNNING or a shutdown    *)
(* that is on its way (v2k_board_background_service).                      *)
THEOREM EnergizedOnlyRunningHolds == Spec => []EnergizedOnlyRunning
<1>1. TypeOK /\ SafetyInv => EnergizedOnlyRunning
  BY DEF TypeOK, ValuesOK, States, SafetyInv, DriverInv, EnergizedOnlyRunning
<1> QED
  BY <1>1, TypeCorrect, SafetyInvariant, PTL

-----------------------------------------------------------------------------
(* The lock invariant is inductive when no trip falls between the two      *)
(* writes of v2k_board_pwm_disable_trip_irq.                               *)
LEMMA LockStep ==
  ASSUME ~WindowTrips, SafetyInv, LockInv, [Next]_vars
  PROVE  LockInv'
<1> USE DEF LockInv, LockedUnlessRunning, SafetyInv, ModeInv, IrqInv, FlagInv,
            DriverInv, IrqOnlyRunning, StartPcs, StopPcs, PreparePcs, IrqOffPcs,
            TripIrqPending, inputVars, tzVars, smVars, cmdVars, pubVars, hostVars, boardVars,
            userVars, powerVars, At, Goto
<1>1. CASE Service
  BY <1>1 DEF Service, Disarm, DrvOff
<1>2. CASE PollIdle \/ PollPending \/ PollReady
  BY <1>2 DEF PollIdle, PollPending, PollReady, BeginPoll, NotPolling
<1>3. CASE PollWake
  BY <1>3 DEF PollWake, BeginPoll, NotPolling
<1>4. CASE PollFailed
  <2>1. CASE phase = "FAILED"
    BY <1>4, <2>1 DEF PollFailed, BeginPoll, FailStart, Disarm, DrvOff
  <2>2. CASE phase # "FAILED"
    <3>1. FailStart
      BY <1>4, <2>2 DEF PollFailed
    <3> QED
      BY <1>4, <3>1 DEF PollFailed, BeginPoll, FailStart, Disarm, DrvOff
  <2> QED
    BY <2>1, <2>2
<1>5. CASE PollArm
  BY <1>5 DEF PollArm, BeginPoll, Arm
<1>6. CASE Prepare \/ RestoreDone \/ Setup
  BY <1>6 DEF Prepare, RestoreDone, Setup
<1>7. CASE RestoreFails
  BY <1>7 DEF RestoreFails, CancelStart, ForceAndDisarm, Forward, DrvOff
<1>8. CASE Release
  BY <1>8 DEF Release, ClearInterruptFlag, Forward
<1>9. CASE ReleaseClear
  BY <1>9 DEF ReleaseClear, OnlyTripZone, ReleaseRefused, ClearOst,
       SourceActive, Forward
<1>10. CASE ReleaseRecheck
  BY <1>10 DEF ReleaseRecheck, OnlyTripZone, ReleaseFailed, ForceOst, Forward
<1>11. CASE StartEnableEint
  BY <1>11 DEF StartEnableEint, OnlyTripZone, EnableEint, Forward
<1>12. CASE StartEnableIer
  BY <1>12 DEF StartEnableIer, OnlyTripZone, EnableIer
<1>13. CASE StartCheck
  BY <1>13 DEF StartCheck, Latch, UserDisable
<1>14. CASE StartAck \/ StartResult
  BY <1>14 DEF StartAck, StartResult
<1>15. CASE DispatchNothing
  BY <1>15 DEF DispatchNothing
<1>16. CASE DispatchRefuse
  BY <1>16 DEF DispatchRefuse, BeginDispatch, Complete
<1>17. CASE DispatchStart
  BY <1>17 DEF DispatchStart, BeginDispatch, ForceAndDisarm, Forward, DrvOff
<1>18. CASE DispatchStop
  BY <1>18 DEF DispatchStop, BeginDispatch
<1>19. CASE DispatchClear
  BY <1>19 DEF DispatchClear, BeginDispatch, Complete, SourceIsReleased,
       ClearInterruptFlag, Forward
<1>20. CASE StopNeutral
  BY <1>20 DEF StopNeutral, StopStep
<1>21. CASE StopDisableIer
  BY <1>21 DEF StopDisableIer, StopStep, DisableIer
<1>22. CASE StopDisableEint
  BY <1>22 DEF StopDisableEint, StopStep, DisableEint
<1>23. CASE StopForceLock
  BY <1>23 DEF StopForceLock, StopStep, CancelStart, ForceAndDisarm, Forward,
       DrvOff
<1>24. CASE StopClearFlag
  BY <1>24 DEF StopClearFlag, StopStep, ClearInterruptFlag, Forward
<1>25. CASE StopToIdle
  BY <1>25 DEF StopToIdle, CancelStart, ForceAndDisarm, Forward, DrvOff
<1>26. CASE CommandAck \/ CommandResult \/ PublishState \/ PublishCode
  BY <1>26 DEF CommandAck, CommandResult, PublishState, PublishCode
<1>27. CASE TzIsr
  BY <1>27 DEF TzIsr, Latch, UserDisable, TakeTripInterrupt
<1>28. CASE ControlIsr
  BY <1>28 DEF ControlIsr
<1>29. CASE Trip
  <2> USE <1>29 DEF Trip, OutsideBackground, Forward
  <2>1. CASE FaultPinAsserts
    BY <2>1 DEF FaultPinAsserts
  <2>2. CASE CurrentLeavesWindow
    <3>1. LockInv'
      BY <2>2 DEF CurrentLeavesWindow
    <3> QED
      BY <3>1
  <2> QED
    BY <2>1, <2>2 DEF Trip
<1>30. CASE TripSourceReleases
  BY <1>30 DEF TripSourceReleases, SourceReleases, OutsideBackground
<1>31. CASE DrvTimerElapse \/ DrvTimerWrap
  BY <1>31 DEF DrvTimerElapse, DrvTimerWrap, OutsideBackground
<1>32. CASE HostCommand
  BY <1>32 DEF HostCommand, OutsideBackground
<1>33. CASE UNCHANGED vars
  BY <1>33 DEF vars
<1> QED
  BY <1>1, <1>2, <1>3, <1>4, <1>5, <1>6, <1>7, <1>8, <1>9, <1>10, <1>11,
     <1>12, <1>13, <1>14, <1>15, <1>16, <1>17, <1>18, <1>19, <1>20, <1>21,
     <1>22, <1>23, <1>24, <1>25, <1>26, <1>27, <1>28, <1>29, <1>30, <1>31,
     <1>32, <1>33 DEF Next, Background

(* Under that condition IDLE and FAULT always have the outputs locked.     *)
THEOREM LockedUnlessRunningHolds ==
  ASSUME ~WindowTrips
  PROVE  Spec => []LockedUnlessRunning
<1>1. Init => LockInv
  BY DEF Init, LockInv, LockedUnlessRunning
<1>2. SafetyInv /\ LockInv /\ [Next]_vars => LockInv'
  BY LockStep
<1>3. LockInv => LockedUnlessRunning
  BY DEF LockInv
<1> QED
  BY <1>1, <1>2, <1>3, SafetyInvariant, PTL DEF Spec

-----------------------------------------------------------------------------
(* Every step of FaultLatch is a step of Protection or leaves it alone.    *)
LEMMA PromiseStep ==
  ASSUME TypeOK, SafetyInv, LockInv, [Next]_vars
  PROVE  [Promise!Next]_<<state, ost>>
<1> USE DEF Promise!Next, Promise!Grant, Promise!Open, Promise!Close,
            Promise!Record, Promise!Finish, Promise!Clear, LockInv,
            LockedUnlessRunning, SafetyInv, ModeInv, IrqInv, FlagInv, DriverInv,
            IrqOnlyRunning, StartPcs, StopPcs, PreparePcs, IrqOffPcs, TypeOK,
            ValuesOK, States, TripIrqPending, inputVars, tzVars, smVars, cmdVars,
            pubVars, hostVars, boardVars, userVars, powerVars, At, Goto
<1>1. CASE Service
  BY <1>1 DEF Service, Disarm, DrvOff
<1>2. CASE PollIdle \/ PollPending \/ PollReady
  BY <1>2 DEF PollIdle, PollPending, PollReady, BeginPoll, NotPolling
<1>3. CASE PollWake
  BY <1>3 DEF PollWake, BeginPoll, NotPolling
<1>4. CASE PollFailed
  <2>1. CASE phase = "FAILED"
    BY <1>4, <2>1 DEF PollFailed, BeginPoll, FailStart, Disarm, DrvOff
  <2>2. CASE phase # "FAILED"
    <3>1. FailStart
      BY <1>4, <2>2 DEF PollFailed
    <3> QED
      BY <1>4, <3>1 DEF PollFailed, BeginPoll, FailStart, Disarm, DrvOff
  <2> QED
    BY <2>1, <2>2
<1>5. CASE PollArm
  BY <1>5 DEF PollArm, BeginPoll, Arm
<1>6. CASE Prepare \/ RestoreDone \/ Setup
  BY <1>6 DEF Prepare, RestoreDone, Setup
<1>7. CASE RestoreFails
  BY <1>7 DEF RestoreFails, CancelStart, ForceAndDisarm, Forward, DrvOff
<1>8. CASE Release
  BY <1>8 DEF Release, ClearInterruptFlag, Forward
<1>9. CASE ReleaseClear
  BY <1>9 DEF ReleaseClear, OnlyTripZone, ReleaseRefused, ClearOst,
       SourceActive, Forward
<1>10. CASE ReleaseRecheck
  BY <1>10 DEF ReleaseRecheck, OnlyTripZone, ReleaseFailed, ForceOst, Forward
<1>11. CASE StartEnableEint
  BY <1>11 DEF StartEnableEint, OnlyTripZone, EnableEint, Forward
<1>12. CASE StartEnableIer
  BY <1>12 DEF StartEnableIer, OnlyTripZone, EnableIer
<1>13. CASE StartCheck
  BY <1>13 DEF StartCheck, Latch, UserDisable
<1>14. CASE StartAck \/ StartResult
  BY <1>14 DEF StartAck, StartResult
<1>15. CASE DispatchNothing
  BY <1>15 DEF DispatchNothing
<1>16. CASE DispatchRefuse
  BY <1>16 DEF DispatchRefuse, BeginDispatch, Complete
<1>17. CASE DispatchStart
  BY <1>17 DEF DispatchStart, BeginDispatch, ForceAndDisarm, Forward, DrvOff
<1>18. CASE DispatchStop
  BY <1>18 DEF DispatchStop, BeginDispatch
<1>19. CASE DispatchClear
  BY <1>19 DEF DispatchClear, BeginDispatch, Complete, SourceIsReleased,
       ClearInterruptFlag, Forward
<1>20. CASE StopNeutral
  BY <1>20 DEF StopNeutral, StopStep
<1>21. CASE StopDisableIer
  BY <1>21 DEF StopDisableIer, StopStep, DisableIer
<1>22. CASE StopDisableEint
  BY <1>22 DEF StopDisableEint, StopStep, DisableEint
<1>23. CASE StopForceLock
  BY <1>23 DEF StopForceLock, StopStep, CancelStart, ForceAndDisarm, Forward,
       DrvOff
<1>24. CASE StopClearFlag
  BY <1>24 DEF StopClearFlag, StopStep, ClearInterruptFlag, Forward
<1>25. CASE StopToIdle
  BY <1>25 DEF StopToIdle, CancelStart, ForceAndDisarm, Forward, DrvOff
<1>26. CASE CommandAck \/ CommandResult \/ PublishState \/ PublishCode
  BY <1>26 DEF CommandAck, CommandResult, PublishState, PublishCode
<1>27. CASE TzIsr
  BY <1>27 DEF TzIsr, Latch, UserDisable, TakeTripInterrupt
<1>28. CASE ControlIsr
  BY <1>28 DEF ControlIsr
<1>29. CASE Trip
  BY <1>29 DEF Trip, FaultPinAsserts, CurrentLeavesWindow, OutsideBackground,
       Forward
<1>30. CASE TripSourceReleases
  BY <1>30 DEF TripSourceReleases, SourceReleases, OutsideBackground
<1>31. CASE DrvTimerElapse \/ DrvTimerWrap
  BY <1>31 DEF DrvTimerElapse, DrvTimerWrap, OutsideBackground
<1>32. CASE HostCommand
  BY <1>32 DEF HostCommand, OutsideBackground
<1>33. CASE UNCHANGED vars
  BY <1>33 DEF vars
<1> QED
  BY <1>1, <1>2, <1>3, <1>4, <1>5, <1>6, <1>7, <1>8, <1>9, <1>10, <1>11,
     <1>12, <1>13, <1>14, <1>15, <1>16, <1>17, <1>18, <1>19, <1>20, <1>21,
     <1>22, <1>23, <1>24, <1>25, <1>26, <1>27, <1>28, <1>29, <1>30, <1>31,
     <1>32, <1>33 DEF Next, Background

(* FaultLatch implements Protection under the same condition: RUNNING is   *)
(* granted before the lock opens and left only behind a closed lock.       *)
THEOREM PromiseKept ==
  ASSUME ~WindowTrips
  PROVE  Spec => ImplementsPromise
<1>1. Init => LockInv
  BY DEF Init, LockInv, LockedUnlessRunning
<1>2. SafetyInv /\ LockInv /\ [Next]_vars => LockInv'
  BY LockStep
<1>3. Init => Promise!Init
  BY DEF Init, Promise!Init
<1>4. TypeOK /\ SafetyInv /\ LockInv /\ [Next]_vars => [Promise!Next]_<<state, ost>>
  BY PromiseStep
<1> QED
  BY <1>1, <1>2, <1>3, <1>4, TypeCorrect, SafetyInvariant, PTL
     DEF Spec, ImplementsPromise, Promise!Spec
-----------------------------------------------------------------------------
(* The gate driver, the user RAM and the PWM duties.                       *)

\* Only a POWERED start waits, and on an unapproved board no further than the
\* first wait.
GateInv ==
  /\ GateSleepsUnlessApproved
  /\ phase \in {"SLEEP_WAIT", "WAKE_WAIT"} => powered
  /\ powered /\ ~approved => pc \notin PreparePcs /\ phase \notin {"WAKE_WAIT", "READY"}

\* While the image is restored nothing runs on it and nothing writes to it.
AppInv ==
  /\ EnabledAppIsWhole
  /\ pc \in {"restore", "setup"} => resetActive /\ ~appEnabled
  /\ pc = "setup" => userRam = "fresh"
  /\ pc = "restore" => userRam = "partial"

\* The lock is about to open on duties the platform has released.
DutyInv ==
  /\ OpenOutputsAreLive
  /\ pc = "clearOst" => pwmDuty \in {"neutral", "user"}

(* No step wakes the driver of an unapproved board, or opens its outputs   *)
(* (v2k_board_powerstage_start_poll).                                      *)
LEMMA GateStep ==
  ASSUME SafetyInv, GateInv, [Next]_vars
  PROVE  GateInv'
<1> USE DEF GateInv, GateSleepsUnlessApproved, SafetyInv, ModeInv, IrqInv,
            IrqOnlyRunning, StartPcs, StopPcs, PreparePcs, tzVars, smVars,
            hostVars, boardVars, powerVars, At, Goto
<1>1. CASE Service
  BY <1>1 DEF Service, Disarm, DrvOff
<1>2. CASE PollIdle \/ PollPending \/ PollWake \/ PollReady
  BY <1>2 DEF PollIdle, PollPending, PollWake, PollReady, BeginPoll, NotPolling
<1>3. CASE PollFailed
  BY <1>3 DEF PollFailed, BeginPoll, FailStart, Disarm, DrvOff
<1>4. CASE PollArm
  BY <1>4 DEF PollArm, BeginPoll, Arm
<1>5. CASE Prepare \/ RestoreDone \/ Setup
  BY <1>5 DEF Prepare, RestoreDone, Setup
<1>6. CASE RestoreFails
  BY <1>6 DEF RestoreFails, CancelStart, ForceAndDisarm, DrvOff
<1>7. CASE Release
  BY <1>7 DEF Release, ClearInterruptFlag
<1>8. CASE ReleaseClear \/ ReleaseRecheck \/ StartEnableEint \/ StartEnableIer
  <2>1. state = "RUNNING" /\ pc \in StartPcs
    BY <1>8 DEF ReleaseClear, ReleaseRecheck, StartEnableEint, StartEnableIer
  <2>2. ~(powered /\ ~approved)
    BY <2>1
  <2>3. UNCHANGED <<state, hostVars, powerVars>>
    BY <1>8 DEF ReleaseClear, ReleaseRecheck, StartEnableEint, StartEnableIer,
                OnlyTripZone
  <2> QED
    BY <2>2, <2>3
<1>9. CASE StartCheck
  BY <1>9 DEF StartCheck, Latch, UserDisable
<1>10. CASE StartAck \/ StartResult \/ DispatchNothing
  BY <1>10 DEF StartAck, StartResult, DispatchNothing
<1>11. CASE DispatchRefuse \/ DispatchStop
  BY <1>11 DEF DispatchRefuse, DispatchStop, BeginDispatch, Complete
<1>12. CASE DispatchStart
  BY <1>12 DEF DispatchStart, BeginDispatch, ForceAndDisarm, DrvOff
<1>13. CASE DispatchClear
  BY <1>13 DEF DispatchClear, BeginDispatch, Complete, ClearInterruptFlag
<1>14. CASE StopNeutral \/ StopDisableIer \/ StopDisableEint \/ StopClearFlag
  <2>1. UNCHANGED <<ost, state, hostVars, powerVars>> /\ pc' \in StopPcs
    BY <1>14 DEF StopNeutral, StopDisableIer, StopDisableEint, StopClearFlag,
                 StopStep, DisableIer, DisableEint, ClearInterruptFlag
  <2> QED
    BY <2>1
<1>15. CASE StopForceLock
  BY <1>15 DEF StopForceLock, StopStep, CancelStart, ForceAndDisarm, DrvOff
<1>16. CASE StopToIdle
  BY <1>16 DEF StopToIdle, CancelStart, ForceAndDisarm, DrvOff
<1>17. CASE CommandAck \/ CommandResult \/ PublishState \/ PublishCode
  BY <1>17 DEF CommandAck, CommandResult, PublishState, PublishCode
<1>18. CASE TzIsr
  BY <1>18 DEF TzIsr, TripIrqPending, Latch, UserDisable, TakeTripInterrupt
<1>19. CASE ControlIsr
  BY <1>19 DEF ControlIsr
<1>20. CASE Trip
  BY <1>20 DEF Trip, FaultPinAsserts, CurrentLeavesWindow, OutsideBackground
<1>21. CASE TripSourceReleases \/ DrvTimerElapse \/ DrvTimerWrap \/ HostCommand
  BY <1>21 DEF TripSourceReleases, SourceReleases, DrvTimerElapse, DrvTimerWrap,
               HostCommand, OutsideBackground
<1>22. CASE UNCHANGED vars
  BY <1>22 DEF vars
<1> QED
  BY <1>1, <1>2, <1>3, <1>4, <1>5, <1>6, <1>7, <1>8, <1>9, <1>10, <1>11, <1>12,
     <1>13, <1>14, <1>15, <1>16, <1>17, <1>18, <1>19, <1>20, <1>21, <1>22
     DEF Next, Background

(* Only an approved POWERED configuration wakes the gate driver, and an    *)
(* unapproved one stays locked in IDLE (v2k_board_powerstage_start_poll).  *)
THEOREM GateSleepsUnlessApprovedHolds == Spec => []GateSleepsUnlessApproved
<1>1. Init => GateInv
  BY DEF Init, GateInv, GateSleepsUnlessApproved, PreparePcs
<1>2. SafetyInv /\ GateInv /\ [Next]_vars => GateInv'
  BY GateStep
<1>3. GateInv => GateSleepsUnlessApproved
  BY DEF GateInv
<1> QED
  BY <1>1, <1>2, <1>3, SafetyInvariant, PTL DEF Spec

(* No step lets control() or a parameter batch touch a RAM image that is   *)
(* being restored (v2k_user_prepare_start, v2k_executor_isr).              *)
LEMMA AppStep ==
  ASSUME SafetyInv, AppInv, [Next]_vars
  PROVE  AppInv'
<1> USE DEF AppInv, EnabledAppIsWhole, SafetyInv, ModeInv, StartPcs, StopPcs,
            PreparePcs, userVars, smVars, At, Goto
<1>1. CASE Service
  BY <1>1 DEF Service
<1>2. CASE PollIdle \/ PollPending \/ PollWake \/ PollReady \/ PollFailed \/ PollArm
  BY <1>2 DEF PollIdle, PollPending, PollWake, PollReady, PollFailed, PollArm,
              BeginPoll, NotPolling
<1>3. CASE Prepare \/ RestoreDone \/ Setup \/ RestoreFails \/ Release
  BY <1>3 DEF Prepare, RestoreDone, Setup, RestoreFails, Release
<1>4. CASE ReleaseClear \/ ReleaseRecheck \/ StartEnableEint \/ StartEnableIer
  BY <1>4 DEF ReleaseClear, ReleaseRecheck, StartEnableEint, StartEnableIer,
              OnlyTripZone
<1>5. CASE StartCheck
  BY <1>5 DEF StartCheck, Latch, UserDisable
<1>6. CASE StartAck \/ StartResult \/ DispatchNothing
  BY <1>6 DEF StartAck, StartResult, DispatchNothing
<1>7. CASE DispatchRefuse \/ DispatchStart \/ DispatchStop \/ DispatchClear
  BY <1>7 DEF DispatchRefuse, DispatchStart, DispatchStop, DispatchClear,
              BeginDispatch, Complete
<1>8. CASE \/ StopNeutral \/ StopDisableIer \/ StopDisableEint \/ StopForceLock
           \/ StopClearFlag \/ StopToIdle
  BY <1>8 DEF StopNeutral, StopDisableIer, StopDisableEint, StopForceLock,
              StopClearFlag, StopToIdle, StopStep
<1>9. CASE CommandAck \/ CommandResult \/ PublishState \/ PublishCode
  BY <1>9 DEF CommandAck, CommandResult, PublishState, PublishCode
<1>10. CASE TzIsr
  BY <1>10 DEF TzIsr, Latch, UserDisable
<1>11. CASE ControlIsr
  <2>1. UNCHANGED <<pc, appEnabled, resetActive>>
    BY <1>11 DEF ControlIsr
  <2>2. pc \notin {"restore", "setup"}
    BY <1>11 DEF ControlIsr, ParamApplies, ControlRuns
  <2>3. userRam' = IF userRam \in {"partial", "torn"} THEN "torn" ELSE "used"
    BY <1>11 DEF ControlIsr
  <2> QED
    BY <2>1, <2>2, <2>3
<1>12. CASE Trip \/ TripSourceReleases \/ DrvTimerElapse \/ DrvTimerWrap \/ HostCommand
  BY <1>12 DEF Trip, TripSourceReleases, DrvTimerElapse, DrvTimerWrap, HostCommand,
               OutsideBackground
<1>13. CASE UNCHANGED vars
  BY <1>13 DEF vars
<1> QED
  BY <1>1, <1>2, <1>3, <1>4, <1>5, <1>6, <1>7, <1>8, <1>9, <1>10, <1>11, <1>12,
     <1>13 DEF Next, Background

(* The application only runs on an image restored as a whole, whenever a   *)
(* parameter batch falls due.                                              *)
THEOREM EnabledAppIsWholeHolds == Spec => []EnabledAppIsWhole
<1>1. Init => AppInv
  BY DEF Init, AppInv, EnabledAppIsWhole
<1>2. SafetyInv /\ AppInv /\ [Next]_vars => AppInv'
  BY AppStep
<1>3. AppInv => EnabledAppIsWhole
  BY DEF AppInv
<1> QED
  BY <1>1, <1>2, <1>3, SafetyInvariant, PTL DEF Spec

(* Whatever step opens the outputs, or writes duties behind open ones, the *)
(* duties are neutral or those of the running application.                 *)
LEMMA DutyStep ==
  ASSUME SafetyInv, LockInv, DutyInv, [Next]_vars
  PROVE  DutyInv'
<1> USE DEF DutyInv, OpenOutputsAreLive, LockInv, LockedUnlessRunning, SafetyInv,
            ModeInv, IrqInv, FlagInv, StartPcs, StopPcs, PreparePcs, IrqOnlyRunning,
            tzVars, smVars, userVars, At, Goto
<1>1. CASE Service
  BY <1>1 DEF Service, Disarm
<1>2. CASE PollIdle \/ PollPending \/ PollWake \/ PollReady
  BY <1>2 DEF PollIdle, PollPending, PollWake, PollReady, BeginPoll, NotPolling
<1>3. CASE PollFailed
  BY <1>3 DEF PollFailed, BeginPoll, FailStart, Disarm
<1>4. CASE PollArm
  BY <1>4 DEF PollArm, BeginPoll, Arm
<1>5. CASE Prepare \/ RestoreDone \/ Setup
  <2>1. ost
    BY <1>5 DEF Prepare, RestoreDone, Setup
  <2> QED
    BY <1>5, <2>1 DEF Prepare, RestoreDone, Setup
<1>6. CASE RestoreFails
  BY <1>6 DEF RestoreFails, CancelStart, ForceAndDisarm
<1>7. CASE Release
  BY <1>7 DEF Release, ClearInterruptFlag
<1>8. CASE ReleaseClear
  BY <1>8 DEF ReleaseClear, OnlyTripZone
<1>9. CASE ReleaseRecheck \/ StartEnableEint \/ StartEnableIer
  BY <1>9 DEF ReleaseRecheck, StartEnableEint, StartEnableIer, OnlyTripZone,
              ForceOst, EnableEint, EnableIer
<1>10. CASE StartCheck
  BY <1>10 DEF StartCheck, Latch, UserDisable
<1>11. CASE StartAck \/ StartResult \/ DispatchNothing
  BY <1>11 DEF StartAck, StartResult, DispatchNothing
<1>12. CASE DispatchRefuse \/ DispatchStop
  BY <1>12 DEF DispatchRefuse, DispatchStop, BeginDispatch, Complete
<1>13. CASE DispatchStart
  BY <1>13 DEF DispatchStart, BeginDispatch, ForceAndDisarm
<1>14. CASE DispatchClear
  BY <1>14 DEF DispatchClear, BeginDispatch, Complete, ClearInterruptFlag
<1>15. CASE StopNeutral \/ StopDisableIer \/ StopDisableEint \/ StopClearFlag
  BY <1>15 DEF StopNeutral, StopDisableIer, StopDisableEint, StopClearFlag,
               StopStep, DisableIer, DisableEint, ClearInterruptFlag
<1>16. CASE StopForceLock
  BY <1>16 DEF StopForceLock, StopStep, CancelStart, ForceAndDisarm
<1>17. CASE StopToIdle
  BY <1>17 DEF StopToIdle, CancelStart, ForceAndDisarm
<1>18. CASE CommandAck \/ CommandResult \/ PublishState \/ PublishCode
  BY <1>18 DEF CommandAck, CommandResult, PublishState, PublishCode
<1>19. CASE TzIsr
  BY <1>19 DEF TzIsr, TripIrqPending, Latch, UserDisable, TakeTripInterrupt
<1>20. CASE ControlIsr
  <2>1. UNCHANGED <<pc, ost>> /\ pwmDuty' \in {pwmDuty, "user"}
    BY <1>20 DEF ControlIsr
  <2> QED
    BY <2>1
<1>21. CASE Trip
  BY <1>21 DEF Trip, FaultPinAsserts, CurrentLeavesWindow, OutsideBackground
<1>22. CASE TripSourceReleases \/ DrvTimerElapse \/ DrvTimerWrap \/ HostCommand
  BY <1>22 DEF TripSourceReleases, SourceReleases, DrvTimerElapse, DrvTimerWrap,
               HostCommand, OutsideBackground
<1>23. CASE UNCHANGED vars
  BY <1>23 DEF vars
<1> QED
  BY <1>1, <1>2, <1>3, <1>4, <1>5, <1>6, <1>7, <1>8, <1>9, <1>10, <1>11, <1>12,
     <1>13, <1>14, <1>15, <1>16, <1>17, <1>18, <1>19, <1>20, <1>21, <1>22, <1>23
     DEF Next, Background

(* With no trip inside v2k_board_pwm_disable_trip_irq, a set PIE flag is   *)
(* never stale.                                                            *)
THEOREM LockInvariant ==
  ASSUME ~WindowTrips
  PROVE  Spec => []LockInv
<1>1. Init => LockInv
  BY DEF Init, LockInv, LockedUnlessRunning
<1>2. SafetyInv /\ LockInv /\ [Next]_vars => LockInv'
  BY LockStep
<1> QED
  BY <1>1, <1>2, SafetyInvariant, PTL DEF Spec

(* Under that condition open outputs never show what setup() wrote or what *)
(* a disabled application left behind (v2k_fault_poll, v2k_user_disable).  *)
THEOREM OpenOutputsAreLiveHolds ==
  ASSUME ~WindowTrips
  PROVE  Spec => []OpenOutputsAreLive
<1>1. Init => DutyInv
  BY DEF Init, DutyInv, OpenOutputsAreLive
<1>2. SafetyInv /\ LockInv /\ DutyInv /\ [Next]_vars => DutyInv'
  BY DutyStep
<1>3. DutyInv => OpenOutputsAreLive
  BY DEF DutyInv
<1> QED
  BY <1>1, <1>2, <1>3, SafetyInvariant, LockInvariant, PTL DEF Spec
=============================================================================
