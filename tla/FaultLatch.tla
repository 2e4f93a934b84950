----------------------------- MODULE FaultLatch -----------------------------
(***************************************************************************)
(* The protection state machine of CPU1 (cpu1/runtime/v2k_fault.c) with    *)
(* everything it drives: the trip-zone hardware (TripZone), the power-     *)
(* stage start sequence (cpu1/board/v2k_board_f28p65x.c), the user runtime *)
(* that restores and enables the application, and the command words it     *)
(* shares with CPU2.  Three threads interleave:                            *)
(*   - the 1 ms background pass, one action per group of writes that an    *)
(*     interrupt could observe half done (variable pc);                    *)
(*   - the trip interrupt v2k_tz_isr, which preempts the background as     *)
(*     soon as it is pending;                                              *)
(*   - the control interrupt v2k_executor_isr, at any time.                *)
(* Trips, the host and the DRV8323 wait timer are the environment.         *)
(***************************************************************************)
EXTENDS TripZone, Naturals

CONSTANTS
  WindowTrips,  \* a trip may land inside v2k_board_pwm_disable_trip_irq
  MaxCmds       \* bound on the commands the host issues

ASSUME WindowAssumption == WindowTrips \in BOOLEAN
ASSUME BoundAssumption  == MaxCmds \in Nat

VARIABLES
  pc,            \* where the background pass stands
  state, code,   \* g_v2k_sm_state, g_v2k_fault_code
  startPending, startSeq, seqL,   \* s_start_pending, s_start_seq, local seq
  result,        \* local result of the command being completed
  ackSeq,        \* st->ack_seq, and s_cmd_handled, which always equals it
  cmdResult, pubState, pubCode,   \* st->cmd_result, sys_state, fault_code
  cmdSeq, cmdCode,                \* req->cmd_seq, cmd_code, written by CPU2
  powered,       \* s_powerstage_mode = POWERED (otherwise DRY_RUN); fixed
  approved,      \* s_powered_config_approved; fixed
  appEnabled, resetActive,        \* g_v2k_app_enabled, g_v2k_user_reset_active
  userRam,       \* "used", "partial" (being restored), "fresh" or "torn"
  paramReady,    \* s_ready_valid of the parameter plane
  pwmDuty,       \* who wrote the PWM compare values last
  phase,         \* s_start_phase
  drvEn, drvElapsed,        \* DRV_ENABLE and its 1 ms wait
  shutPending, shutComplete,      \* s_fault_shutdown_pending, _complete
  relOk,         \* local release_ok
  tripAt         \* history: where the last trip that closed the lock fell,
                 \* until a CLEAR_FAULT or a new APP_START

cmdVars   == <<startPending, startSeq, seqL, result, ackSeq, cmdResult>>
pubVars   == <<pubState, pubCode>>
boardVars == <<powered, approved>>
hostVars  == <<cmdSeq, cmdCode, boardVars>>
userVars  == <<appEnabled, resetActive, userRam, paramReady>>
powerVars == <<phase, drvEn, drvElapsed, shutPending, shutComplete>>
smVars    == <<state, code>>
vars == <<inputVars, tzVars, pc, smVars, cmdVars, pubVars, hostVars, userVars,
          pwmDuty, powerVars, relOk, tripAt>>

States  == {"IDLE", "RUNNING", "FAULT"}
Codes   == {"NONE", "TZ1_EXT", "OVERCURRENT"}
Results == {"OK", "BAD_CMD", "BAD_STATE", "NOT_READY", "START_FAILED"}
Cmds    == {"NOP", "START", "STOP", "CLEAR", "OTHER"}
Phases  == {"IDLE", "SLEEP_WAIT", "WAKE_WAIT", "READY", "FAILED"}

StartPcs == {"clearOst", "recheck", "enableEint", "enableIer", "check"}
StopPcs  == {"stopNeutral", "stopIer", "stopEint", "stopLock", "stopClear",
             "stopState"}
Pcs == {"service", "poll", "prepare", "restore", "setup", "release",
        "startAck", "startResult", "dispatch", "cmdAck", "cmdResult",
        "publish", "publishCode"} \cup StartPcs \cup StopPcs

\* v2k_fault_init: locked, both interrupt levels off, driver asleep.
Init ==
  /\ nFault = FALSE /\ overCurrent = FALSE
  /\ ost = TRUE /\ dcFlag = FALSE /\ tzInt = FALSE /\ tzEint = FALSE
  /\ pieIfr = FALSE /\ pieIer = FALSE /\ tripArmed = FALSE
  /\ pc = "service" /\ state = "IDLE" /\ code = "NONE"
  /\ startPending = FALSE /\ startSeq = 0 /\ seqL = 0 /\ result = "OK"
  /\ ackSeq = 0 /\ cmdResult = "OK" /\ pubState = "IDLE" /\ pubCode = "NONE"
  /\ cmdSeq = 0 /\ cmdCode = "NOP"
  /\ powered \in BOOLEAN /\ approved \in BOOLEAN
  /\ appEnabled = FALSE /\ resetActive = FALSE /\ userRam = "fresh"
  /\ paramReady = FALSE /\ pwmDuty = "neutral"
  /\ phase = "IDLE" /\ drvEn = FALSE /\ drvElapsed = FALSE
  /\ shutPending = FALSE /\ shutComplete = TRUE
  /\ relOk = FALSE /\ tripAt = "none"

-----------------------------------------------------------------------------
(* Shared pieces.                                                          *)

At(p)  == pc = p /\ ~TripIrqPending   \* the trip interrupt preempts
Goto(p) == pc' = p

\* v2k_user_disable: what the application last wrote is stale from here on.
UserDisable ==
  /\ appEnabled' = FALSE
  /\ pwmDuty' = IF pwmDuty = "user" THEN "stale" ELSE pwmDuty
  /\ UNCHANGED <<resetActive, userRam, paramReady>>

DrvOff == drvEn' = FALSE /\ drvElapsed' = FALSE

\* The power-stage part of v2k_board_powerstage_cancel_start, and the whole
\* of v2k_board_fault_force_output_lock: both end with these writes.
CancelStart ==
  /\ ForceAndDisarm
  /\ DrvOff
  /\ phase' = "IDLE" /\ shutPending' = FALSE /\ shutComplete' = TRUE

\* v2k_board_powerstage_fail_start
FailStart ==
  /\ Disarm
  /\ DrvOff
  /\ phase' = "FAILED" /\ shutComplete' = TRUE
  /\ UNCHANGED shutPending

\* Slip: the post-trip hook is forgotten.
LatchWithoutShutdown ==
  /\ UserDisable
  /\ state' = "FAULT"
  /\ code' = IF dcFlag THEN "OVERCURRENT" ELSE "TZ1_EXT"
  /\ UNCHANGED <<phase, drvEn, drvElapsed, shutPending, shutComplete, tripAt>>

\* Slip: a fault code outside the contract's enumeration.
LatchUnknownCode ==
  /\ UserDisable
  /\ state' = "FAULT" /\ code' = "TZ2"
  /\ shutPending' = TRUE /\ shutComplete' = FALSE
  /\ UNCHANGED <<phase, drvEn, drvElapsed, tripAt>>

\* v2k_fault_latch, the trip-zone interrupt levels apart
Latch ==
  /\ UserDisable
  /\ state' = "FAULT"
  /\ code' = IF dcFlag THEN "OVERCURRENT" ELSE "TZ1_EXT"
  /\ shutPending' = TRUE /\ shutComplete' = FALSE
  /\ UNCHANGED <<phase, drvEn, drvElapsed, tripAt>>

-----------------------------------------------------------------------------
(* The background pass up to the poll.                                     *)

\* Slip: the post-trip shutdown leaves DRV_ENABLE high.
ServiceKeepsDriver ==
  /\ At("service")
  /\ Goto("poll")
  /\ \E ready \in {paramReady, TRUE} : paramReady' = ready
  /\ IF shutPending
       THEN /\ Disarm
            /\ shutPending' = FALSE /\ shutComplete' = TRUE
            /\ UNCHANGED <<phase, drvEn, drvElapsed>>
       ELSE UNCHANGED <<tzVars, powerVars>>
  /\ UNCHANGED <<inputVars, smVars, cmdVars, pubVars, hostVars, appEnabled,
                 resetActive, userRam, pwmDuty, relOk, tripAt>>

\* v2k_param_service may have taken a new commit earlier in the same pass.
Service ==
  /\ At("service")
  /\ Goto("poll")
  /\ \E ready \in {paramReady, TRUE} : paramReady' = ready
  /\ IF shutPending
       THEN /\ Disarm /\ DrvOff
            /\ shutPending' = FALSE /\ shutComplete' = TRUE /\ UNCHANGED phase
       ELSE UNCHANGED <<tzVars, powerVars>>
  /\ UNCHANGED <<inputVars, smVars, cmdVars, pubVars, hostVars, appEnabled,
                 resetActive, userRam, pwmDuty, relOk, tripAt>>

-----------------------------------------------------------------------------
(* v2k_fault_poll, first half: a start in progress.                        *)

BeginPoll ==
  /\ At("poll")
  /\ seqL' = cmdSeq
  /\ UNCHANGED <<inputVars, smVars, startPending, startSeq, ackSeq, cmdResult,
                 pubVars, hostVars, resetActive, userRam, paramReady, relOk,
                 tripAt>>

NotPolling ==   \* nothing changes beyond BeginPoll
  UNCHANGED <<tzVars, result, appEnabled, pwmDuty>>

PollIdle ==
  /\ BeginPoll /\ NotPolling /\ ~startPending
  /\ UNCHANGED powerVars
  /\ Goto("dispatch")

PollPending ==
  /\ BeginPoll /\ NotPolling /\ startPending
  /\ \/ phase = "SLEEP_WAIT" /\ approved /\ ~(~drvEn /\ drvElapsed)
     \/ phase = "WAKE_WAIT" /\ ~(drvEn /\ drvElapsed)
     \/ phase = "IDLE"
  /\ UNCHANGED powerVars
  /\ Goto("dispatch")

\* Slip: the driver is woken without looking at the approval.
PollWakeUnapproved ==
  /\ BeginPoll /\ NotPolling /\ startPending
  /\ phase = "SLEEP_WAIT" /\ ~drvEn /\ drvElapsed
  /\ phase' = "WAKE_WAIT" /\ drvEn' = TRUE /\ drvElapsed' = FALSE
  /\ shutComplete' = FALSE /\ UNCHANGED shutPending
  /\ Goto("dispatch")

\* v2k_board_drv8323rs_enable: ENABLE goes high and the wake wait starts.
PollWake ==
  /\ BeginPoll /\ NotPolling /\ startPending
  /\ phase = "SLEEP_WAIT" /\ approved /\ ~drvEn /\ drvElapsed
  /\ phase' = "WAKE_WAIT" /\ drvEn' = TRUE /\ drvElapsed' = FALSE
  /\ shutComplete' = FALSE /\ UNCHANGED shutPending
  /\ Goto("dispatch")

\* Unapproved configuration; nFAULT low, SPI or register read-back trouble,
\* a current out of its window after the wake.
PollFailed ==
  /\ BeginPoll /\ startPending
  /\ \/ phase = "FAILED" /\ UNCHANGED <<tzVars, powerVars>>
     \/ /\ \/ phase = "SLEEP_WAIT" /\ ~approved
           \/ phase = "WAKE_WAIT" /\ drvEn /\ drvElapsed
        /\ FailStart
  /\ appEnabled' = FALSE /\ pwmDuty' = "neutral" /\ result' = "NOT_READY"
  /\ Goto("startAck")

PollReady ==
  /\ BeginPoll /\ NotPolling /\ startPending
  /\ phase = "READY"
  /\ UNCHANGED powerVars
  /\ Goto("prepare")

PollArm ==
  /\ BeginPoll /\ startPending
  /\ phase = "WAKE_WAIT" /\ drvEn /\ drvElapsed /\ ~nFault
  /\ Arm
  /\ phase' = "READY"
  /\ UNCHANGED <<drvEn, drvElapsed, shutPending, shutComplete, result,
                 appEnabled, pwmDuty>>
  /\ Goto("prepare")

-----------------------------------------------------------------------------
(* A ready start: v2k_user_prepare_start, then the release of the lock.    *)

Prepare ==
  /\ At("prepare") /\ Goto("restore")
  /\ appEnabled' = FALSE /\ resetActive' = TRUE /\ userRam' = "partial"
  /\ UNCHANGED <<inputVars, tzVars, smVars, cmdVars, pubVars, hostVars,
                 paramReady, pwmDuty, powerVars, relOk, tripAt>>

\* The last word of v2k_user_restore: data copied and verified, bss cleared.
RestoreDone ==
  /\ At("restore") /\ Goto("setup")
  /\ userRam' = IF userRam = "partial" THEN "fresh" ELSE userRam
  /\ UNCHANGED <<inputVars, tzVars, smVars, cmdVars, pubVars, hostVars,
                 appEnabled, resetActive, paramReady, pwmDuty, powerVars,
                 relOk, tripAt>>

\* A CRC or layout check of v2k_user_restore fails.
RestoreFails ==
  /\ At("restore") /\ Goto("startAck")
  /\ resetActive' = FALSE
  /\ CancelStart
  /\ result' = "START_FAILED"
  /\ UNCHANGED <<inputVars, smVars, startPending, startSeq, seqL, ackSeq,
                 cmdResult, pubVars, hostVars, appEnabled, userRam, paramReady,
                 pwmDuty, relOk, tripAt>>

\* setup() is user code: it may call v2k_pwm_apply.
Setup ==
  /\ At("setup") /\ Goto("release")
  /\ \E d \in {pwmDuty, "setup"} : pwmDuty' = d
  /\ resetActive' = FALSE /\ appEnabled' = TRUE
  /\ UNCHANGED <<inputVars, tzVars, smVars, cmdVars, pubVars, hostVars,
                 userRam, paramReady, powerVars, relOk, tripAt>>

\* Slip: the neutral duties are not applied before the release.
ReleaseUnapplied ==
  /\ At("release") /\ Goto("clearOst")
  /\ ClearInterruptFlag
  /\ code' = "NONE" /\ state' = "RUNNING"
  /\ UNCHANGED <<inputVars, cmdVars, pubVars, hostVars, userVars, pwmDuty,
                 powerVars, relOk, tripAt>>

\* Slip: RUNNING is left to be set after the release.
ReleaseBeforeState ==
  /\ At("release") /\ Goto("clearOst")
  /\ pwmDuty' = "neutral"
  /\ ClearInterruptFlag
  /\ code' = "NONE" /\ UNCHANGED state
  /\ UNCHANGED <<inputVars, cmdVars, pubVars, hostVars, userVars, powerVars,
                 relOk, tripAt>>

\* v2k_board_output_apply of the neutral v2k_io, then RUNNING.
Release ==
  /\ At("release") /\ Goto("clearOst")
  /\ pwmDuty' = "neutral"
  /\ ClearInterruptFlag
  /\ code' = "NONE" /\ state' = "RUNNING"
  /\ UNCHANGED <<inputVars, cmdVars, pubVars, hostVars, userVars, powerVars,
                 relOk, tripAt>>

\* What the steps that only touch the hardware and release_ok leave alone.
OnlyTripZone ==
  UNCHANGED <<inputVars, smVars, cmdVars, pubVars, hostVars, userVars, pwmDuty,
              powerVars, tripAt>>

ReleaseClear ==
  /\ At("clearOst")
  /\ IF ReleaseRefused
       THEN relOk' = FALSE /\ UNCHANGED tzVars /\ Goto("check")
       ELSE ClearOst /\ UNCHANGED relOk /\ Goto("recheck")
  /\ OnlyTripZone

ReleaseRecheck ==
  /\ At("recheck")
  /\ IF ReleaseFailed
       THEN ForceOst /\ relOk' = FALSE /\ Goto("check")
       ELSE relOk' = TRUE /\ UNCHANGED tzVars /\ Goto("enableEint")
  /\ OnlyTripZone

\* Slip: only the PIE level of the trip interrupt is enabled.
StartSkipEint ==
  /\ At("enableEint") /\ Goto("enableIer")
  /\ UNCHANGED <<tzVars, relOk>> /\ OnlyTripZone

StartEnableEint ==
  /\ At("enableEint") /\ Goto("enableIer")
  /\ EnableEint /\ UNCHANGED relOk /\ OnlyTripZone

StartEnableIer ==
  /\ At("enableIer") /\ Goto("check")
  /\ EnableIer /\ UNCHANGED relOk /\ OnlyTripZone

\* v2k_fault_latch from the background: both interrupt levels go off.
StartCheck ==
  /\ At("check") /\ Goto("startAck")
  /\ IF ~relOk \/ ost \/ dcFlag
       THEN /\ Latch /\ result' = "START_FAILED"
            /\ pieIer' = FALSE /\ tzEint' = FALSE
            /\ UNCHANGED <<ost, dcFlag, tzInt, pieIfr, tripArmed>>
       ELSE /\ result' = "OK"
            /\ UNCHANGED <<tzVars, smVars, userVars, pwmDuty, powerVars, tripAt>>
  /\ UNCHANGED <<inputVars, startPending, startSeq, seqL, ackSeq, cmdResult,
                 pubVars, hostVars, relOk>>

\* Slip: the completion forgets the acknowledgement.
StartForgetAck ==
  /\ At("startAck") /\ Goto("startResult")
  /\ startPending' = FALSE
  /\ UNCHANGED <<inputVars, tzVars, smVars, startSeq, seqL, result, ackSeq,
                 cmdResult, pubVars, hostVars, userVars, pwmDuty, powerVars,
                 relOk, tripAt>>

StartAck ==
  /\ At("startAck") /\ Goto("startResult")
  /\ startPending' = FALSE /\ ackSeq' = startSeq
  /\ UNCHANGED <<inputVars, tzVars, smVars, startSeq, seqL, result, cmdResult,
                 pubVars, hostVars, userVars, pwmDuty, powerVars, relOk, tripAt>>

StartResult ==
  /\ At("startResult") /\ Goto("dispatch")
  /\ cmdResult' = result
  /\ UNCHANGED <<inputVars, tzVars, smVars, startPending, startSeq, seqL, result,
                 ackSeq, pubVars, hostVars, userVars, pwmDuty, powerVars, relOk,
                 tripAt>>

-----------------------------------------------------------------------------
(* v2k_fault_poll, second half: dispatch of a new command.                 *)

\* The conditions under which the code looks at cmd_code at all.
BeginDispatch(c) ==
  /\ At("dispatch") /\ ~startPending /\ seqL # ackSeq
  /\ cmdCode = c
  /\ UNCHANGED <<inputVars, seqL, ackSeq, cmdResult, pubVars, hostVars,
                 resetActive, userRam, paramReady, relOk>>

Complete(r) ==
  /\ result' = r
  /\ Goto("cmdAck")
  /\ UNCHANGED <<startPending, startSeq>>

DispatchNothing ==
  /\ At("dispatch") /\ Goto("publish")
  /\ startPending \/ seqL = ackSeq
  /\ UNCHANGED <<inputVars, tzVars, smVars, cmdVars, pubVars, hostVars, userVars,
                 pwmDuty, powerVars, relOk, tripAt>>

\* A command that changes nothing: NOP, an unknown code, or one the state
\* does not accept.
DispatchRefuse ==
  /\ \/ BeginDispatch("NOP") /\ Complete("OK")
     \/ BeginDispatch("OTHER") /\ Complete("BAD_CMD")
     \/ BeginDispatch("START") /\ state # "IDLE" /\ Complete("BAD_STATE")
     \/ BeginDispatch("STOP") /\ state # "RUNNING" /\ Complete("BAD_STATE")
     \/ BeginDispatch("CLEAR") /\ state # "FAULT" /\ Complete("BAD_STATE")
  /\ UNCHANGED <<tzVars, smVars, appEnabled, pwmDuty, powerVars, tripAt>>

\* Slip: the power-stage mode is not consulted.
DispatchStartAnyMode ==
  /\ BeginDispatch("START") /\ state = "IDLE"
  /\ ForceAndDisarm /\ DrvOff
  /\ pwmDuty' = "neutral"
  /\ shutPending' = FALSE /\ shutComplete' = TRUE
  /\ phase' = "SLEEP_WAIT"
  /\ startSeq' = seqL /\ startPending' = TRUE
  /\ tripAt' = "none"
  /\ Goto("publish")
  /\ UNCHANGED <<smVars, result, appEnabled>>

\* v2k_board_powerstage_start_begin
DispatchStart ==
  /\ BeginDispatch("START") /\ state = "IDLE"
  /\ ForceAndDisarm /\ DrvOff
  /\ pwmDuty' = "neutral"
  /\ shutPending' = FALSE /\ shutComplete' = TRUE
  /\ phase' = IF powered THEN "SLEEP_WAIT" ELSE "READY"
  /\ startSeq' = seqL /\ startPending' = TRUE
  /\ tripAt' = "none"
  /\ Goto("publish")
  /\ UNCHANGED <<smVars, result, appEnabled>>

DispatchStop ==
  /\ BeginDispatch("STOP") /\ state = "RUNNING"
  /\ appEnabled' = FALSE
  /\ pwmDuty' = IF pwmDuty = "user" THEN "stale" ELSE pwmDuty
  /\ Goto("stopNeutral")
  /\ UNCHANGED <<tzVars, smVars, startPending, startSeq, result, powerVars,
                 tripAt>>

\* v2k_board_fault_source_is_released
SourceIsReleased == shutComplete /\ ~drvEn /\ drvElapsed /\ ~nFault

DispatchClear ==
  /\ BeginDispatch("CLEAR") /\ state = "FAULT"
  /\ IF SourceIsReleased
       THEN /\ ClearInterruptFlag
            /\ code' = "NONE" /\ state' = "IDLE" /\ tripAt' = "none"
       ELSE UNCHANGED <<tzVars, smVars, tripAt>>
  /\ Complete("OK")
  /\ UNCHANGED <<appEnabled, pwmDuty, powerVars>>

-----------------------------------------------------------------------------
(* The rest of APP_STOP.  The trip interrupt can still preempt before the  *)
(* PIE level is off; after that a trip is seen by nobody.                  *)

StopStep(p, q) ==
  /\ At(p) /\ Goto(q)
  /\ UNCHANGED <<inputVars, cmdVars, pubVars, hostVars, userVars, relOk, tripAt>>

StopNeutral ==   \* v2k_board_output_apply of the neutral v2k_io
  /\ StopStep("stopNeutral", "stopIer")
  /\ pwmDuty' = "neutral"
  /\ UNCHANGED <<tzVars, smVars, powerVars>>

StopDisableIer ==
  /\ StopStep("stopIer", "stopEint") /\ DisableIer
  /\ UNCHANGED <<smVars, pwmDuty, powerVars>>

StopDisableEint ==
  /\ StopStep("stopEint", "stopLock") /\ DisableEint
  /\ UNCHANGED <<smVars, pwmDuty, powerVars>>

StopForceLock ==
  /\ StopStep("stopLock", "stopClear") /\ CancelStart
  /\ UNCHANGED <<smVars, pwmDuty>>

StopClearFlag ==
  /\ StopStep("stopClear", "stopState") /\ ClearInterruptFlag
  /\ UNCHANGED <<smVars, pwmDuty, powerVars>>

\* Slip: the race guard is dropped.
StopToIdleUnguarded ==
  /\ At("stopState") /\ Goto("cmdAck")
  /\ state' = "IDLE" /\ CancelStart
  /\ result' = "OK"
  /\ UNCHANGED <<inputVars, code, startPending, startSeq, seqL, ackSeq, cmdResult,
                 pubVars, hostVars, userVars, pwmDuty, relOk, tripAt>>

\* A trip that beat the STOP keeps FAULT; otherwise IDLE and the board part
\* once more (v2k_board_powerstage_cancel_start).
StopToIdle ==
  /\ At("stopState") /\ Goto("cmdAck")
  /\ IF state = "RUNNING"
       THEN state' = "IDLE" /\ CancelStart
       ELSE UNCHANGED <<state, tzVars, powerVars>>
  /\ result' = "OK"
  /\ UNCHANGED <<inputVars, code, startPending, startSeq, seqL, ackSeq, cmdResult,
                 pubVars, hostVars, userVars, pwmDuty, relOk, tripAt>>

-----------------------------------------------------------------------------
(* Completion, and the status words CPU2 reads.                            *)

CommandAck ==
  /\ At("cmdAck") /\ Goto("cmdResult")
  /\ ackSeq' = seqL
  /\ UNCHANGED <<inputVars, tzVars, smVars, startPending, startSeq, seqL, result,
                 cmdResult, pubVars, hostVars, userVars, pwmDuty, powerVars,
                 relOk, tripAt>>

CommandResult ==
  /\ At("cmdResult") /\ Goto("publish")
  /\ cmdResult' = result
  /\ UNCHANGED <<inputVars, tzVars, smVars, startPending, startSeq, seqL, result,
                 ackSeq, pubVars, hostVars, userVars, pwmDuty, powerVars, relOk,
                 tripAt>>

PublishState ==
  /\ At("publish") /\ Goto("publishCode")
  /\ pubState' = state
  /\ UNCHANGED <<inputVars, tzVars, smVars, cmdVars, pubCode, hostVars, userVars,
                 pwmDuty, powerVars, relOk, tripAt>>

PublishCode ==
  /\ At("publishCode") /\ Goto("service")
  /\ pubCode' = code
  /\ UNCHANGED <<inputVars, tzVars, smVars, cmdVars, pubState, hostVars, userVars,
                 pwmDuty, powerVars, relOk, tripAt>>

Background ==
  \/ Service
  \/ PollIdle \/ PollPending \/ PollWake \/ PollFailed \/ PollReady \/ PollArm
  \/ Prepare \/ RestoreDone \/ RestoreFails \/ Setup \/ Release
  \/ ReleaseClear \/ ReleaseRecheck \/ StartEnableEint \/ StartEnableIer
  \/ StartCheck \/ StartAck \/ StartResult
  \/ DispatchNothing \/ DispatchRefuse \/ DispatchStart \/ DispatchStop
  \/ DispatchClear
  \/ StopNeutral \/ StopDisableIer \/ StopDisableEint \/ StopForceLock
  \/ StopClearFlag \/ StopToIdle
  \/ CommandAck \/ CommandResult \/ PublishState \/ PublishCode

-----------------------------------------------------------------------------
(* Interrupts.                                                             *)

\* v2k_tz_isr
TzIsr ==
  /\ TripIrqPending
  /\ Latch
  /\ TakeTripInterrupt
  /\ UNCHANGED <<inputVars, pc, cmdVars, pubVars, hostVars, relOk>>

\* The parts of v2k_executor_isr that touch this state: on a due tick a
\* prepared parameter batch goes into user RAM, then control() may run.
ParamAppliesAlways(due) == due /\ paramReady  \* slip: reset not consulted
ParamApplies(due) == due /\ paramReady /\ ~resetActive
ControlRuns == state = "RUNNING" /\ appEnabled

ControlIsr ==
  \E due \in BOOLEAN :
    /\ ParamApplies(due) \/ ControlRuns
    /\ paramReady' = (paramReady /\ ~ParamApplies(due))
    /\ userRam' = IF userRam \in {"partial", "torn"} THEN "torn" ELSE "used"
    /\ \E d \in {pwmDuty, "user"} : (d # pwmDuty => ControlRuns) /\ pwmDuty' = d
    /\ UNCHANGED <<inputVars, tzVars, pc, smVars, cmdVars, pubVars, hostVars,
                   appEnabled, resetActive, powerVars, relOk, tripAt>>

-----------------------------------------------------------------------------
(* Environment: the trip sources, the 1 ms driver wait, and CPU2.          *)

OutsideBackground ==
  UNCHANGED <<pc, smVars, cmdVars, pubVars, userVars, pwmDuty, relOk>>

\* A source trips; with WindowTrips off, never between the two writes of
\* v2k_board_pwm_disable_trip_irq, a window of some tens of CPU cycles.
Trip ==
  /\ WindowTrips \/ pc # "stopEint"
  /\ FaultPinAsserts \/ CurrentLeavesWindow
  /\ tripAt' = IF state # "RUNNING" \/ ost \/ ~ost' THEN tripAt
               ELSE IF pc \in {"stopEint", "stopLock"} THEN "stop" ELSE "run"
  /\ UNCHANGED <<hostVars, powerVars>> /\ OutsideBackground

TripSourceReleases ==
  /\ SourceReleases
  /\ UNCHANGED <<hostVars, powerVars, tripAt>> /\ OutsideBackground

\* The 32-bit cycle count passes the 1 ms wait of v2k_board_drv8323rs_*;
\* 21 s later the difference wraps and the wait seems not over for 1 ms.
DrvTimerElapse ==
  /\ ~drvElapsed /\ drvElapsed' = TRUE
  /\ UNCHANGED <<inputVars, tzVars, hostVars, phase, drvEn, shutPending,
                 shutComplete, tripAt>>
  /\ OutsideBackground

\* A start polls its waits every 1 ms and never lets one get that old.
DrvTimerWrap ==
  /\ drvElapsed /\ phase \notin {"SLEEP_WAIT", "WAKE_WAIT"}
  /\ drvElapsed' = FALSE
  /\ UNCHANGED <<inputVars, tzVars, hostVars, phase, drvEn, shutPending,
                 shutComplete, tripAt>>
  /\ OutsideBackground

\* v2k_handle_cmd on CPU2: BUSY until the last command is acknowledged.
HostCommand ==
  /\ cmdSeq = ackSeq /\ cmdSeq < MaxCmds
  /\ cmdSeq' = cmdSeq + 1
  /\ \E c \in Cmds : cmdCode' = c
  /\ UNCHANGED <<inputVars, tzVars, boardVars, powerVars, tripAt>>
  /\ OutsideBackground

Next ==
  \/ Background \/ TzIsr \/ ControlIsr
  \/ Trip \/ TripSourceReleases \/ DrvTimerElapse \/ DrvTimerWrap
  \/ HostCommand

Spec == Init /\ [][Next]_vars

\* The 1 ms loop never stops, a pending interrupt is taken, time passes.
\* Nothing is assumed of the trip sources, of the host or of control().
Fairness == WF_vars(Background) /\ WF_vars(TzIsr) /\ WF_vars(DrvTimerElapse)
FairSpec == Spec /\ Fairness

-----------------------------------------------------------------------------
(* Properties.                                                             *)

\* Every variable of the protection layer stays in the range its C type and
\* its enumeration give it: the hardware and software flags, and the
\* enumerations and counters.
BoardOK == powered \in BOOLEAN /\ approved \in BOOLEAN

FlagsOK ==
  /\ startPending \in BOOLEAN
  /\ appEnabled \in BOOLEAN /\ resetActive \in BOOLEAN
  /\ paramReady \in BOOLEAN
  /\ drvEn \in BOOLEAN /\ drvElapsed \in BOOLEAN
  /\ shutPending \in BOOLEAN /\ shutComplete \in BOOLEAN
  /\ relOk \in BOOLEAN

ValuesOK ==
  /\ pc \in Pcs /\ state \in States /\ code \in Codes
  /\ startSeq \in Nat /\ seqL \in Nat /\ ackSeq \in Nat /\ cmdSeq \in Nat
  /\ result \in Results /\ cmdResult \in Results
  /\ pubState \in States /\ pubCode \in Codes /\ cmdCode \in Cmds
  /\ userRam \in {"used", "partial", "fresh", "torn"}
  /\ pwmDuty \in {"neutral", "user", "setup", "stale"}
  /\ phase \in Phases /\ tripAt \in {"none", "run", "stop"}

TypeOK == TripZoneTypeOK /\ BoardOK /\ FlagsOK /\ ValuesOK

\* IDLE and FAULT have the outputs locked by OST whatever interrupts, trips
\* and commands interleave (contracts/v2k_command.h, v2k_fault.h).
LockedUnlessRunning == state # "RUNNING" => ost

\* Both trip interrupt levels are off outside RUNNING, so that a latched OST
\* can cause neither an interrupt storm nor a stale PIE flag.
IrqOnlyRunning == tzEint \/ pieIer => state = "RUNNING"

\* Once a start is through and no stop has begun, RUNNING with the latch
\* closed always has the trip interrupt on its way: no trip leaves the
\* machine stuck in RUNNING behind a closed lock.
NoSilentTrip ==
  state = "RUNNING" /\ ost /\ pc \notin StartPcs \cup StopPcs => TripIrqPending

\* A trip that closed the lock of a running machine is never forgotten: the
\* machine does not reach IDLE without having passed through FAULT, even if
\* a STOP was being dispatched when it struck.
TripNotLost == state = "IDLE" => tripAt # "run"

\* The stronger claim of docs/protection-architecture.md: a real trip racing
\* a command is never silently overwritten.
TripNeverOverwritten == state = "IDLE" => tripAt = "none"

\* contracts/v2k_command.h: cmd_result is the result corresponding to
\* ack_seq, so a result never changes under an acknowledgement already given.
ResultFinal == [][ackSeq' = ackSeq => cmdResult' = cmdResult]_vars

\* Nothing but an approved POWERED configuration ever wakes the gate driver,
\* and an unapproved POWERED one never leaves the locked states.
GateSleepsUnlessApproved ==
  /\ drvEn => powered /\ approved
  /\ powered /\ ~approved => ost /\ state = "IDLE"

\* An awake gate driver behind open outputs means RUNNING, or a shutdown the
\* next background pass completes.
EnergizedOnlyRunning == drvEn /\ ~ost => state = "RUNNING" \/ shutPending

\* Open outputs never show duties the platform did not release: not what
\* setup() wrote, and not what an application that is now disabled left
\* behind, but for the instant a STOP needs to write the neutral ones.
OpenOutputsAreLive ==
  ~ost /\ pc # "stopNeutral" => pwmDuty \in {"neutral", "user"}

\* The application only runs on a RAM image that was restored as a whole: no
\* parameter batch is written into it while it is being restored.
EnabledAppIsWhole == appEnabled => userRam \in {"fresh", "used"}

-----------------------------------------------------------------------------
(* The inductive invariant behind the safety properties.  SafetyInv holds  *)
(* on every board; LockInv needs WindowTrips to be off.                    *)

PreparePcs == {"prepare", "restore", "setup", "release"}
IrqOffPcs  == {"stopLock", "stopClear", "stopState"}

\* The place of the background pass against the state of the machine.
ModeInv ==
  /\ startPending => state = "IDLE" \/ pc \in StartPcs \cup {"startAck"}
  /\ pc \in PreparePcs => startPending /\ state = "IDLE"
  /\ pc \in StartPcs \ {"check"} => state = "RUNNING"
  /\ pc \in StopPcs \cup {"check"} => state # "IDLE"
  /\ pc \in {"enableEint", "enableIer"} => relOk

\* Where the two interrupt levels are on and off.
IrqInv ==
  /\ IrqOnlyRunning
  /\ pc \in {"clearOst", "recheck", "enableEint"} => ~tzEint /\ ~pieIer
  /\ pc = "enableIer" => tzEint /\ ~pieIer
  /\ pc = "check" /\ ~relOk => ~tzEint /\ ~pieIer
  /\ pc = "check" /\ relOk /\ state = "RUNNING" => tzEint /\ pieIer
  /\ pc = "stopEint" => ~pieIer
  /\ pc \in IrqOffPcs => ~tzEint /\ ~pieIer
  /\ state = "RUNNING" /\ pc \notin StartPcs \cup {"stopEint"} \cup IrqOffPcs
       => tzEint /\ pieIer

\* With TZEINT.OST on, a latched OST or a set INT has its PIE flag set; a
\* current trip leaves its mark only on an armed path behind a closed lock.
FlagInv ==
  /\ tzEint /\ (ost \/ tzInt) => pieIfr
  /\ pc \in {"recheck", "enableEint"} => ~tzInt
  /\ dcFlag => tripArmed /\ ost
  /\ pc \in {"clearOst", "stopClear", "stopState"} => ost
  /\ pc = "check" /\ ~relOk => ost

\* Outside RUNNING an awake driver has a start or a shutdown going on.
DriverInv ==
  /\ startPending /\ state = "IDLE" => ost
  /\ ~startPending /\ state = "IDLE" => ~drvEn
  /\ state = "FAULT" /\ ~shutPending => ~drvEn
  /\ phase = "FAILED" => ~drvEn
  /\ pc = "startAck" /\ state = "IDLE" => ~drvEn

\* A recorded trip is still on its way to the state machine.
HistoryInv ==
  /\ TripNotLost
  /\ startPending /\ state = "IDLE" => tripAt = "none"
  /\ pc = "clearOst" => tripAt = "none"
  /\ tripAt = "run" /\ state = "RUNNING" =>
       /\ ost
       /\ \/ TripIrqPending \/ pc \in {"recheck", "enableEint", "enableIer"}
          \/ pc = "check" /\ ~relOk

SafetyInv == ModeInv /\ IrqInv /\ FlagInv /\ DriverInv /\ HistoryInv

\* A PIE flag is never stale: the latch that set it is still closed and its
\* interrupt is enabled or about to be.
LockInv ==
  /\ LockedUnlessRunning
  /\ pieIfr => ost /\ tzEint /\ (pieIer \/ pc = "enableIer")

-----------------------------------------------------------------------------
(* Liveness and refinement.                                                *)

\* Every command the host issues is answered, however trips interleave.
CommandAnswered == \A n \in 1..MaxCmds : cmdSeq = n ~> ackSeq = n

\* A trip puts an awake gate driver to sleep.
TripSleepsDriver == state = "FAULT" /\ drvEn ~> ~drvEn

\* The protection promise: FaultLatch implements Protection.
Promise == INSTANCE Protection WITH mode <- state, locked <- ost
ImplementsPromise == Promise!Spec
=============================================================================
