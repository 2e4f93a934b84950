-------------------------------- MODULE Scope --------------------------------
(***************************************************************************)
(* The scope: the producer on CPU1 (cpu1/runtime/v2k_scope_runtime.c), the *)
(* protocol services on CPU2 (cpu2/v2k_scope_protocol.c with the consumer  *)
(* of common/v2k_scope_consumer.h) and the shared words between them       *)
(* (contracts/v2k_scope.h).  Three threads interleave:                     *)
(*   - the control interrupt of CPU1 samples into the ring; it preempts    *)
(*     the background of CPU1 but not CPU2;                                *)
(*   - the background of CPU1 takes requests and applies them, one action  *)
(*     per group of writes another thread can observe half done (pc1);     *)
(*   - the main loop of CPU2 publishes a request, waits up to 3 ms for its *)
(*     acknowledgement, and copies blocks out (pc2).                       *)
(* Time is counted in sampled ticks; a sample is the tick it was taken at. *)
(***************************************************************************)
EXTENDS ScopeRing, FiniteSets

CONSTANTS
  Capacities,    \* ring capacities the bindings of the host give
  NTicks,        \* block_n_ticks
  Points,        \* record_points the host asks for
  Percents,      \* pre_trig_pct the host asks for
  Modes,         \* target modes the host asks for
  LiveReconfig,  \* the host may reconfigure a scope that is sampling
  Timeouts,      \* CPU1 may take more than 3 ms to answer a request
  MaxTick,       \* bound on the sampled ticks
  MaxCfgs, MaxBinds, MaxForces, MaxReplays   \* bounds on the requests of each kind

ASSUME RingAssumption ==
  /\ NTicks \in Nat \ {0}
  /\ IsFiniteSet(Capacities) /\ Capacities \subseteq 1 .. 16383
ASSUME RequestAssumption ==
  /\ Points \subseteq Nat /\ Percents \subseteq 0 .. 100
  /\ Modes \subseteq {"OFF", "STREAM", "ARMED"}
ASSUME HostAssumption ==
  /\ LiveReconfig \in BOOLEAN /\ Timeouts \in BOOLEAN /\ MaxTick \in Nat
  /\ {MaxCfgs, MaxBinds, MaxForces, MaxReplays} \subseteq Nat

VARIABLES
  \* the interrupt's side of v2k_scope_runtime.c
  tick, active,     \* sampled ticks so far, s_scope_active
  ring,             \* the ring and its writer: slots, wr (prod->wr_idx), sib
                    \* (sample_in_block), drop, seq (block_seq), pub
                    \* (published_count)
  win,              \* the capture window: total, post, pre, target
  trig,             \* trigger_armed, force_pending, post_remaining, trig_tick
  noTrig,           \* s_active_cfg.flags: TRIGGER_DISABLED
  ending,           \* the interrupt is between the mode and the state_seq of
                    \* v2k_freeze
  \* the rest of the producer block
  mode, stateSeq, cap, bound, frozenEnd, frozenCount,
  cfgAck, bindAck, forceAck,
  \* the background
  pc1, rdCache, cfgPend, bindPend, forcePend, seen,
  \* CPU2: its shared words, then its own
  rd, cfgReq, bindReq, forceReq,
  pc2, seenSeq,
  view, batch,      \* the block being copied out, the blocks copied so far
  push,             \* the frozen capture being pushed: id (-1 if none), total,
                    \* next, active
  replay,           \* the part of it pushed again: next, stop, active; asked
                    \* counts the requests
  \* history
  lastBlk,          \* the last stream block sent since CPU2 resynchronised
  arms, forcedArm   \* arm generations so far, and that of an accepted force

isrVars  == <<tick, active, ring, win, trig, noTrig, ending>>
prodVars == <<mode, stateSeq, frozenEnd, frozenCount>>
ackVars  == <<cfgAck, bindAck, forceAck>>
pendVars == <<cfgPend, bindPend, forcePend, seen>>
reqVars  == <<cfgReq, bindReq, forceReq>>
cpu1Vars == <<isrVars, prodVars, cap, bound, ackVars, pc1, rdCache, pendVars,
              arms, forcedArm>>
outVars  == <<view, batch, push, replay, lastBlk>>
cpu2Vars == <<rd, reqVars, pc2, seenSeq, outVars>>
vars     == <<cpu1Vars, cpu2Vars>>

None == [none |-> TRUE]   \* no pending request, no block
Maxi(S) == CHOOSE x \in S : \A y \in S : y <= x
Slots == 0 .. Maxi(Capacities) - 1
Ticks == 0 .. MaxTick     \* 0: a word no sample was written to
NoBlock == [start |-> 0, seq |-> 0, n |-> 0, data |-> [k \in 1 .. NTicks |-> 0]]
NoWindow == [total |-> 0, post |-> 0, pre |-> 0, target |-> 0]
NoReplay(n) == [next |-> 0, stop |-> 0, active |-> FALSE, asked |-> n]
Off == [mode |-> "OFF", points |-> 0, pct |-> 0, noTrig |-> FALSE]

Cfgs == {c \in [mode : Modes, points : Points \cup {0}, pct : Percents \cup {0},
                noTrig : BOOLEAN] :
           IF c.mode = "ARMED" THEN c.points # 0 ELSE c = [Off EXCEPT !.mode = c.mode]}

Init ==
  /\ tick = 0 /\ active = FALSE /\ win = NoWindow /\ noTrig = FALSE
  /\ ring = [slots |-> [s \in Slots |-> NoBlock], wr |-> 0, sib |-> 0,
             drop |-> FALSE, seq |-> 0, pub |-> 0]
  /\ trig = [armed |-> FALSE, force |-> FALSE, left |-> 0, at |-> 0]
  /\ ending = FALSE
  /\ mode = "OFF" /\ stateSeq = 0 /\ cap = 0 /\ bound = FALSE
  /\ frozenEnd = 0 /\ frozenCount = 0
  /\ cfgAck = 0 /\ bindAck = 0 /\ forceAck = 0
  /\ pc1 = "service" /\ rdCache = 0
  /\ cfgPend = None /\ bindPend = None /\ forcePend = None
  /\ seen = [cfg |-> 0, bind |-> 0, force |-> 0]
  /\ rd = 0 /\ cfgReq = [body |-> Off, seq |-> 0]
  /\ bindReq = [cap |-> 0, seq |-> 0]
  /\ forceReq = [state |-> 0, arm |-> 0, seq |-> 0]
  /\ pc2 = "loop" /\ seenSeq = -1 /\ view = None /\ batch = 0
  /\ push = [id |-> -1, total |-> 0, next |-> 0, active |-> FALSE]
  /\ replay = NoReplay(0)
  /\ lastBlk = None /\ arms = 0 /\ forcedArm = 0

-----------------------------------------------------------------------------
(* The control interrupt: v2k_scope_sample_one.                            *)

\* Mutant: published_count not held at the capacity.
PublishUncapped(r, n) ==
  [r EXCEPT !.slots[RingPos(r.wr, cap)].n = n, !.wr = RingNext(r.wr, cap),
            !.seq = @ + 1, !.pub = @ + 1, !.sib = 0]

\* v2k_publish_block
Publish(r, n) ==
  [r EXCEPT !.slots[RingPos(r.wr, cap)].n = n, !.wr = RingNext(r.wr, cap),
            !.seq = @ + 1, !.pub = IF @ < cap THEN @ + 1 ELSE @, !.sib = 0]

\* Mutant: the full ring is noticed one block late.
DropsLate == mode = "STREAM" /\ RingDist(ring.wr, rdCache, cap) > cap

DropsBlock == mode = "STREAM" /\ RingDist(ring.wr, rdCache, cap) >= cap

\* The head of a block and one sample tick, unless the block is dropped.
Store ==
  LET drop == IF ring.sib = 0 THEN DropsBlock ELSE ring.drop
      old  == ring.slots[RingPos(ring.wr, cap)]
      head == IF ring.sib = 0
              THEN [old EXCEPT !.start = tick + 1, !.seq = ring.seq, !.n = NTicks]
              ELSE old
      blk  == [head EXCEPT !.data[ring.sib + 1] = tick + 1]
  IN [ring EXCEPT !.drop = drop, !.sib = @ + 1,
        !.slots[RingPos(ring.wr, cap)] = IF drop THEN old ELSE blk]

\* Mutant: a lost block takes no number.
CompleteSilently(r) ==
  IF r.sib < NTicks THEN r
  ELSE IF r.drop THEN [r EXCEPT !.sib = 0]
  ELSE Publish(r, NTicks)

\* A block whose last tick was just stored is published, or counted as lost.
Complete(r) ==
  IF r.sib < NTicks THEN r
  ELSE IF r.drop THEN [r EXCEPT !.sib = 0, !.seq = @ + 1]
  ELSE Publish(r, NTicks)

\* v2k_capture_trigger_ready
TriggerReady(r) ==
  LET stored == r.pub * NTicks + r.sib
      capped == IF stored > win.total THEN win.total ELSE stored
  IN win.total # 0 /\ capped > 0 /\ capped - 1 >= win.pre

\* Mutant: the block being filled is left out of the frozen window.
FrozenRingWhole(r) == [r EXCEPT !.sib = 0]

\* v2k_freeze up to the mode of its transition
FrozenRing(r) == IF r.sib = 0 THEN r ELSE Publish(r, r.sib)
FrozenBlocks(r) ==
  IF win.target # 0 /\ r.pub > win.target THEN win.target ELSE r.pub

\* near and far: the source is at or beyond the level minus and plus the
\* hysteresis, seen from the side the edge starts at; both, when these meet.
Sample ==
  /\ active /\ ~ending /\ tick < MaxTick
  /\ \E near, far \in BOOLEAN :
       LET ready  == mode = "ARMED" /\ TriggerReady(Store)
           hit    == ready /\ (trig.force \/ (~noTrig /\ trig.armed /\ far))
           arming == ready /\ ~trig.force /\ ~noTrig /\ ~trig.armed /\ near
           left   == IF hit THEN win.post - 1
                     ELSE IF mode = "POST" /\ trig.left > 0 THEN trig.left - 1
                     ELSE trig.left
           freeze == (hit \/ mode = "POST") /\ left = 0
           r      == Complete(Store)
       IN /\ near \/ far => ready /\ ~trig.force /\ ~noTrig
          /\ tick' = tick + 1
          /\ trig' = [armed |-> ~hit /\ (trig.armed \/ arming),
                      force |-> trig.force /\ ~hit, left |-> left,
                      at |-> IF hit THEN tick + 1 ELSE trig.at]
          /\ stateSeq' = IF hit THEN stateSeq + 1 ELSE stateSeq
          /\ ending' = freeze
          /\ IF freeze
               THEN /\ ring' = FrozenRing(r) /\ mode' = "FROZEN"
                    /\ frozenEnd' = FrozenRing(r).wr
                    /\ frozenCount' = FrozenBlocks(FrozenRing(r))
               ELSE /\ ring' = r /\ mode' = IF hit THEN "POST" ELSE mode
                    /\ UNCHANGED <<frozenEnd, frozenCount>>
  /\ UNCHANGED <<active, win, noTrig, cap, bound, ackVars, pc1, rdCache,
                 pendVars, arms, forcedArm>>
  /\ UNCHANGED cpu2Vars

\* The rest of v2k_freeze.
FreezeEnds ==
  /\ ending /\ ending' = FALSE
  /\ stateSeq' = stateSeq + 1 /\ active' = FALSE
  /\ UNCHANGED <<tick, ring, win, trig, noTrig, mode, frozenEnd, frozenCount, cap,
                 bound, ackVars, pc1, rdCache, pendVars, arms, forcedArm>>
  /\ UNCHANGED cpu2Vars

-----------------------------------------------------------------------------
(* The background of CPU1: v2k_scope_service takes a request when its      *)
(* sequence number is new and the same before and after the copy.          *)

At1(p) == pc1 = p /\ ~ending   \* the interrupt preempts the background
Goto1(p) == pc1' = p

\* The next request v2k_scope_apply_ready finds pending.
NextApply(b, c, f) == IF b # None THEN "applyBind" ELSE IF c # None THEN "applyCfg"
                      ELSE IF f # None THEN "applyForce" ELSE "service"

\* What most steps of the background leave alone.
NoSampling == UNCHANGED <<isrVars, prodVars, cap, bound>>
NoRequest  == UNCHANGED <<ackVars, rdCache, pendVars>>
NoHistory  == UNCHANGED <<arms, forcedArm>>

PostSamples(total, pct) ==   \* v2k_capture_post_samples
  LET post == total - (total * pct) \div 100 IN IF post = 0 THEN 1 ELSE post
TargetBlocks(total) == (total + NTicks - 1) \div NTicks + 1

\* v2k_validate_cfg
ValidCfg(c) ==
  /\ c.noTrig => c.mode = "ARMED"
  /\ c.mode # "OFF" => bound
  /\ c.mode = "ARMED" => c.points # 0 /\ TargetBlocks(c.points) <= cap

CacheReadIndex ==
  /\ At1("service") /\ Goto1("cfg")
  /\ rdCache' = rd
  /\ NoSampling /\ NoHistory /\ UNCHANGED <<ackVars, pendVars, cpu2Vars>>

CopyCfg ==
  /\ At1("cfg")
  /\ IF cfgPend = None /\ cfgReq.seq \notin {seen.cfg, cfgAck}
       THEN /\ cfgPend' = [body |-> cfgReq.body, seq |-> cfgReq.seq, ok |-> FALSE]
            /\ Goto1("cfgCheck")
       ELSE UNCHANGED cfgPend /\ Goto1("bind")
  /\ NoSampling /\ NoHistory
  /\ UNCHANGED <<ackVars, rdCache, bindPend, forcePend, seen, cpu2Vars>>

CheckCfg ==
  /\ At1("cfgCheck") /\ Goto1("bind")
  /\ IF cfgReq.seq = cfgPend.seq
       THEN /\ cfgPend' = [cfgPend EXCEPT !.ok = ValidCfg(cfgPend.body)]
            /\ seen' = [seen EXCEPT !.cfg = cfgPend.seq]
       ELSE cfgPend' = None /\ UNCHANGED seen
  /\ NoSampling /\ NoHistory
  /\ UNCHANGED <<ackVars, rdCache, bindPend, forcePend, cpu2Vars>>

CopyBind ==
  /\ At1("bind")
  /\ IF bindPend = None /\ bindReq.seq \notin {seen.bind, bindAck}
       THEN /\ bindPend' = [cap |-> bindReq.cap, seq |-> bindReq.seq, ok |-> FALSE]
            /\ Goto1("bindCheck")
       ELSE UNCHANGED bindPend /\ Goto1("force")
  /\ NoSampling /\ NoHistory
  /\ UNCHANGED <<ackVars, rdCache, cfgPend, forcePend, seen, cpu2Vars>>

\* The addresses and types of the binding may be refused.
CheckBind ==
  /\ At1("bindCheck") /\ Goto1("force")
  /\ IF bindReq.seq = bindPend.seq
       THEN /\ \E valid \in BOOLEAN : bindPend' = [bindPend EXCEPT !.ok = valid]
            /\ seen' = [seen EXCEPT !.bind = bindPend.seq]
       ELSE bindPend' = None /\ UNCHANGED seen
  /\ NoSampling /\ NoHistory
  /\ UNCHANGED <<ackVars, rdCache, cfgPend, forcePend, cpu2Vars>>

CopyForce ==
  /\ At1("force")
  /\ IF forcePend = None /\ forceReq.seq \notin {seen.force, forceAck}
       THEN forcePend' = forceReq /\ Goto1("forceCheck")
       ELSE UNCHANGED forcePend /\ Goto1(NextApply(bindPend, cfgPend, forcePend))
  /\ NoSampling /\ NoHistory
  /\ UNCHANGED <<ackVars, rdCache, cfgPend, bindPend, seen, cpu2Vars>>

CheckForce ==
  /\ At1("forceCheck")
  /\ IF forceReq.seq = forcePend.seq
       THEN UNCHANGED forcePend /\ seen' = [seen EXCEPT !.force = forcePend.seq]
       ELSE forcePend' = None /\ UNCHANGED seen
  /\ Goto1(NextApply(bindPend, cfgPend, forcePend'))
  /\ NoSampling /\ NoHistory
  /\ UNCHANGED <<ackVars, rdCache, cfgPend, bindPend, cpu2Vars>>

-----------------------------------------------------------------------------
(* v2k_scope_apply_ready: bind, then configuration, then force.            *)

Garbled == [NoBlock EXCEPT !.n = NTicks]   \* a slot read in another geometry

ApplyBind ==
  /\ At1("applyBind") /\ Goto1(NextApply(None, cfgPend, forcePend))
  /\ IF mode = "OFF" /\ bindPend.ok
       THEN /\ cap' = bindPend.cap /\ bound' = TRUE
            /\ ring' = [ring EXCEPT !.wr = 0, !.sib = 0, !.pub = 0,
                          !.slots = IF cap \in {0, bindPend.cap} THEN @
                                    ELSE [s \in Slots |-> Garbled]]
       ELSE UNCHANGED <<ring, cap, bound>>
  /\ bindAck' = bindPend.seq /\ bindPend' = None
  /\ NoHistory
  /\ UNCHANGED <<tick, active, win, trig, noTrig, ending, prodVars, cfgAck,
                 forceAck, rdCache, cfgPend, forcePend, seen, cpu2Vars>>

\* The reset both kinds of configuration begin with, but for published_count.
ResetCapture ==
  /\ win' = NoWindow
  /\ trig' = [trig EXCEPT !.armed = FALSE, !.force = FALSE, !.left = 0]

CfgStep(p, q) ==
  /\ At1(p) /\ Goto1(q)
  /\ UNCHANGED <<tick, ending, cap, bound, bindAck, forceAck, rdCache, bindPend,
                 forcePend, seen, forcedArm, cpu2Vars>>

CfgRefused == ~cfgPend.ok \/ (mode = "POST" /\ cfgPend.body.mode # "OFF")

\* Mutant: a refused configuration returns early, without its acknowledgement.
CfgRefuseSilently ==
  /\ CfgStep("applyCfg", NextApply(None, None, forcePend)) /\ CfgRefused
  /\ cfgPend' = None
  /\ UNCHANGED <<active, ring, win, trig, noTrig, prodVars, cfgAck, arms>>

CfgRefuse ==
  /\ CfgStep("applyCfg", "cfgAck") /\ CfgRefused
  /\ UNCHANGED <<active, ring, win, trig, noTrig, prodVars, cfgAck, cfgPend, arms>>

\* OFF detaches the interrupt before anything else.
CfgOff ==
  /\ CfgStep("applyCfg", "cfgMode")
  /\ ~CfgRefused /\ cfgPend.body.mode = "OFF"
  /\ active' = FALSE
  /\ ring' = [ring EXCEPT !.sib = 0, !.drop = FALSE] /\ ResetCapture
  /\ UNCHANGED <<noTrig, prodVars, cfgAck, cfgPend, arms>>

CfgAccept ==
  /\ CfgStep("applyCfg", "cfgReset")
  /\ ~CfgRefused /\ cfgPend.body.mode # "OFF"
  /\ UNCHANGED <<active, ring, win, trig, noTrig, prodVars, cfgAck, cfgPend, arms>>

CfgReset ==
  /\ CfgStep("cfgReset", "cfgFrozen")
  /\ ring' = [ring EXCEPT !.sib = 0, !.drop = FALSE, !.pub = 0] /\ ResetCapture
  /\ UNCHANGED <<active, noTrig, prodVars, cfgAck, cfgPend, arms>>

CfgFrozen ==
  /\ CfgStep("cfgFrozen", "cfgIndex")
  /\ frozenCount' = 0 /\ frozenEnd' = 0 /\ noTrig' = cfgPend.body.noTrig
  /\ UNCHANGED <<active, ring, win, trig, mode, stateSeq, cfgAck, cfgPend, arms>>

\* STREAM starts empty where the consumer reads; a capture starts at slot 0,
\* with v2k_prepare_capture_window.
CfgIndex ==
  /\ CfgStep("cfgIndex", "cfgMode")
  /\ LET c == cfgPend.body IN
     IF c.mode = "STREAM"
       THEN /\ ring' = [ring EXCEPT !.wr = IF rdCache < 2 * cap THEN rdCache ELSE 0]
            /\ UNCHANGED win
       ELSE /\ ring' = [ring EXCEPT !.wr = 0]
            /\ win' = [total  |-> c.points, post |-> PostSamples(c.points, c.pct),
                       pre    |-> c.points - PostSamples(c.points, c.pct),
                       target |-> TargetBlocks(c.points)]
  /\ UNCHANGED <<active, trig, noTrig, prodVars, cfgAck, cfgPend, arms>>

\* v2k_scope_transition: a new mode, then a new state_seq.
CfgMode ==
  /\ CfgStep("cfgMode", IF mode # cfgPend.body.mode THEN "cfgSeq"
                        ELSE IF mode = "OFF" THEN "cfgAck" ELSE "cfgActive")
  /\ mode' = cfgPend.body.mode
  /\ arms' = IF mode' = "ARMED" THEN arms + 1 ELSE arms
  /\ UNCHANGED <<active, ring, win, trig, noTrig, stateSeq, frozenEnd, frozenCount,
                 cfgAck, cfgPend>>

CfgSeq ==
  /\ CfgStep("cfgSeq", IF cfgPend.body.mode = "OFF" THEN "cfgAck" ELSE "cfgActive")
  /\ stateSeq' = stateSeq + 1
  /\ UNCHANGED <<active, ring, win, trig, noTrig, mode, frozenEnd, frozenCount,
                 cfgAck, cfgPend, arms>>

CfgActive ==
  /\ CfgStep("cfgActive", "cfgAck")
  /\ active' = TRUE
  /\ UNCHANGED <<ring, win, trig, noTrig, prodVars, cfgAck, cfgPend, arms>>

CfgAck ==
  /\ CfgStep("cfgAck", NextApply(None, None, forcePend))
  /\ cfgAck' = cfgPend.seq /\ cfgPend' = None
  /\ UNCHANGED <<active, ring, win, trig, noTrig, prodVars, arms>>

\* v2k_apply_force: the capture it was meant for must still be armed.
ForceStep(p, q) ==
  /\ At1(p) /\ Goto1(q)
  /\ UNCHANGED <<tick, active, ring, win, noTrig, ending, prodVars, cap, bound,
                 cfgAck, bindAck, rdCache, cfgPend, bindPend, seen, arms, cpu2Vars>>

\* Mutant: the generation of the request is not compared.
ForceAcceptedAlways == mode = "ARMED"

ForceAccepted == mode = "ARMED" /\ forcePend.state = stateSeq

ForceRefuse ==
  /\ ForceStep("applyForce", "service")
  /\ ~ForceAccepted
  /\ forceAck' = forcePend.seq /\ forcePend' = None
  /\ UNCHANGED <<trig, forcedArm>>

ForceAccept ==
  /\ ForceStep("applyForce", "forceSet")
  /\ ForceAccepted
  /\ UNCHANGED <<trig, forceAck, forcePend, forcedArm>>

ForceSet ==
  /\ ForceStep("forceSet", "service")
  /\ trig' = [trig EXCEPT !.force = TRUE] /\ forcedArm' = forcePend.arm
  /\ forceAck' = forcePend.seq /\ forcePend' = None

Background ==
  \/ CacheReadIndex \/ CopyCfg \/ CheckCfg \/ CopyBind \/ CheckBind
  \/ CopyForce \/ CheckForce
  \/ ApplyBind \/ CfgRefuse \/ CfgOff \/ CfgAccept \/ CfgReset
  \/ CfgFrozen \/ CfgIndex \/ CfgMode \/ CfgSeq \/ CfgActive \/ CfgAck
  \/ ForceRefuse \/ ForceAccept \/ ForceSet

-----------------------------------------------------------------------------
(* CPU2: the request handlers.  Each publishes its request by the sequence *)
(* number, then waits up to 3 ms for the acknowledgement; the main loop    *)
(* then goes on to its update (pc2 = "update").                            *)

At2(p) == pc2 = p
Goto2(p) == pc2' = p

\* All of a frozen capture went out; the host knows long after the interrupt.
CaptureSent ==
  /\ mode = "FROZEN" /\ ~ending
  /\ push.id = stateSeq /\ ~push.active /\ push.next = push.total

Settled == cfgAck = cfgReq.seq   \* no configuration is under way

\* A host that follows the documents (docs/wire-spec.md, 5.3) turns a scope that
\* samples OFF and waits for the answer before it configures or binds anew, and
\* re-arms a frozen capture when it has received all of it.
HostAllows(m) ==
  \/ m = "OFF" \/ LiveReconfig
  \/ Settled /\ (mode = "OFF" \/ CaptureSent)

Handler(p, q) ==
  /\ At2(p) /\ Goto2(q)
  /\ UNCHANGED <<cpu1Vars, rd, seenSeq, outVars>>

DaqCtrl ==
  /\ Handler("loop", "cfgBody") /\ cfgReq.seq < MaxCfgs
  /\ \E m \in Modes : HostAllows(m) /\ cfgReq' = [cfgReq EXCEPT !.body.mode = m]
  /\ UNCHANGED <<bindReq, forceReq>>

DaqCtrlBody ==
  /\ Handler("cfgBody", "cfgPublish")
  /\ \E c \in Cfgs : c.mode = cfgReq.body.mode /\ cfgReq' = [cfgReq EXCEPT !.body = c]
  /\ UNCHANGED <<bindReq, forceReq>>

DaqCtrlPublish ==
  /\ Handler("cfgPublish", "update")
  /\ cfgReq' = [cfgReq EXCEPT !.seq = @ + 1] /\ UNCHANGED <<bindReq, forceReq>>

DaqBind ==
  /\ Handler("loop", "bindPublish") /\ bindReq.seq < MaxBinds /\ mode = "OFF"
  /\ LiveReconfig \/ Settled
  /\ \E c \in Capacities : bindReq' = [bindReq EXCEPT !.cap = c]
  /\ UNCHANGED <<cfgReq, forceReq>>

DaqBindPublish ==
  /\ Handler("bindPublish", "update")
  /\ bindReq' = [bindReq EXCEPT !.seq = @ + 1] /\ UNCHANGED <<cfgReq, forceReq>>

CaptureForce ==
  /\ Handler("loop", "forcePublish") /\ forceReq.seq < MaxForces /\ mode = "ARMED"
  /\ forceReq' = [forceReq EXCEPT !.state = stateSeq, !.arm = arms]
  /\ UNCHANGED <<cfgReq, bindReq>>

CaptureForcePublish ==
  /\ Handler("forcePublish", "update")
  /\ forceReq' = [forceReq EXCEPT !.seq = @ + 1] /\ UNCHANGED <<cfgReq, bindReq>>

\* Any part of the capture CPU2 knows may be asked for again; every other
\* request changes nothing.
CaptureReplay ==
  /\ At2("loop") /\ Goto2("update") /\ replay.asked < MaxReplays
  /\ mode = "FROZEN" /\ push.id = stateSeq
  /\ \E first \in 0 .. frozenCount - 1 : \E stop \in first + 1 .. frozenCount :
       replay' = [next |-> first, stop |-> stop, active |-> TRUE, asked |-> replay.asked + 1]
  /\ UNCHANGED <<cpu1Vars, reqVars, rd, seenSeq, view, batch, push, lastBlk>>

-----------------------------------------------------------------------------
(* CPU2: v2k_scope_protocol_update and the pushes.                         *)

Consumer(p, q) == At2(p) /\ Goto2(q) /\ UNCHANGED <<cpu1Vars, reqVars>>

Answered == cfgAck = cfgReq.seq /\ bindAck = bindReq.seq /\ forceAck = forceReq.seq

\* v2k_scope_protocol_update, after a message or without one: a new state_seq
\* of a stream drops what was left unread, one of a frozen capture starts its
\* push.
Update ==
  /\ pc2 = "loop" \/ (pc2 = "update" /\ (Answered \/ Timeouts))
  /\ Goto2("push")
  /\ UNCHANGED <<cpu1Vars, reqVars, view, batch>>
  /\ seenSeq' = stateSeq
  /\ IF seenSeq # stateSeq /\ mode = "STREAM"
       THEN rd' = ring.wr /\ lastBlk' = None
       ELSE UNCHANGED <<rd, lastBlk>>
  /\ push' = IF mode # "FROZEN"
             THEN [push EXCEPT !.id = -1, !.total = 0, !.active = FALSE]
             ELSE IF push.id = stateSeq THEN push
             ELSE [id |-> stateSeq, total |-> frozenCount, next |-> 0,
                   active |-> frozenCount # 0]
  /\ replay' = IF mode = "FROZEN" /\ push.id = stateSeq THEN replay
               ELSE NoReplay(replay.asked)

\* Nothing to push, or no transmit slot free.
PushNothing ==
  /\ pc2 \in {"push", "initial"} /\ Goto2("loop")
  /\ UNCHANGED <<cpu1Vars, reqVars, rd, seenSeq, outVars>>

\* A replay goes first; the initial push follows when there is none, or none
\* of its blocks can be viewed.
ReplayPush ==
  /\ Consumer("push", "replay")
  /\ mode = "FROZEN" /\ replay.active
  /\ batch' = 0 /\ UNCHANGED <<rd, seenSeq, view, push, replay, lastBlk>>

CapturePush ==
  /\ pc2 = "initial" \/ (pc2 = "push" /\ ~replay.active)
  /\ Goto2("capture")
  /\ mode = "FROZEN" /\ push.active /\ push.next < push.total
  /\ batch' = 0
  /\ UNCHANGED <<cpu1Vars, reqVars, rd, seenSeq, view, push, replay, lastBlk>>

StreamPush ==
  /\ Consumer("push", "stream")
  /\ mode = "STREAM"
  /\ batch' = 0 /\ UNCHANGED <<rd, seenSeq, view, push, replay, lastBlk>>

\* The head of a block, read before its samples.
HeadOf(pos) ==
  LET b == ring.slots[pos] IN [pos |-> pos, start |-> b.start, seq |-> b.seq, n |-> b.n]
HeadFits(pos) == ring.slots[pos].n \in 1 .. NTicks

\* v2k_scope_frozen_block_view
FrozenPos(k) ==
  RingPos(RingAdd(RingBack(frozenEnd, frozenCount, cap), k, cap), cap)
\* Mutant: the newest block is taken for one being written.
FrozenViewableShort(k) ==
  mode = "FROZEN" /\ k + 1 < frozenCount /\ HeadFits(FrozenPos(k))

FrozenViewable(k) == mode = "FROZEN" /\ k < frozenCount /\ HeadFits(FrozenPos(k))

\* The next block of either push, or nothing left of it to view.
Viewable(r, stop) == r.next + batch < stop /\ FrozenViewable(r.next + batch)

ViewFrozen(p, copying, r, stop) ==
  /\ Consumer(p, copying) /\ Viewable(r, stop)
  /\ view' = HeadOf(FrozenPos(r.next + batch))
  /\ UNCHANGED <<rd, seenSeq, batch, push, replay, lastBlk>>

CopyFrozen(copying, p) ==
  /\ Consumer(copying, p)
  /\ view' = None /\ batch' = batch + 1
  /\ UNCHANGED <<rd, seenSeq, push, replay, lastBlk>>

CaptureView == ViewFrozen("capture", "captureCopy", push, push.total)
CaptureCopy == CopyFrozen("captureCopy", "capture")
ReplayView  == ViewFrozen("replay", "replayCopy", replay, replay.stop)
ReplayCopy  == CopyFrozen("replayCopy", "replay")

\* No view any more, or the message is full.
CaptureSubmit ==
  /\ At2("capture") /\ Goto2(IF batch = 0 THEN "loop" ELSE "push")
  /\ batch # 0 \/ ~Viewable(push, push.total)
  /\ push' = [push EXCEPT !.next = @ + batch, !.active = (@ /\ push.next + batch < push.total)]
  /\ batch' = 0
  /\ UNCHANGED <<cpu1Vars, reqVars, rd, seenSeq, view, replay, lastBlk>>

\* Mutant: a replay that was sent starts over.
ReplayOver == replay

\* The indices of a replay that ended are not read again.
ReplayRest ==
  IF replay.next + batch < replay.stop THEN [replay EXCEPT !.next = @ + batch]
  ELSE NoReplay(replay.asked)

ReplaySubmit ==
  /\ At2("replay") /\ Goto2(IF batch = 0 THEN "initial" ELSE "push")
  /\ batch # 0 \/ ~Viewable(replay, replay.stop)
  /\ replay' = ReplayRest /\ batch' = 0
  /\ UNCHANGED <<cpu1Vars, reqVars, rd, seenSeq, view, push, lastBlk>>

\* v2k_scope_consumer_peek
StreamEnd == IF mode = "FROZEN" THEN frozenEnd ELSE ring.wr
Peekable == rd # StreamEnd /\ rd < 2 * cap /\ HeadFits(RingPos(rd, cap))

StreamPeek ==
  /\ Consumer("stream", "streamCopy")
  /\ Peekable
  /\ view' = HeadOf(RingPos(rd, cap))
  /\ UNCHANGED <<rd, seenSeq, batch, push, replay, lastBlk>>

\* v2k_scope_consumer_release after the copy
StreamCopy ==
  /\ Consumer("streamCopy", "stream")
  /\ rd' = RingNext(rd, cap) /\ lastBlk' = [start |-> view.start, seq |-> view.seq]
  /\ view' = None /\ batch' = 1
  /\ UNCHANGED <<seenSeq, push, replay>>

\* Mutant: a full message resynchronises like an empty ring.
SkipsRest(peekable) == StreamEnd

\* A reader that finds no block where it stands goes on at the published index.
ReadFrom(peekable) == IF peekable THEN rd ELSE StreamEnd

\* Empty, out of step, or the message is full.
StreamSubmit ==
  /\ At2("stream") /\ Goto2(IF batch = 0 THEN "loop" ELSE "push")
  /\ batch # 0 \/ ~Peekable
  /\ rd' = ReadFrom(Peekable)
  /\ batch' = 0
  /\ UNCHANGED <<cpu1Vars, reqVars, seenSeq, view, push, replay, lastBlk>>

Cpu2 ==
  \/ DaqCtrl \/ DaqCtrlBody \/ DaqCtrlPublish \/ DaqBind \/ DaqBindPublish
  \/ CaptureForce \/ CaptureForcePublish \/ CaptureReplay
  \/ Update \/ PushNothing
  \/ CapturePush \/ CaptureView \/ CaptureCopy \/ CaptureSubmit
  \/ ReplayPush \/ ReplayView \/ ReplayCopy \/ ReplaySubmit
  \/ StreamPush \/ StreamPeek \/ StreamCopy \/ StreamSubmit

Next == Sample \/ FreezeEnds \/ Background \/ Cpu2

Spec == Init /\ [][Next]_vars

-----------------------------------------------------------------------------
(* Properties.                                                             *)

PcsOn1 == {"service", "cfg", "cfgCheck", "bind", "bindCheck", "force", "forceCheck",
           "applyBind", "applyCfg", "cfgReset", "cfgFrozen", "cfgIndex", "cfgMode",
           "cfgSeq", "cfgActive", "cfgAck", "applyForce", "forceSet"}
PcsOn2 == {"loop", "cfgBody", "cfgPublish", "bindPublish", "forcePublish", "update",
           "push", "replay", "replayCopy", "initial", "capture", "captureCopy",
           "stream", "streamCopy"}

\* The words of both cores stay in range; the indices in [0, 2*capacity), or
\* 0 while there is no ring, and a block being filled is shorter than a block.
\* A frozen window outlives its ring only after OFF, when nobody looks at it.
TypeOK ==
  /\ pc1 \in PcsOn1 /\ pc2 \in PcsOn2 /\ tick \in 0 .. MaxTick
  /\ mode \in {"OFF", "STREAM", "ARMED", "POST", "FROZEN"}
  /\ cap \in Capacities \cup {0} /\ (bound <=> cap # 0)
  /\ ring.wr \in Indices(cap) \cup {0}
  /\ ring.sib \in 0 .. NTicks - 1 /\ ring.pub \in 0 .. cap
  /\ frozenEnd \in Nat /\ frozenCount \in Nat /\ rd \in Nat /\ rdCache \in Nat
  /\ mode = "FROZEN" => frozenEnd \in Indices(cap) /\ frozenCount \in 0 .. cap
  /\ trig.left \in Nat /\ trig.at \in 0 .. MaxTick
  /\ {active, ending, noTrig, trig.armed, trig.force, push.active, replay.active} \subseteq BOOLEAN

\* A block CPU2 is copying out is whole at every moment of the copy: its
\* samples are the consecutive ticks its head announces, and neither the head
\* read before nor the samples read now belong to a block being overwritten.
CopiedBlockIsWhole ==
  pc2 \in {"captureCopy", "replayCopy", "streamCopy"} =>
    /\ view.start # 0
    /\ \A k \in 1 .. view.n : ring.slots[view.pos].data[k] = view.start + k - 1
    /\ ring.slots[view.pos].seq = view.seq

\* The host can account for every tick of a stream by the block numbers: two
\* blocks it receives one after the other are as many blocks apart in time
\* as in number, lost blocks included.
GapsAreAccounted ==
  pc2 = "streamCopy" /\ lastBlk # None =>
    /\ view.seq > lastBlk.seq
    /\ view.start - lastBlk.start = NTicks * (view.seq - lastBlk.seq)

\* CPU2 has seen the state_seq of the stream that CPU1 writes.
Following == mode = "STREAM" /\ active /\ seenSeq = stateSeq

\* The published blocks from the read index to the write index.
Unsent ==
  [i \in 1 .. RingDist(ring.wr, rd, cap) |->
     LET b == ring.slots[RingPos(RingAdd(rd, i - 1, cap), cap)]
     IN [start |-> b.start, seq |-> b.seq]]

\* The ring and its two indices, written by two cores without a lock, are a
\* queue: what CPU1 publishes CPU2 sends in that order, once, and never skips.
B == INSTANCE BlockStream WITH
       open  <- Following,
       size  <- IF Following THEN cap ELSE 0,
       num   <- IF Following THEN ring.seq ELSE 0,
       at    <- IF Following THEN tick - ring.sib + 1 ELSE 0,
       queue <- IF Following THEN Unsent ELSE << >>,
       last  <- IF Following THEN lastBlk ELSE None
ImplementsBlockStream == B!Spec

ReconfigPcs == {"cfgReset", "cfgFrozen", "cfgIndex", "cfgMode"}

FrozenTick(i) ==   \* the i-th tick of the frozen window
  ring.slots[FrozenPos(i \div NTicks)].data[(i % NTicks) + 1]
FrozenTicks ==
  (frozenCount - 1) * NTicks + ring.slots[FrozenPos(frozenCount - 1)].n

\* A frozen capture is contiguous in time, ends with the last post-trigger
\* sample and holds as many samples as were asked for: a re-arm gives "a new
\* state_seq, the old window doesn't pollute the new window"
\* (docs/phase3.5-sci-scope2000.md:540).
FrozenWindow ==
  mode = "FROZEN" /\ pc1 \notin ReconfigPcs =>
    /\ frozenCount > 0
    /\ \A i \in 0 .. FrozenTicks - 1 :
         FrozenTick(i) = trig.at + win.post - FrozenTicks + i
    /\ FrozenTicks >= win.total

\* "capture_state_seq prevents a delayed request from forcing a later re-arm
\* generation" (contracts/v2k_scope.h:195): a force CPU1 accepts, however late,
\* is pending in the arm generation it was issued for.
ForceHitsItsCapture == trig.force => forcedArm = arms

\* "CPU2 sends CAPTURE_BATCH_PUSH frames sequentially once, using capture_id =
\* state_seq" (docs/wire-spec.md:371): a block of a frozen capture is never
\* sent under another identifier.
PushedUnderItsId ==
  pc2 \in {"captureCopy", "replayCopy"} /\ mode = "FROZEN" => push.id = stateSeq

-----------------------------------------------------------------------------
(* The background of CPU1 and the main loop of CPU2 never stop, and the    *)
(* interrupt ends what it began.  A slot of the transmit queue comes free   *)
(* again and again, so a push that is due again and again is made.         *)
Fairness ==
  /\ WF_vars(FreezeEnds) /\ WF_vars(Background)
  /\ WF_vars(Cpu2) /\ SF_vars(ReplayPush) /\ SF_vars(CapturePush)
LiveSpec == Spec /\ Fairness

\* Every configuration request is answered, or a later one is.
RequestsAnswered ==
  \A n \in 1 .. MaxCfgs : cfgReq.seq >= n ~> cfgAck >= n

\* A frozen capture is pushed to its last block, unless the host gives it up.
CaptureDelivered ==
  mode = "FROZEN" ~> (CaptureSent \/ mode # "FROZEN")

\* A replay, which goes before the first push of the capture, ends: it is sent
\* to its last block or given up with the capture, and never sent for ever.
ReplayEnds == replay.active ~> ~replay.active
=============================================================================
