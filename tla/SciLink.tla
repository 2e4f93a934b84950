------------------------------ MODULE SciLink -------------------------------
(***************************************************************************)
(* The serial link of CPU2: the frames of the host arrive in pieces in the *)
(* receive ring (cpu2/v2k_cpu2_board.c), the super-loop assembles and      *)
(* executes them, keeps its last response for a retry                      *)
(* (cpu2/v2k_sci_service.c), and sends responses and pushes through        *)
(* TxPipe.  Line errors bump a recovery number and lose what was on the    *)
(* way; the service empties its state when it sees the new number.         *)
(* A request is the number the host gave it; a frame is two pieces, the    *)
(* second with the delimiter.  The CRC rejects whatever is not the two     *)
(* pieces of one frame.                                                    *)
(***************************************************************************)
EXTENDS TxPipe, Sequences

CONSTANTS
  RingMax,    \* pieces the receive ring holds
  MaxRequests, MaxSends, MaxErrors, MaxPushes  \* bounds on host, line, pushes

ASSUME LinkAssumption ==
  /\ RingMax \in Nat \ {0} /\ MaxRequests \in Nat /\ MaxSends \in Nat
  /\ MaxErrors \in Nat /\ MaxPushes \in Nat

VARIABLES
  request, sends,   \* the request the host is working on; frames it has sent
  wire,             \* pieces on the line
  ring,             \* pieces received, each with the recovery number then
  recovery,         \* s_pipe_recovery_seq
  errors,
  pc,               \* the super-loop
  seen,             \* s_pipe_recovery_seen
  frame,            \* s_rx_frame: the pieces since the last delimiter
  pending,          \* s_response_pending
  cache,            \* the request of the last response, 0 for none
  linkState,
  pushes,
  executed          \* history: the recovery numbers each request was executed
                    \* under

rxVars   == <<wire, ring, recovery, errors>>
hostVars == <<request, sends>>
fgVars   == <<pc, seen, frame, pending, cache, linkState, pushes, executed>>
vars     == <<pipeVars, rxVars, hostVars, fgVars>>

Requests == 1 .. MaxRequests
Parts    == {"head", "tail"}
Received == [request : Requests, part : Parts, under : Nat]
Pcs      == {"poll", "rx", "push"}

Init ==
  /\ PipeInit
  /\ request = 0 /\ sends = 0 /\ wire = <<>> /\ ring = <<>>
  /\ recovery = 0 /\ errors = 0
  /\ pc = "poll" /\ seen = 0 /\ frame = <<>>
  /\ pending = FALSE /\ cache = 0 /\ linkState = FALSE /\ pushes = 0
  /\ executed = [r \in Requests |-> <<>>]

-----------------------------------------------------------------------------
(* The host and the line.                                                  *)

\* The host sends a new request, or the last one again: one at a time, with a
\* time-out longer than a frame.  It may give up at any time and never goes back
\* to an older request.
HostSends(r) ==
  /\ wire = <<>> /\ sends < MaxSends /\ sends' = sends + 1
  /\ r \in Requests \cap {request, request + 1} /\ request' = r
  /\ wire' = wire \o <<[request |-> r, part |-> "head"],
                       [request |-> r, part |-> "tail"]>>
  /\ UNCHANGED <<pipeVars, fgVars, ring, recovery, errors>>

\* Mutant: off by one.
RingRoomLate == Len(ring) <= RingMax

RingRoom == Len(ring) < RingMax

\* The receive interrupt moves a piece to the ring.
RxIsr ==
  /\ wire # <<>> /\ wire' = Tail(wire) /\ RingRoom
  /\ ring' = Append(ring, [request |-> wire[1].request, part |-> wire[1].part,
                           under |-> recovery])
  /\ UNCHANGED <<pipeVars, fgVars, hostVars, recovery, errors>>

\* The ring is full: the piece is lost.
RxOverflow ==
  /\ wire # <<>> /\ wire' = Tail(wire) /\ ~RingRoom
  /\ recovery' = recovery + 1
  /\ UNCHANGED <<pipeVars, fgVars, hostVars, ring, errors>>

\* A break, framing or overrun error: the receiver is reset and the piece is
\* lost.  The interrupt finds it, or the foreground in pipe_service.
RecoverRx ==
  /\ wire # <<>> /\ wire' = Tail(wire) /\ errors < MaxErrors /\ errors' = errors + 1
  /\ recovery' = recovery + 1
  /\ UNCHANGED <<pipeVars, fgVars, hostVars, ring>>

\* Noise that the receiver does not notice.
Noise ==
  /\ wire # <<>> /\ wire' = Tail(wire) /\ errors < MaxErrors /\ errors' = errors + 1
  /\ UNCHANGED <<pipeVars, fgVars, hostVars, ring, recovery>>

-----------------------------------------------------------------------------
(* The super-loop: poll, push, flush.                                      *)

Loop(from, to) == pc = from /\ at["fg"] = "out" /\ Foreground /\ pc' = to
Keep == UNCHANGED <<rxVars, hostVars>>

\* Mutant: the partial frame survives a recovery.
ResyncKeepsFrame ==
  /\ ring' = <<>> /\ seen' = recovery
  /\ pending' = FALSE /\ cache' = 0 /\ linkState' = FALSE
  /\ UNCHANGED <<pipeVars, hostVars, wire, recovery, errors, pushes, executed, frame>>

\* v2k_sci_resync_recovered_pipe: the ring is emptied and the number read with
\* the receive interrupt masked.
Resync ==
  /\ ring' = <<>> /\ seen' = recovery
  /\ frame' = <<>> /\ pending' = FALSE /\ cache' = 0 /\ linkState' = FALSE
  /\ UNCHANGED <<pipeVars, hostVars, wire, recovery, errors, pushes, executed>>

\* v2k_sci_start_pending_response.
StartPending ==
  /\ IF pending /\ CanSubmit("HIGH")
     THEN Submit("HIGH") /\ pending' = FALSE
     ELSE UNCHANGED <<pipeVars, pending>>
  /\ Keep /\ UNCHANGED <<seen, frame, cache, linkState, pushes, executed>>

\* The resync that ends v2k_sci_flush and the one that begins v2k_sci_poll are
\* one step; after a recovery no response is left to start.
Poll == Loop("poll", "rx") /\ IF recovery # seen THEN Resync ELSE StartPending

\* Mutant: a repeated request is recognised only until its response has left.
ProcessWhilePending(r) ==
  /\ linkState' = TRUE
  /\ IF pending THEN UNCHANGED <<pending, cache, executed>>
     ELSE /\ pending' = TRUE /\ cache' = r
          /\ executed' = [executed EXCEPT ![r] = Append(@, seen)]

\* v2k_sci_process_encoded_frame: a repeated request gets the response again, a
\* new one is dropped while a response is waiting, else it is executed and its
\* response is kept.
Process(r) ==
  /\ linkState' = TRUE
  /\ IF cache = r
     THEN pending' = TRUE /\ UNCHANGED <<cache, executed>>
     ELSE IF pending THEN UNCHANGED <<pending, cache, executed>>
     ELSE /\ pending' = TRUE /\ cache' = r
          /\ executed' = [executed EXCEPT ![r] = Append(@, seen)]

\* v2k_sci_rx_service, one piece of the ring.
RxPiece ==
  /\ Loop("rx", "rx") /\ ring # <<>> /\ ring' = Tail(ring)
  /\ LET p == ring[1]
         whole == Len(frame) = 1 /\ frame[1].request = p.request /\ frame[1].part = "head"
     IN /\ frame' = IF p.part = "tail" THEN <<>> ELSE Append(frame, p)
        /\ IF p.part = "tail" /\ whole
           THEN Process(p.request)
           ELSE UNCHANGED <<linkState, pending, cache, executed>>
  /\ UNCHANGED <<pipeVars, hostVars, wire, recovery, errors, seen, pushes>>

RxDone ==
  /\ Loop("rx", "push") /\ ring = <<>>
  /\ Keep /\ UNCHANGED <<pipeVars, seen, frame, pending, cache, linkState, pushes, executed>>

\* v2k_protocol_service pushes while it has something to push: blocks and
\* status with normal priority, capture replays with the priority of responses.
Push(prio) ==
  /\ Loop("push", "push") /\ linkState /\ ~pending
  /\ pushes < MaxPushes /\ pushes' = pushes + 1 /\ Submit(prio)
  /\ Keep /\ UNCHANGED <<seen, frame, pending, cache, linkState, executed>>

\* Then v2k_sci_flush starts a response that could not be started before.
Flush == Loop("push", "poll") /\ StartPending

PipeStep(A) == A /\ Keep /\ UNCHANGED fgVars

SuperLoop ==
  \/ Poll \/ RxPiece \/ RxDone \/ (\E prio \in Prios : Push(prio)) \/ Flush
  \/ PipeStep(ForegroundStep)

Line == (\E r \in Requests : HostSends(r)) \/ RxIsr \/ RxOverflow \/ RecoverRx \/ Noise

Next == \/ SuperLoop \/ Line \/ PipeStep(InterruptStep)
        \/ PipeStep(Drain)

Spec == Init /\ [][Next]_vars

\* The super-loop runs for ever, the transmit hardware works and its interrupt
\* is served.  Nothing is assumed of the host or of the receive line.
FairSpec == /\ Spec /\ WF_vars(SuperLoop) /\ WF_vars(PipeStep(InterruptStep))
            /\ WF_vars(PipeStep(Drain))

-----------------------------------------------------------------------------
(* Properties.                                                             *)

\* Every variable keeps its type, and the ring its bound.
TypeOK ==
  /\ PipeTypeOK
  /\ request \in 0 .. MaxRequests /\ sends \in 0 .. MaxSends
  /\ wire \in Seq([request : Requests, part : Parts])
  /\ ring \in Seq(Received) /\ Len(ring) <= RingMax
  /\ recovery \in Nat /\ errors \in 0 .. MaxErrors
  /\ pc \in Pcs /\ seen \in 0 .. recovery /\ frame \in Seq(Received)
  /\ pending \in BOOLEAN /\ cache \in 0 .. MaxRequests /\ linkState \in BOOLEAN
  /\ pushes \in 0 .. MaxPushes /\ executed \in [Requests -> Seq(Nat)]

\* While only pushes of normal priority are in the pipe, a response finds a
\* slot: it waits for responses and capture replays alone.
ResponseHasSlot ==
  (\A i \in Slots : slots[i].state # "FREE" => slots[i].prio = "NORMAL")
    => CanSubmit("HIGH")

\* What the service works with came after the last recovery it has seen: the
\* octets of the ring and of the partial frame, and the response it keeps.
NothingOlderThanSeen ==
  /\ \A k \in DOMAIN ring : ring[k].under >= seen
  /\ \A k \in DOMAIN frame : frame[k].under >= seen
  /\ cache # 0 => seen \in {executed[cache][k] : k \in DOMAIN executed[cache]}
  /\ pending => cache # 0

\* A request the host repeats is executed again only after a recovery that came
\* since: the recovery empties the response kept for it.
ExecutedOncePerRecovery ==
  \A r \in Requests : \A k \in DOMAIN executed[r] :
    k > 1 => executed[r][k - 1] < executed[r][k]

\* The octets of a frame leave in order, each once, and no other frame's octet
\* comes between them, whichever context writes them.
FramesWhole ==
  [][line' # line =>
       IF line'.octet = 1 THEN line.octet \in {0, FrameLen}
       ELSE line'.frame = line.frame /\ line'.octet = line.octet + 1]_vars

\* A frame begins only when every older one of its priority has left, and a
\* push not while a response is waiting.
LineOrder ==
  [][active' # active /\ active' # 0 =>
       LET s == slots[active']
       IN /\ \A i \in Pending(s.prio) : slots[i].order >= s.order
          /\ s.prio = "NORMAL" => Pending("HIGH") = {}]_vars

\* A response that is waiting leaves for the pipe, or a recovery drops it.
ResponseLeaves == pending ~> ~pending

\* A slot that was taken is transmitted and free again.
FrameLeaves == \A i \in Slots : slots[i].state # "FREE" ~> slots[i].state = "FREE"
=============================================================================
