# Viewer2000: a verification project for the dual-core motor-control firmware

Viewer2000 runs on a TI F28P65x: CPU1 runs the control interrupt, the
protection layer and a 1 ms background loop; CPU2 talks to the host over a
serial line and to CPU1 through shared RAM. Each shared word has one writer,
requests are published by a sequence number written last and acknowledged by
the same number. This directory holds TLA+ modules of the parts where that
concurrency is hard to get right, the TLC configurations that check them, and
TLAPS proofs.

Run from this directory, for example `tlc -workers 2 -config FL_safety.cfg
FaultLatch`, `tlc -workers 2 -config CP_plane.cfg MCCalPlane`,
`tlc -workers 2 -config SL_link.cfg SciLink`, `tlapm ScopeProofs.tla`.
`PROJECT.json` lists every run with its module and configuration.

## 1. Inventory

| Part | State it keeps | Operations | Talks to |
|---|---|---|---|
| Protection state machine (`cpu1/runtime/v2k_fault.c`) | `g_v2k_sm_state`, `g_v2k_fault_code`, start in progress | `v2k_fault_poll` (1 ms, host commands), `v2k_tz_isr`, `v2k_fault_latch` | board driver (calls), CPU2 (command and status words), user runtime (calls) |
| Trip zone driver (`cpu1/board/v2k_board_pwm.c`) | OST latch, TZ flags, PIE level, current-trip route | force/release lock, enable/disable trip interrupt, arm/disarm current trip | hardware |
| Power-stage sequencing (`v2k_board_f28p65x.c`, `v2k_board_drv8323rs.c`) | start phase, shutdown flags, DRV_ENABLE and its 1 ms timer | `start_begin`, `start_poll`, `cancel_start`, `background_service` | protection layer, SPI |
| User runtime (`v2k_user_runtime.c`) | application RAM image, enabled flag, reset flag | restore + setup, control tick, disable | control interrupt, protection layer |
| Executor (`v2k_executor.c`) | countdown phases of the due masks | the control interrupt: inputs, due masks, parameter apply, `control()`, scope sample | every CPU1 part |
| Calibration and catalog plane (`v2k_registry.c`) | active and prepared parameter batches, read results | commit, apply at a due tick, read service | CPU2 handlers over shared RAM |
| Scope producer (`v2k_scope_runtime.c`) | sample ring, capture window, mode, pending requests | service, apply bind/cfg/force, sample in the interrupt, publish, freeze | CPU2 consumer over shared RAM |
| Scope protocol (`cpu2/v2k_scope_protocol.c`, `common/v2k_scope_consumer.h`) | request sequence numbers, read index, capture push cursors | DAQ_CTRL, DAQ_BIND, CAPTURE_FORCE, replay, stream and capture pushes | producer, serial link |
| Command and parameter handlers (`cpu2/v2k_protocol.c`) | staged CAL batch, CPU1 stale monitor | command, CAL_WRITE/COMMIT/READ, catalog | CPU1 planes |
| Serial link (`cpu2/v2k_sci_service.c`, `v2k_cpu2_board.c`) | duplicate cache, three transmit slots, receive ring, recovery | receive, answer, replay of answers, recovery | host, interrupts |
| Main loops and heartbeats (`v2k_main.c`, `cpu2.c`) | tick counters, stale counters | boot handshake, 1 ms pass, 256 ms monitors | both cores |
| Codec, load profile, CCS view, encoder, ADC, examples, tools, vendored code | no state the above depends on | | |

What is hard: three CPU1 threads (background, trip interrupt, control
interrupt) and one CPU2 thread share these words without locks. A trip may land
between any two register writes; a CPU2 handler gives up waiting after 3 ms while
CPU1 may apply its request later; a sample may be taken between two writes of a
reconfiguration; host retries meet answers already given.

What makes each part correct: the outputs are locked outside RUNNING and no trip
is lost; the driver sleeps after a trip; the application only runs on a complete
RAM image; each command is answered; a captured window is contiguous and holds
the requested samples on both sides of the trigger; the stream never hands the
host a block that is being written; a parameter batch is applied whole, once; a
retried request is executed once.

The hazards behind these properties, each at its line, are listed in
`PROJECT.json`.

## 2. Modules and how they correspond to the code

| Module | Models | State | Actions |
|---|---|---|---|
| `TripZone` | the ePWM trip zone, the PIE and the CPU interrupt mask as `v2k_board_pwm.c` drives them | OST latch, TZFLG, TZEINT, PIEIER, PIEIFR, current-trip route | one operator per driver operation, and the trip sources as environment |
| `FaultLatch` | `v2k_fault.c` with the power-stage sequencing and the user runtime it calls | the words of the state machine, `pc` for where the 1 ms pass stands | one action per group of writes an interrupt can land between; the trip interrupt is one action, as it preempts the pass and is not preempted by it |
| `Protection` | the promise of the layer: the lock opens only inside RUNNING, RUNNING is left only behind a closed lock | mode, locked | six steps |
| `ScopeRing` | the index helpers of `contracts/v2k_scope.h`, in 16-bit arithmetic | | |
| `Scope` | producer, shared words and consumer of the scope | ring, capture window, trigger, mode, pending requests, `pc1` of the CPU1 background, `pc2` of the CPU2 loop, the cursors of the first push and of a replay | one action per sample (the interrupt), per step of the background, per step of CPU2 |
| `BlockStream` | the promise of a stream: a bounded queue of numbered blocks, where one that finds no room is lost as a whole and with its number, and what is kept is sent once and in order | queue, number and first tick of the next block, the block sent last | open, keep, lose, send, close |
| `CalPlane` | CAL_WRITE, CAL_COMMIT, CAL_READ, ENUM and STATUS on CPU2, the services of `v2k_registry.c` that answer them, the apply in the control interrupt, the restore of a START | staged batch, request and answer words, snapshot, verdict, variables; `pc1`, `pc2`, `applying` for the three threads | one action per entry staged or copied, per look at a sequence number, per published word |
| `MCCalPlane` | the lists of addresses the host sends in the run | | |
| `ParamStore` | the promise of the parameter plane: batches are decided in order, whole and once, never mixed with a restore | batches, decided, store, restoring | publish, apply, refuse, begin and end of a restore |
| `TxPipe` | the transmit half of `v2k_cpu2_board.c` | frame slots, active slot, FIFO fill, TXFFIENA, the PIE level and flag, where each context is and its locals | submit, fill, kick, the read and the write of one refill, update, each in the foreground or in the interrupt; the line draining the FIFO |
| `SciLink` | the receive half of `v2k_cpu2_board.c`, `v2k_sci_service.c` and the super-loop, on top of `TxPipe` | wire, receive ring, recovery number, partial frame, kept response, pending response | host sends, interrupt receives, overflows or recovers, noise, poll with its resync, one piece of a frame, push, flush |
| `NatLemmas` | least and greatest elements of finite sets of numbers, the arithmetic the proofs cite | | |
| `FaultLatchProofs`, `ScopeRingProofs`, `ScopeProofs`, `ScopeBlockProofs`, `CalPlaneProofs`, `TxPipeProofs`, `SciLinkProofs` | theorems about the module in the name; `ScopeBlockProofs` goes on from `ScopeProofs` to what is read out of the ring, `SciLinkProofs` from `TxPipeProofs` | | |

`FaultLatch` composes `TripZone`, and `SciLink` composes `TxPipe` (EXTENDS).
`FaultLatch` implements `Protection` by `mode <- state, locked <- ost`;
`CalPlane` implements `ParamStore` by `decided <- IF applying THEN appliedSeq + 1
ELSE appliedSeq` (a batch is decided when its variables are written, the word
that says so follows), `restoring <- resetActive` and, while a restore is under
way, `store <- Default`. `Scope` is built on `ScopeRing` and implements
`BlockStream`: the queue is open while CPU2 has seen the `state_seq` of the
stream CPU1 samples (`Following`), it holds the blocks between the two indices
(`Unsent`), and its size is the capacity of the ring; a header that does not fit,
at which the consumer would skip what is unread, is a step the queue does not
have. The protection layer,
the scope, the parameter plane and the link share no words but the START a host
command begins, which `CalPlane` has an action of its own for, and the call of
a handler by the super-loop, which `SciLink` has as `Process`; so they are not
composed further.

Where the code reads or writes several shared words one after the other and
another thread may come between, the model has several actions; where nothing
can come between, or the difference cannot be seen, it has one. Some places
where the correspondence is less direct:

- `Scope`. A sample of the interrupt is one action except for the end of
  `v2k_freeze`, whose new mode CPU2 can see before the new `state_seq`
  (`FreezeEnds`). A sample is represented by the tick it was taken at, so
  "whole", "contiguous" and "lost" are statements about numbers. The source
  value of the trigger is two arbitrary booleans: at or beyond the near and the
  far end of the hysteresis band. A replay request is taken for any part of the
  frozen capture CPU2 knows; requests the code refuses change nothing and are
  left out. When a replay ends, its indices, which the code never reads again,
  are cleared.
- `CalPlane`. A value is the number of the request that wrote it; a value read
  is the address with the number of batches decided by then. Handlers that
  answer BUSY or a bad length change nothing and are left out, except for the
  length error of CAL_WRITE, which has emptied the batch before. `snap` is the local
  copy of the two read services and is cleared when they return. After a commit
  the code keeps the count until the next CAL_WRITE, so a second CAL_COMMIT
  publishes the same batch again: the model does so too.
- `SciLink`. A frame of the host is two pieces, head and delimiter, and the CRC
  refuses whatever is not the two pieces of one frame; a transmitted frame is
  the number of its submission and `FrameLen` octets. The resync that ends one
  super-loop and the one that begins the next are one action. A push is
  anything of normal priority, or a capture replay, which has the priority of
  responses (`v2k_cpu2_board.c:136`). The FIFO requests an interrupt while its
  fill is at the level or below and the interrupt is enabled.

A history variable records what a property must remember and no guard of the
code reads it: `tripAt` in `FaultLatch`; `lastBlk`, `arms`, `forcedArm` in
`Scope`; `batches`, `received`, `accepted`, `readMin` in `CalPlane`; `executed`
and the field `under` in `SciLink`; `line` in `TxPipe`.

## 3. Runs

| Run | Instance | Shows |
|---|---|---|
| `FL_safety` | four commands, every board, trips at any point | types, the inductive invariant, and the safety properties that hold without any assumption on trips |
| `FL_lock` | four commands, no trip between the two interrupt disables of a STOP | outputs are locked outside RUNNING; `FaultLatch` implements `Protection` |
| `FL_live` | two commands | every command is answered, every trip puts the driver to sleep |
| `FL_stale_trip`, `FL_swallowed_trip`, `FL_result_order` | | three places where the code does not do what its comments and documents say |
| `SC_safety` | rings of 2 and 3 blocks of 2 ticks, three configurations of every mode, two bindings, one replay, 8 ticks | a block is never sent while it is written, in a stream, a first push or a replay; lost blocks are accounted for; a frozen window is contiguous and complete; `Scope` implements `BlockStream` |
| `SC_late` | a ring of 2 blocks, two captures, one force, one replay, CPU1 may answer after the 3 ms CPU2 waits, 3 ticks | a late force never hits a later generation; requests are answered; a capture is delivered; a replay ends |
| `SC_reconfig` | a scope armed again while it samples | the frozen window reaches back to slots of no capture |
| `SC_capture_id` | one capture | the first blocks may be pushed under the identifier of POST |
| `CP_plane` | two writable addresses and one that is refused, lists of two, a batch of two, a parameter slot every second tick, four requests, one START | batches are decided whole, in order and once; torn copies are never applied; answers belong to their requests; `CalPlane` implements `ParamStore` |
| `SL_link` | three slots, frames of two octets, a FIFO of two that asks at one, a ring of two pieces, two requests sent at most twice in all, one line error, three pushes | frames leave whole and in order; a response finds a slot and leaves; a request is executed again only after a recovery |

Bounds. `MaxCmds` counts host commands: a START that fails, one that runs, a STOP
or a CLEAR after it and one more START make four, and every pair of successive
commands occurs. `NTicks` = 2 is the smallest block that has a first and a last
tick and can be frozen half full. A ring of 2 is the smallest a capture fits in
(one block and the guard block); 3 leaves room for a capture of one and a half
blocks, and the two bindings change from one to the other. Ticks suffice to fill
the ring, lose a block and write the next one (8), or to freeze a window and arm
again (3). Three configurations cover start, OFF, and a start in another mode.
Two entries are the smallest batch a CAL_WRITE can overflow, be refused in the
middle of, or be torn; four requests are a write, its commit, a second write
that comes while the first is copied, and a read or commit after it, and every
other order of the five kinds. Two octets are the smallest frame another one
could come into the middle of; a FIFO of two that asks at one is refilled by both
contexts; three slots are the number of the code; three pushes fill all
a push may take and one more. Two sends are a request with its retry or two
requests; one error is enough for a recovery between them. No sequence number
reaches its wrap-around, and the proofs of section 4 hold without these bounds.

Fairness. The 1 ms pass of CPU1 and the super-loop of CPU2 run for ever, so
their steps are weakly fair (`Background`, `Cpu2`, `SuperLoop`). A pending and
enabled interrupt is taken (`TzIsr`, `ControlIsr`, `InterruptStep`), an interrupt
ends what it began (`FreezeEnds`), a 1 ms timer elapses (`DrvTimerElapse`), the
transmitter sends what is in its FIFO (`Drain`). `CapturePush` and `ReplayPush`
are strongly fair: a push that is due needs a transmit slot, slots come free
again and again while the line drains (`FrameLeaves` of `SL_link`), and the
main loop tries a replay, then a capture, before anything else that it would
push. Nothing is assumed about the host, the trips, the samples or the
receive line, and in `CalPlane` nothing about CPU2.

Assumptions on the host. In `SC_safety` and `SC_late` (`LiveReconfig` FALSE) it
follows docs/wire-spec.md 5.3: it turns a sampling scope OFF and waits for the
answer before it configures or binds anew, and re-arms a frozen capture when
all of it was pushed. Without that, `SC_reconfig` shows a broken window, and
an ARMED on an ARMED scope leaves `state_seq` alone, so that
`ForceHitsItsCapture` fails too, against contracts/v2k_scope.h:195. In `SC_safety`
CPU1 also answers within 3 ms (`Timeouts` FALSE): with late answers a stream that
is turned OFF and on again can start at a read index CPU1 cached before CPU2 read
on, and CPU2 may take a block of the old stream before it sees the new
`state_seq`. In `SL_link` the host has one request under way, repeats it under
its number, and never goes back to an older number: after a restart without a
line error its first request may carry the number of the response that is kept,
and the code answers it with that response and does not execute it
(`v2k_sci_service.c:157`).

What the link does against the documents. A line error empties the kept response
with the rest of the service (`v2k_sci_resync_recovered_pipe`), so a retry after
it is executed again. docs/wire-spec.md:504 and docs/phase3.5-sci-scope2000.md:60
and :461 promise without that exception that a repeated request is not. And
docs/phase3.5-sci-scope2000.md:263 and :422 let `link_state` fall back to 0 after
about 2 s of silence; the code sets it to 0 only in a recovery.

## 4. Proofs

Every invariant and every action property of the passing runs is proved for every value of the
constants, under the assumptions named with each. The arguments:

`FaultLatch` (every number of commands, every board).

- `TypeCorrect`: from `ValuesStep`, `TripZoneStep`, `FlagsStep` and `BoardFixed`,
  one conjunct of `TypeOK` each.
- `SafetyInvariant`: the safety properties are not inductive by themselves: that
  a trip in RUNNING has its interrupt on the way depends on which of the two
  interrupt levels the pass has switched, and that on `pc`. `SafetyInv` says for
  every place of the pass what the levels, flags, driver and trip history are
  (`ModeInv`, `IrqInv`, `FlagInv`, `DriverInv`, `HistoryInv`); `SafetyStep` takes
  one action at a time. `IrqOnlyRunningHolds`, `NoSilentTripHolds`,
  `TripNotLostHolds` and `EnergizedOnlyRunningHolds` follow.
- `GateSleepsUnlessApprovedHolds` adds `GateInv`, where an approved start is;
  `EnabledAppIsWholeHolds` adds `AppInv`, that the application is enabled only
  after its last word is restored and disabled before the next restore begins.
- `LockInvariant`, `LockedUnlessRunningHolds`, `OpenOutputsAreLiveHolds` and
  `PromiseKept` assume `WindowTrips = FALSE`, no trip between the two writes of
  `v2k_board_pwm_disable_trip_irq`. They need `LockInv`: a set PIE flag is never
  stale. Exactly that trip breaks it: it sets the flag behind a disabled level,
  the flag outlives the STOP, and the next START takes the old interrupt
  (`FL_stale_trip`). `PromiseKept` maps each action to a step of `Protection` or
  a stutter.

`ScopeRing` (every capacity below 2^14). The 16-bit helpers never leave
`[0, 2*capacity)` (`RingClosed`), distance moves by one with each published and
each released block (`RingDistance`), the slot being filled is none of the unread
ones while the ring is not full (`RingSlotsDisjoint`), and the blocks of a frozen
window lie in distinct slots (`FrozenBlocksDistinct`). An index of another
geometry, which CPU1 may have cached, never makes a full ring look free as the
writer goes on (`RingCached`).

`Scope` (every set of capacities, block size and bound).

- `TypeCorrect` holds for every host, late answers and live reconfiguration
  included. `TypeInv` adds what the types rest on: a scope that is not OFF has a
  ring, and a pending configuration that was accepted implies one.
- `ForceHitsItsCaptureHolds` assumes `LiveReconfig = FALSE`. A force names a
  `state_seq`; CPU1 may take it long after CPU2 stopped waiting. It is enough
  that every arming changes `state_seq`, which it does only when the mode
  changes. So the invariant follows an ARMED configuration from the host's
  question to its application: the mode is OFF or FROZEN when it is asked for
  (`AsksAtRest`), while it waits unread (`WaitsAtRest`) and while it is pending
  (`ArmsAtRest`), because one configuration at a time is under way (`CfgOrder`)
  and the interrupt leaves a resting mode alone (`IsrQuiet`). Then a force whose
  number is still the present one was asked for in the present generation
  (`Meant`).

- `CopiedBlockIsWholeHolds`, `GapsAreAccountedHolds` and `FrozenWindowHolds`
  (`ScopeBlockProofs`) assume `LiveReconfig = FALSE` and `Timeouts = FALSE`, as
  `SC_safety` does. None of the three is inductive; each rests on a chain of
  invariants about words it does not name:
  1. Who asks, and when (`AskInv`). One request at a time is unanswered
     (`BindOrder`, `OneAsked`), and while CPU1 has a configuration pending CPU2
     stands in its wait (`Pending`); so no capacity changes between the check of
     a capture and its application (`PendFits`).
  2. What CPU1 keeps (`CoreInv`). The interrupt samples exactly in a sampling
     mode (`ActInv`) and a reconfiguration starts from an empty ring
     (`EmptyInv`), so at every tick the published blocks that are not being
     overwritten are whole, numbered in order and in step with the one being
     filled (`MemInv`). A capture drops nothing (`RowInv`) and its window is split
     as asked (`WinInv`); after the trigger the samples stored and those still
     due make up the window (`PostInv`). With the freeze, which publishes the
     partial block, this gives `FrozenWindow`: `FrozenRow` shows it contiguous,
     `WindowWhole` long enough, the guard block of `TargetBlocks` being what
     makes up for the partial one.
  3. What CPU2 reads (`ReadInv`). The read index CPU1 works with is that of CPU2
     until CPU2 has seen the new `state_seq` (`CacheInv`), and from then on CPU1
     never sees less unread than there is while it may write (`SyncInv`): what is
     unread is published and kept, in front of the slot being filled. So is the
     block a view was taken of (`ViewInv`), which gives `CopiedBlockIsWhole`.
     The block sent last is in step too and older than all that is unread, which
     gives `GapsAreAccounted` by the arithmetic of the block numbers.

- `ImplementsBlockStreamHolds` maps every step to a step of `BlockStream` or a
  stutter, from the same invariants and assumptions. The i-th of n unread blocks
  is n + 1 - i back from the writer (`QueueIs`), so a sample leaves the queue
  alone until a block is complete, which then is its new end or is lost with its
  number (`SampleFollows`). A copy takes its head (`StreamCopySends`); no other
  step of CPU2 moves the read index, because the header at it fits as long as
  anything is unread (`Cpu2Follows`). Only the update of CPU2 opens the queue,
  and it opens it empty (`BackgroundFollows`, `UpdateOpens`).

`CalPlane` (every set of addresses, lists, batch size, slot and bound).

- `PlaneInvariant`, for which CPU2 answering BUSY until a commit is acknowledged
  is what matters: a published batch is never written while CPU1 may copy it,
  every copied entry is the published one, and at most one batch is undecided.
  `PreparedIsPublishedHolds`, `StatusNamesItsBatchHolds` and
  `ImplementsParamStoreHolds` follow from it.
- `TypeCorrect`; `StagedBatchHolds` by `BatchInv` (each address
  has one place, each later entry the number of a later request);
  `PageAnswersRequestHolds` and `ReadAnswersRequestHolds` by `PageInv` and
  `ReadInv`: while the number is the one seen before the copy, the copy is of the
  request under that number, and CPU2 changes a request only after it has given up
  waiting, under a new number.

`TxPipe` and `SciLink` (two slots or more, every frame length, FIFO, ring and bound).

- `PipeInvariant`: the two contexts are never in the refill together
  (`Exclusive`, from the PIE level the foreground masks), a slot being filled
  belongs to the foreground (`Filling`), the place of the next octet is where the
  line is (`LineAt`, `Writing`), and pushes leave a slot (`SlotLeft`).
  `FramesWholeHolds`, `LineOrderHolds` and `ResponseHasSlotHolds` follow.
- `LinkInvariant`: pieces are in the order of their requests (`Ordered`), and
  nothing newer than the kept response was executed since the last recovery seen
  (`Executed`). `TypeCorrect`, `NothingOlderThanSeenHolds` and
  `ExecutedOncePerRecoveryHolds` follow.

Only model-checked: liveness (`CommandAnswered`, `TripSleepsDriver`,
`RequestsAnswered`, `CaptureDelivered`, `ReplayEnds`, `CommitDecided`,
`ReadAcknowledged`, `ResponseLeaves`, `FrameLeaves`), which under fairness is out
of the prover's reach together with ENABLED and with induction over data.

## 5. Not modelled

Nearly all lines of the repository are the vendored driver library, its two
copies for the two cores and its register headers: inline functions that write
one register each, without logic of their own. What the firmware uses of them is
modelled as hardware in `TripZone` and `TxPipe`. Of the firmware itself the
following is left out:

- register configuration and read-back, SPI transfers (one success or failure),
  the ADC and encoder drivers, GPIO and clock set-up;
- CRC values, the COBS and CRC codec and its packing (`v2k_message_codec.c`,
  `v2k_sci_frame.c`), and the discarding of a frame longer than the buffer;
- the boot handshake, the heartbeat monitors and the stale monitor: they wait
  once at the start, or set a diagnostic bit, and no other state depends on them;
- the load profile (display only), and the due masks of the executor other than
  the parameter slot;
- the CCS debugger's way to the parameter words, a restore that fails in
  `CalPlane` (`FaultLatch` has it), BAD_COUNT, which only a debugger can
  cause, the packing of a catalog page and the address ranges of the linker;
- in the scope the prescaler, channel types and widths, result words, overrun
  counters, and the values of floating-point trigger levels;
- the wrap-around of sequence numbers;
- the example application, the build and bake tools.

## 6. Plan

What is left, in this order:

1. The abstract promise of a capture (armed, triggered, frozen, delivered once)
   that `Scope` implements.
2. `Boot`: the handshake of the two cores and the monitors.
