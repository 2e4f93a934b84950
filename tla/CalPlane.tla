------------------------------ MODULE CalPlane ------------------------------
(***************************************************************************)
(* The calibration and catalog plane: the handlers CAL_WRITE, CAL_COMMIT,  *)
(* CAL_READ, ENUM and STATUS of CPU2 (cpu2/v2k_protocol.c) and the         *)
(* services of CPU1 that answer them (cpu1/runtime/v2k_registry.c,         *)
(* v2k_executor.c) over the words of contracts/v2k_param.h.  Three threads *)
(* interleave: the main loop of CPU2 (pc2), the 1 ms pass of CPU1 (pc1)    *)
(* and the control interrupt of CPU1, which preempts the pass but not      *)
(* CPU2.  A request is published by its number, written last, and answered *)
(* by the same number.                                                     *)
(* Values are abstract: a CAL_WRITE writes its own number, an ENUM asks    *)
(* for the page of its own number, and a value read is the address and     *)
(* how many batches were decided at that time.                             *)
(***************************************************************************)
EXTENDS Integers, Sequences, FiniteSets

CONSTANTS
  Addrs,       \* addresses the host names
  Writable,    \* those v2k_validate_write accepts: variables of the application
  Readable,    \* those v2k_validate_read accepts
  BatchMax,    \* V2K_PARAM_BATCH_MAX
  WriteLists, ReadLists,  \* address lists the host puts in one request
  ParamDiv,    \* control ticks between two parameter slots: V2K_DUE_1KHZ_DIV
  MaxRequests, MaxStarts  \* bounds on the host: requests, START commands

ASSUME PlaneAssumption ==
  /\ Addrs # {} /\ Writable \subseteq Addrs /\ Readable \subseteq Addrs
  /\ BatchMax \in Nat \ {0} /\ ParamDiv \in Nat \ {0}
  /\ WriteLists \subseteq Seq(Addrs) /\ ReadLists \subseteq Seq(Addrs)
  /\ MaxRequests \in Nat /\ MaxStarts \in Nat

VARIABLES
  \* CPU2: its shared words, then its own
  shadow,      \* param_shadow: count, writes
  commitSeq, readReq, enumReq,
  pc2, rest,   \* the entries of the CAL_WRITE being staged
  stagedSeq,   \* s_cal_staged_commit_seq, -1 before the first
  status,      \* the applied_seq a STATUS is being written with
  \* CPU1: its shared words
  appliedSeq, verdict,    \* param_status: applied_seq; result and fail_idx
  readResp, enumResp,
  \* the background of CPU1
  pc1, ready,             \* s_ready, with how many entries are copied
  readyValid, shadowSeen, enumSeen,
  snap,                   \* the read or page request being answered
  resetActive, toRestore, \* a START restores the application, word by word
  \* the control interrupt
  slot, applying,         \* s_param_count; between the writes of an apply
  store,                  \* the variables of the application
  \* history and bounds
  batches,                \* the batches as published
  received,               \* entries received since the last publication
  accepted,               \* addresses of those acknowledged with OK
  readMin,                \* batches decided when a read was published
  requests, starts

shadowVars == <<shadow, commitSeq, stagedSeq, batches, received, accepted>>
readVars   == <<readReq, readMin>>
cpu2Vars   == <<shadowVars, readVars, enumReq, pc2, rest, status, requests>>
paramVars  == <<ready, readyValid, shadowSeen, appliedSeq, verdict>>
answerVars == <<readResp, enumResp, enumSeen, snap>>
resetVars  == <<resetActive, toRestore, starts>>
isrVars    == <<slot, applying, store>>
cpu1Vars   == <<paramVars, answerVars, resetVars, isrVars, pc1>>
vars       == <<cpu2Vars, cpu1Vars>>

Entry    == [addr : Addrs, val : 0 .. MaxRequests]
Blank    == [addr |-> CHOOSE a \in Addrs : TRUE, val |-> 0]
Accepted == [result |-> "OK", failIdx |-> 0]
Default  == [a \in Writable |-> 0]

Pcs1 == {"catalog", "page", "pageCheck", "pageAck", "param", "copy", "refuse",
         "read", "refs", "refsCheck", "values", "fault", "restore"}
Pcs2 == {"loop", "stage", "readPublish", "readWait", "enumPublish", "enumWait",
         "status"}
Verdicts == [result : {"OK", "BAD"}, failIdx : Nat]

\* The batch a shadow or a snapshot holds.
Batch(s) == [k \in 1 .. s.count |-> s.writes[k]]

P == INSTANCE ParamStore WITH
  decided <- IF applying THEN appliedSeq + 1 ELSE appliedSeq,
  store <- IF resetActive THEN Default ELSE store,
  restoring <- resetActive

NoSnap == [seq |-> 0, refs |-> <<>>, page |-> 0]

Init ==
  /\ shadow = [count |-> 0, writes |-> [k \in 1 .. BatchMax |-> Blank]]
  /\ commitSeq = 0 /\ readReq = [seq |-> 0, refs |-> <<>>]
  /\ enumReq = [seq |-> 0, page |-> 0]
  /\ pc2 = "loop" /\ rest = <<>> /\ stagedSeq = -1
  /\ status = 0
  /\ appliedSeq = 0 /\ verdict = Accepted
  /\ readResp = [ack |-> 0, ok |-> TRUE, vals |-> <<>>]
  /\ enumResp = [ack |-> 0, page |-> 0]
  /\ pc1 = "catalog" /\ readyValid = FALSE /\ shadowSeen = 0 /\ enumSeen = 0
  /\ ready = [seq |-> 0, count |-> 0, copied |-> 0,
              writes |-> [k \in 1 .. BatchMax |-> Blank]]
  /\ snap = NoSnap
  /\ resetActive = FALSE /\ toRestore = {} /\ starts = 0
  /\ slot = 0 /\ applying = FALSE /\ store = Default
  /\ batches = <<>> /\ received = {} /\ accepted = {}
  /\ readMin = 0 /\ requests = 0

-----------------------------------------------------------------------------
(* CPU2: staging and publishing a batch.                                   *)

Request == requests < MaxRequests /\ requests' = requests + 1

\* Mutant: no BUSY while CPU1 works on the last commit.
NeverBusy == TRUE

\* CAL_WRITE and CAL_COMMIT answer BUSY, and change nothing, until the last
\* commit is acknowledged.
NotBusy == commitSeq = appliedSeq

\* Mutant: the count outlives a commit.
FreshStageKept == UNCHANGED shadow /\ stagedSeq' = commitSeq

\* The first CAL_WRITE after a commit empties the batch.
FreshStage ==
  IF stagedSeq # commitSeq
  THEN shadow' = [shadow EXCEPT !.count = 0] /\ stagedSeq' = commitSeq
  ELSE UNCHANGED <<shadow, stagedSeq>>

\* A CAL_WRITE; one of the wrong length stages nothing, but has emptied the
\* batch before that is found out.
CalWrite ==
  /\ pc2 = "loop" /\ NotBusy /\ Request /\ FreshStage
  /\ \/ \E f \in WriteLists :
          /\ rest' = [k \in DOMAIN f |-> [addr |-> f[k], val |-> requests']]
          /\ pc2' = "stage"
     \/ UNCHANGED <<rest, pc2>>
  /\ UNCHANGED <<cpu1Vars, readVars, enumReq, status, commitSeq, batches,
                 received, accepted>>

\* v2k_find_staged: the place of an address in the batch, 0 if it has none.
Staged(a) ==
  LET K == {k \in 1 .. shadow.count : shadow.writes[k].addr = a}
  IN IF K = {} THEN 0 ELSE CHOOSE k \in K : \A j \in K : k <= j

\* The batch is full: BAD_PARAM.  The entries before this one stay staged.
StageOverflow ==
  /\ pc2 = "stage" /\ rest # <<>> /\ shadow.count = BatchMax
  /\ Staged(rest[1].addr) = 0
  /\ rest' = <<>> /\ pc2' = "loop"
  /\ UNCHANGED <<cpu1Vars, readVars, enumReq, status, commitSeq, stagedSeq,
                 batches, requests, shadow, received, accepted>>

StageEntry ==
  /\ pc2 = "stage" /\ rest # <<>>
  /\ LET at == Staged(rest[1].addr)
         dst == IF at = 0 THEN shadow.count + 1 ELSE at
     IN /\ dst <= BatchMax
        /\ shadow' = [count |-> IF at = 0 THEN dst ELSE shadow.count,
                      writes |-> [shadow.writes EXCEPT ![dst] = rest[1]]]
  /\ rest' = Tail(rest) /\ received' = received \cup {rest[1]}
  /\ UNCHANGED <<cpu1Vars, readVars, enumReq, status, commitSeq, stagedSeq,
                 batches, requests, pc2, accepted>>

\* Every entry is staged: ACK(OK).
StageDone ==
  /\ pc2 = "stage" /\ rest = <<>> /\ pc2' = "loop"
  /\ accepted' = accepted \cup {a \in Addrs : [addr |-> a, val |-> requests] \in received}
  /\ UNCHANGED <<cpu1Vars, readVars, enumReq, status, commitSeq, stagedSeq,
                 batches, requests, shadow, received, rest>>

CalCommit ==
  /\ pc2 = "loop" /\ shadow.count # 0 /\ NotBusy /\ Request
  /\ commitSeq' = commitSeq + 1
  /\ batches' = Append(batches, Batch(shadow))
  /\ received' = {} /\ accepted' = {}
  /\ UNCHANGED <<cpu1Vars, readVars, enumReq, status, stagedSeq, pc2,
                 shadow, rest>>

-----------------------------------------------------------------------------
(* CPU2: reads, pages and status.                                          *)

\* CAL_READ writes its list, then its number, then waits 3 ms.
CalRead ==
  /\ pc2 = "loop" /\ Request
  /\ \E f \in ReadLists : readReq' = [readReq EXCEPT !.refs = f]
  /\ pc2' = "readPublish"
  /\ UNCHANGED <<cpu1Vars, shadowVars, enumReq, status, rest,
                 readMin>>

ReadPublish ==
  /\ pc2 = "readPublish" /\ pc2' = "readWait"
  /\ readReq' = [readReq EXCEPT !.seq = @ + 1] /\ readMin' = appliedSeq
  /\ UNCHANGED <<cpu1Vars, shadowVars, enumReq, status, requests, rest>>

\* ENUM does the same for one page of the catalog and waits 6 ms.
Enum ==
  /\ pc2 = "loop" /\ Request
  /\ enumReq' = [enumReq EXCEPT !.page = @ + 1]
  /\ pc2' = "enumPublish"
  /\ UNCHANGED <<cpu1Vars, shadowVars, readVars, status, rest>>

EnumPublish ==
  /\ pc2 = "enumPublish" /\ pc2' = "enumWait"
  /\ enumReq' = [enumReq EXCEPT !.seq = @ + 1]
  /\ UNCHANGED <<cpu1Vars, shadowVars, readVars, status, requests, rest>>

\* The answer is there and is copied into the response, or CPU2 gives up
\* waiting and answers INTERNAL.
ReadEnds ==
  /\ pc2 = "readWait" /\ pc2' = "loop"
  /\ UNCHANGED <<cpu1Vars, shadowVars, readVars, enumReq, status, requests,
                 rest>>

EnumEnds ==
  /\ pc2 = "enumWait" /\ pc2' = "loop"
  /\ UNCHANGED <<cpu1Vars, shadowVars, readVars, enumReq, status, requests,
                 rest>>

\* A STATUS reads the acknowledgement, then the result.
StatusSeq ==
  /\ pc2 = "loop" /\ status' = appliedSeq
  /\ pc2' = "status"
  /\ UNCHANGED <<cpu1Vars, shadowVars, readVars, enumReq, requests, rest>>

StatusResult ==
  /\ pc2 = "status" /\ pc2' = "loop" /\ status' = 0
  /\ UNCHANGED <<cpu1Vars, shadowVars, readVars, enumReq, requests, rest>>

Cpu2 == \/ CalWrite \/ StageOverflow \/ StageEntry \/ StageDone \/ CalCommit
        \/ CalRead \/ ReadPublish \/ ReadEnds
        \/ Enum \/ EnumPublish \/ EnumEnds
        \/ StatusSeq \/ StatusResult

-----------------------------------------------------------------------------
(* The 1 ms pass of CPU1, between two control interrupts.                  *)

Goto(from, to) == pc1 = from /\ ~applying /\ pc1' = to

\* v2k_catalog_service looks at the request number ...
CatalogLook ==
  /\ IF enumReq.seq \notin {enumSeen, enumResp.ack}
     THEN Goto("catalog", "page") /\ snap' = [NoSnap EXCEPT !.seq = enumReq.seq]
     ELSE Goto("catalog", "param") /\ UNCHANGED snap
  /\ UNCHANGED <<cpu2Vars, paramVars, readResp, enumResp, enumSeen, resetVars,
                 isrVars>>

\* ... at the page ...
CatalogCopy ==
  /\ Goto("page", "pageCheck") /\ snap' = [snap EXCEPT !.page = enumReq.page]
  /\ UNCHANGED <<cpu2Vars, paramVars, readResp, enumResp, enumSeen, resetVars,
                 isrVars>>

\* ... and at the number again; then it packs the page
CatalogCheck ==
  /\ IF snap.seq = enumReq.seq
     THEN /\ Goto("pageCheck", "pageAck") /\ UNCHANGED snap
          /\ enumSeen' = snap.seq
          /\ enumResp' = [enumResp EXCEPT !.page = snap.page]
     ELSE /\ Goto("pageCheck", "param") /\ snap' = NoSnap
          /\ UNCHANGED <<enumSeen, enumResp>>
  /\ UNCHANGED <<cpu2Vars, paramVars, readResp, resetVars, isrVars>>

\* Mutant: it acknowledges the newest number.
CatalogAckNewest ==
  /\ Goto("pageAck", "param") /\ snap' = NoSnap
  /\ enumResp' = [enumResp EXCEPT !.ack = enumReq.seq]
  /\ UNCHANGED <<cpu2Vars, paramVars, readResp, enumSeen, resetVars, isrVars>>

\* and acknowledges it.
CatalogAck ==
  /\ Goto("pageAck", "param") /\ snap' = NoSnap
  /\ enumResp' = [enumResp EXCEPT !.ack = snap.seq]
  /\ UNCHANGED <<cpu2Vars, paramVars, readResp, enumSeen, resetVars, isrVars>>

\* v2k_param_service: a new commit, and none prepared.
ParamLook ==
  /\ LET new == ~readyValid /\ commitSeq \notin {shadowSeen, appliedSeq}
     IN IF new
        THEN /\ Goto("param", "copy")
             /\ ready' = [ready EXCEPT !.seq = commitSeq, !.count = shadow.count,
                                       !.copied = 0]
        ELSE Goto("param", "read") /\ UNCHANGED ready
  /\ UNCHANGED <<cpu2Vars, readyValid, shadowSeen, appliedSeq, verdict,
                 answerVars, resetVars, isrVars>>

CopyEntry ==
  /\ Goto("copy", "copy") /\ ready.copied < ready.count
  /\ ready' = [ready EXCEPT !.copied = @ + 1,
               !.writes[ready.copied + 1] = shadow.writes[ready.copied + 1]]
  /\ UNCHANGED <<cpu2Vars, readyValid, shadowSeen, appliedSeq, verdict,
                 answerVars, resetVars, isrVars>>

\* v2k_validate_write on each entry: the first that is refused decides.
Verdict(b) ==
  LET bad == {k \in DOMAIN b : b[k].addr \notin Writable}
  IN IF bad = {} THEN Accepted
     ELSE [result |-> "BAD", failIdx |-> (CHOOSE k \in bad : \A j \in bad : k <= j) - 1]

\* Copied and still the newest: it waits for the interrupt if all of it is
\* legal, else it is refused.
Prepare ==
  /\ ready.copied = ready.count
  /\ IF commitSeq # ready.seq
     THEN Goto("copy", "read") /\ UNCHANGED <<readyValid, shadowSeen, verdict>>
     ELSE /\ shadowSeen' = commitSeq
          /\ LET v == Verdict(Batch(ready))
             IN IF v = Accepted
                THEN /\ Goto("copy", "read") /\ readyValid' = TRUE
                     /\ UNCHANGED verdict
                ELSE /\ Goto("copy", "refuse") /\ verdict' = v
                     /\ UNCHANGED readyValid
  /\ ready' = [ready EXCEPT !.copied = 0]
  /\ UNCHANGED <<cpu2Vars, appliedSeq, answerVars, resetVars, isrVars>>

\* Mutant: a refused batch is not acknowledged.
RefuseSilently ==
  /\ Goto("refuse", "read")
  /\ UNCHANGED <<cpu2Vars, paramVars, answerVars, resetVars, isrVars>>

\* The refused batch is acknowledged after its result is written.
Refuse ==
  /\ Goto("refuse", "read") /\ appliedSeq' = ready.seq
  /\ UNCHANGED <<cpu2Vars, ready, readyValid, shadowSeen, verdict, answerVars,
                 resetVars, isrVars>>

\* v2k_param_read_service looks at the number of the request ...
ReadLook ==
  /\ IF readReq.seq # readResp.ack
     THEN Goto("read", "refs") /\ snap' = [NoSnap EXCEPT !.seq = readReq.seq]
     ELSE Goto("read", "fault") /\ UNCHANGED snap
  /\ UNCHANGED <<cpu2Vars, paramVars, readResp, enumResp, enumSeen, resetVars,
                 isrVars>>

\* ... copies its list ...
ReadCopy ==
  /\ Goto("refs", "refsCheck")
  /\ snap' = [snap EXCEPT !.refs = readReq.refs]
  /\ UNCHANGED <<cpu2Vars, paramVars, readResp, enumResp, enumSeen, resetVars,
                 isrVars>>

ReadLegal(refs) == \A k \in DOMAIN refs : refs[k] \in Readable

\* ... and looks at the number again, validates the list, and writes the
\* result.
ReadCheck ==
  /\ IF snap.seq = readReq.seq
     THEN /\ Goto("refsCheck", "values") /\ UNCHANGED snap
          /\ readResp' = [readResp EXCEPT !.ok = ReadLegal(snap.refs), !.vals = <<>>]
     ELSE /\ Goto("refsCheck", "fault") /\ snap' = NoSnap
          /\ UNCHANGED readResp
  /\ UNCHANGED <<cpu2Vars, paramVars, enumResp, enumSeen, resetVars, isrVars>>

\* The values are read one by one; an apply may come between two of them.
ReadValue ==
  /\ readResp.ok /\ Len(readResp.vals) < Len(snap.refs)
  /\ Goto("values", "values")
  /\ LET a == snap.refs[Len(readResp.vals) + 1]
     IN readResp' = [readResp EXCEPT
                       !.vals = Append(@, [addr |-> a, seen |-> appliedSeq])]
  /\ UNCHANGED <<cpu2Vars, paramVars, enumResp, enumSeen, snap, resetVars, isrVars>>

\* Mutant: the answer is acknowledged before its last value.
ReadAckEarly ==
  /\ readResp.ok => Len(readResp.vals) + 1 >= Len(snap.refs)
  /\ Goto("values", "fault") /\ snap' = NoSnap
  /\ readResp' = [readResp EXCEPT !.ack = snap.seq]
  /\ UNCHANGED <<cpu2Vars, paramVars, enumResp, enumSeen, resetVars, isrVars>>

\* Mutant: a refused list is not acknowledged.
ReadAckLegal ==
  /\ readResp.ok => Len(readResp.vals) = Len(snap.refs)
  /\ Goto("values", "fault") /\ snap' = NoSnap
  /\ readResp' = [readResp EXCEPT !.ack = IF readResp.ok THEN snap.seq ELSE @]
  /\ UNCHANGED <<cpu2Vars, paramVars, enumResp, enumSeen, resetVars, isrVars>>

ReadAck ==
  /\ readResp.ok => Len(readResp.vals) = Len(snap.refs)
  /\ Goto("values", "fault") /\ snap' = NoSnap
  /\ readResp' = [readResp EXCEPT !.ack = snap.seq]
  /\ UNCHANGED <<cpu2Vars, paramVars, enumResp, enumSeen, resetVars, isrVars>>

\* v2k_fault_poll ends the pass, and may begin a START: v2k_user_prepare_start
\* restores the application word by word while the interrupt goes on.
NoStart ==
  /\ Goto("fault", "catalog")
  /\ UNCHANGED <<cpu2Vars, paramVars, answerVars, resetVars, isrVars>>

PrepareStart ==
  /\ starts < MaxStarts /\ starts' = starts + 1
  /\ Goto("fault", "restore") /\ resetActive' = TRUE /\ toRestore' = Writable
  /\ UNCHANGED <<cpu2Vars, paramVars, answerVars, isrVars>>

RestoreWord ==
  /\ Goto("restore", "restore")
  /\ \E a \in toRestore :
       toRestore' = toRestore \ {a} /\ store' = [store EXCEPT ![a] = 0]
  /\ UNCHANGED <<cpu2Vars, paramVars, answerVars, resetActive, starts, slot, applying>>

RestoreDone ==
  /\ Goto("restore", "catalog") /\ toRestore = {} /\ resetActive' = FALSE
  /\ UNCHANGED <<cpu2Vars, paramVars, answerVars, toRestore, starts, isrVars>>

Background ==
  \/ CatalogLook \/ CatalogCopy \/ CatalogCheck \/ CatalogAck
  \/ ParamLook \/ CopyEntry \/ Prepare \/ Refuse
  \/ ReadLook \/ ReadCopy \/ ReadCheck \/ ReadValue \/ ReadAck
  \/ NoStart \/ PrepareStart \/ RestoreWord \/ RestoreDone

-----------------------------------------------------------------------------
(* The control interrupt of CPU1.                                          *)

\* Mutant: the count starts one too high.
CountdownLong(count, period) == IF count = 0 THEN period ELSE count - 1

\* v2k_countdown_due: the slot comes when the count is 0.
CountdownDue(count) == count = 0
Countdown(count, period) == IF CountdownDue(count) THEN period - 1 ELSE count - 1

\* Mutant: a batch is applied while a START restores the application.
MayApplyAlways == CountdownDue(slot) /\ readyValid

MayApply == CountdownDue(slot) /\ ~resetActive /\ readyValid

\* Mutant: the result of a batch that was applied is not written.
ControlTickKeepsResult ==
  /\ ~applying /\ slot' = Countdown(slot, ParamDiv)
  /\ IF MayApply
     THEN store' = P!Written(store, Batch(ready)) /\ applying' = TRUE
     ELSE UNCHANGED <<store, applying>>
  /\ UNCHANGED <<cpu2Vars, ready, readyValid, shadowSeen, appliedSeq, verdict,
                 answerVars, resetVars, pc1>>

\* v2k_param_apply_ready up to the result.  Nothing on CPU1 runs until the
\* interrupt ends; CPU2 may look at the words in between.
ControlTick ==
  /\ ~applying /\ slot' = Countdown(slot, ParamDiv)
  /\ IF MayApply
     THEN /\ store' = P!Written(store, Batch(ready)) /\ verdict' = Accepted
          /\ applying' = TRUE
     ELSE UNCHANGED <<store, verdict, applying>>
  /\ UNCHANGED <<cpu2Vars, ready, readyValid, shadowSeen, appliedSeq, answerVars,
                 resetVars, pc1>>

ApplyAck ==
  /\ applying /\ applying' = FALSE
  /\ appliedSeq' = ready.seq /\ readyValid' = FALSE
  /\ UNCHANGED <<cpu2Vars, ready, shadowSeen, verdict, answerVars, resetVars,
                 pc1, slot, store>>

ControlIsr == ControlTick \/ ApplyAck

Next == Cpu2 \/ Background \/ ControlIsr

Spec == Init /\ [][Next]_vars

\* The pass of CPU1 and its control interrupt run for ever.  Nothing is
\* assumed of the host and of CPU2.
FairSpec == Spec /\ WF_vars(Background) /\ WF_vars(ControlIsr)

-----------------------------------------------------------------------------
(* Properties.                                                             *)

\* Every variable keeps its type, and the batch being staged fits.
TypeOK ==
  /\ shadow \in [count : 0 .. BatchMax, writes : [1 .. BatchMax -> Entry]]
  /\ commitSeq \in Nat /\ appliedSeq \in Nat /\ shadowSeen \in Nat
  /\ stagedSeq \in Nat \cup {-1} /\ pc2 \in Pcs2 /\ rest \in Seq(Entry)
  /\ verdict \in Verdicts /\ status \in Nat
  /\ readReq \in [seq : Nat, refs : Seq(Addrs)] /\ readMin \in Nat
  /\ readResp \in [ack : Nat, ok : BOOLEAN,
                   vals : Seq([addr : Addrs, seen : Nat])]
  /\ enumReq \in [seq : Nat, page : 0 .. MaxRequests] /\ enumSeen \in Nat
  /\ enumResp \in [ack : Nat, page : 0 .. MaxRequests]
  /\ snap \in [seq : Nat, refs : Seq(Addrs), page : 0 .. MaxRequests]
  /\ pc1 \in Pcs1 /\ readyValid \in BOOLEAN /\ applying \in BOOLEAN
  /\ ready \in [seq : Nat, count : 0 .. BatchMax, copied : 0 .. BatchMax,
                writes : [1 .. BatchMax -> Entry]]
  /\ resetActive \in BOOLEAN /\ toRestore \subseteq Writable /\ starts \in Nat
  /\ slot \in 0 .. ParamDiv - 1 /\ store \in [Writable -> 0 .. MaxRequests]
  /\ batches \in Seq(UNION {[1 .. n -> Entry] : n \in 0 .. BatchMax})
  /\ received \subseteq Entry /\ accepted \subseteq Addrs /\ requests \in 0 .. MaxRequests

\* The snapshot the interrupt is about to write is, entry for entry, the batch
\* that was published under its number, all of it legal, the next one to be
\* decided: never a copy torn by a CAL_WRITE that came in between.
PreparedIsPublished ==
  readyValid => /\ ready.seq = appliedSeq + 1 /\ ready.seq = Len(batches)
                /\ Batch(ready) = batches[ready.seq]
                /\ Verdict(batches[ready.seq]) = Accepted

\* The words an apply reads and the batch CAL_WRITE builds: one entry per
\* address, the last one received for it; every address the host was told OK
\* for; and, once a CAL_WRITE came after a commit, nothing older.
StagedBatch ==
  LET staged == {shadow.writes[k] : k \in 1 .. shadow.count}
  IN /\ \A j, k \in 1 .. shadow.count :
          shadow.writes[j].addr = shadow.writes[k].addr => j = k
     /\ \A e \in received : \E s \in staged : s.addr = e.addr /\ s.val >= e.val
     /\ accepted \subseteq {s.addr : s \in staged}
     /\ stagedSeq = commitSeq => staged \subseteq received

\* What CPU2 finds acknowledged under the number it waits for answers its own
\* list, not that of a read it gave up on, and no value is older than the
\* batches STATUS had confirmed before the read was sent.
ReadAnswersRequest ==
  pc2 = "readWait" /\ readResp.ack = readReq.seq =>
    /\ readResp.ok = ReadLegal(readReq.refs)
    /\ readResp.ok =>
         /\ [k \in DOMAIN readResp.vals |-> readResp.vals[k].addr] = readReq.refs
         /\ \A k \in DOMAIN readResp.vals : readResp.vals[k].seen >= readMin

\* The same for a page of the catalog.
PageAnswersRequest ==
  pc2 = "enumWait" /\ enumResp.ack = enumReq.seq => enumResp.page = enumReq.page

\* A STATUS that names the newest commit carries the result of that commit:
\* CPU1 writes the result before the number, CPU2 reads them the other way.
StatusNamesItsBatch ==
  [][StatusResult /\ status = commitSeq /\ commitSeq > 0
       => verdict = Verdict(batches[commitSeq])]_vars

\* The plane keeps the promise of ParamStore.
ImplementsParamStore == P!Spec

\* Every published batch is decided, and every read request acknowledged by
\* CPU1, whether or not CPU2 still waits for it.
CommitDecided == commitSeq # appliedSeq ~> commitSeq = appliedSeq
ReadAcknowledged == readReq.seq # readResp.ack ~> readReq.seq = readResp.ack
=============================================================================
