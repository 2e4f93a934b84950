--------------------------- MODULE CalPlaneProofs ---------------------------
(***************************************************************************)
(* Proofs about CalPlane, for every set of addresses, every batch size and *)
(* every host: what the interrupt applies is the published batch, a STATUS *)
(* pairs a commit number with its own result, and the plane implements     *)
(* ParamStore: these follow from PlaneInv, whose core is that CPU2         *)
(* answers BUSY until a commit is acknowledged, so that the batch the      *)
(* background copies is nobody else's to write.                            *)
(***************************************************************************)
EXTENDS CalPlane, SequenceTheorems, NatLemmas, TLAPS

Batches == UNION {[1 .. n -> Entry] : n \in 0 .. BatchMax}

\* The types the proofs need.
ReadyTyped(r) ==
  /\ r.seq \in Nat /\ r.count \in Nat /\ r.copied \in Nat
  /\ r.writes \in [1 .. BatchMax -> Entry]
  /\ r = [seq |-> r.seq, count |-> r.count, copied |-> r.copied, writes |-> r.writes]

PlaneTypes ==
  /\ shadow \in [count : 0 .. BatchMax, writes : [1 .. BatchMax -> Entry]]
  /\ commitSeq \in Nat /\ appliedSeq \in Nat /\ status \in Nat
  /\ rest \in Seq(Entry) /\ requests \in 0 .. MaxRequests
  /\ batches \in Seq(Batches)
  /\ ReadyTyped(ready)
  /\ readyValid \in BOOLEAN /\ applying \in BOOLEAN /\ resetActive \in BOOLEAN
  /\ store = [x \in Writable |-> store[x]]

\* One commit at most is undecided, and its batch stays in the shadow.
Handshake ==
  /\ Len(batches) = commitSeq
  /\ commitSeq = appliedSeq \/ commitSeq = appliedSeq + 1
  /\ pc2 = "stage" => commitSeq = appliedSeq
  /\ commitSeq # appliedSeq => Batch(shadow) = batches[commitSeq]

\* The copy being made, the batch waiting for the interrupt, and the batch that
\* is about to be refused are the undecided one.
Undecided == ready.seq = commitSeq /\ commitSeq = appliedSeq + 1
Copying ==
  pc1 = "copy" => /\ Undecided /\ ~readyValid
                  /\ ready.count = shadow.count /\ ready.copied <= ready.count
                  /\ \A k \in 1 .. ready.copied : ready.writes[k] = shadow.writes[k]
Waiting ==
  readyValid => /\ Undecided /\ pc1 \notin {"copy", "refuse"}
                /\ Batch(ready) = batches[commitSeq]
                /\ Verdict(batches[commitSeq]) = Accepted
Refusing ==
  pc1 = "refuse" => /\ Undecided /\ ~readyValid
                    /\ verdict = Verdict(batches[commitSeq]) /\ verdict # Accepted
Applying == applying => readyValid /\ ~resetActive /\ verdict = Accepted

\* The result stays that of the last decided batch, and a STATUS under way has
\* read no newer number.
Decided ==
  /\ commitSeq = appliedSeq /\ commitSeq > 0 => verdict = Verdict(batches[commitSeq])
  /\ pc2 = "status" => status <= appliedSeq

\* What a START has restored stays restored.
Restoring ==
  /\ resetActive <=> pc1 = "restore"
  /\ resetActive => ~applying /\ \A x \in Writable \ toRestore : store[x] = 0

PlaneInv == /\ PlaneTypes /\ Handshake /\ Copying /\ Waiting /\ Refusing
            /\ Applying /\ Decided /\ Restoring

coreVars == <<shadow, commitSeq, batches, rest, status, ready, readyValid,
              appliedSeq, verdict, resetActive, toRestore, applying, store>>

-----------------------------------------------------------------------------
(* The invariant.                                                          *)

(* The plane starts with nothing published and nothing decided.            *)
LEMMA PlaneInit == Init => PlaneInv
<1> SUFFICES ASSUME Init PROVE PlaneInv
  OBVIOUS
<1>1. Blank \in Entry
  BY PlaneAssumption DEF Blank, Entry
<1>2. PlaneTypes
  <2>1. BatchMax \in Nat /\ 0 \in 0 .. BatchMax /\ 0 \in 0 .. MaxRequests
    BY PlaneAssumption
  <2>2. [k \in 1 .. BatchMax |-> Blank] \in [1 .. BatchMax -> Entry]
    BY <1>1
  <2>3. shadow \in [count : 0 .. BatchMax, writes : [1 .. BatchMax -> Entry]]
    BY <2>1, <2>2 DEF Init
  <2>4. rest \in Seq(Entry) /\ batches \in Seq(Batches)
    BY DEF Init
  <2>5. ReadyTyped(ready)
    BY <2>2 DEF Init, ReadyTyped
  <2>6. store = [x \in Writable |-> store[x]]
    BY DEF Init, Default
  <2> QED
    BY <2>1, <2>3, <2>4, <2>5, <2>6 DEF Init, PlaneTypes
<1>3. Handshake /\ Copying /\ Waiting /\ Refusing /\ Applying /\ Decided /\ Restoring
  BY DEF Init, Handshake, Copying, Waiting, Refusing, Applying, Decided, Restoring
<1> QED
  BY <1>2, <1>3 DEF PlaneInv

(* A step of v2k_protocol.c or v2k_registry.c that leaves the words of the *)
(* handshake alone keeps the invariant.                                    *)
LEMMA OtherStep ==
  ASSUME PlaneInv, UNCHANGED coreVars, requests' \in 0 .. MaxRequests,
         pc1' = pc1 \/ pc1' \notin {"copy", "refuse"},
         resetActive <=> pc1' = "restore",
         pc2' = pc2 \/ pc2' \notin {"stage", "status"}
  PROVE  PlaneInv'
<1> USE DEF PlaneInv, coreVars
<1>1. PlaneTypes'
  BY DEF PlaneTypes
<1>2. Handshake' /\ Decided'
  BY DEF Handshake, Decided, Batch
<1>3. Copying' /\ Waiting' /\ Refusing'
  BY DEF Copying, Waiting, Refusing, Undecided, Batch
<1>4. Applying' /\ Restoring'
  BY DEF Applying, Restoring
<1> QED
  BY <1>1, <1>2, <1>3, <1>4

(* The steps of CPU2 keep the invariant: CAL_WRITE changes the batch only  *)
(* while no commit is undecided.                                           *)
LEMMA Cpu2Step == PlaneInv /\ Cpu2 => PlaneInv'
<1> SUFFICES ASSUME PlaneInv, Cpu2 PROVE PlaneInv'
  OBVIOUS
<1> USE DEF cpu2Vars, cpu1Vars, paramVars, answerVars, resetVars, isrVars,
            shadowVars, readVars
<1>1. requests \in 0 .. MaxRequests /\ (Request => requests' \in 0 .. MaxRequests)
  BY PlaneAssumption DEF PlaneInv, PlaneTypes, Request
<1>2. resetActive <=> pc1 = "restore"
  BY DEF PlaneInv, Restoring
<1>3. CASE StageDone \/ CalRead \/ ReadPublish \/ ReadEnds \/ Enum \/ EnumPublish
           \/ EnumEnds
  <2>1. UNCHANGED coreVars /\ pc1' = pc1 /\ pc2' \notin {"stage", "status"}
    BY <1>3 DEF StageDone, CalRead, ReadPublish, ReadEnds, Enum, EnumPublish,
                EnumEnds, coreVars
  <2>2. requests' \in 0 .. MaxRequests
    BY <1>1, <1>3 DEF StageDone, CalRead, ReadPublish, ReadEnds, Enum, EnumPublish,
                      EnumEnds
  <2> QED
    BY <2>1, <2>2, <1>2, OtherStep
<1>4. CASE CalWrite
  <2>1. /\ commitSeq = appliedSeq /\ requests' \in 0 .. MaxRequests
        /\ pc2' \in {"stage", "loop"}
        /\ UNCHANGED <<commitSeq, batches, status, ready, readyValid, appliedSeq,
                       verdict, resetActive, toRestore, applying, store, pc1>>
    BY <1>1, <1>4 DEF CalWrite, NotBusy
  <2>2. shadow' \in [count : 0 .. BatchMax, writes : [1 .. BatchMax -> Entry]]
    <3>1. shadow \in [count : 0 .. BatchMax, writes : [1 .. BatchMax -> Entry]]
      BY DEF PlaneInv, PlaneTypes
    <3>2. 0 \in 0 .. BatchMax
      BY PlaneAssumption
    <3>3. shadow' = shadow \/ shadow' = [shadow EXCEPT !.count = 0]
      BY <1>4 DEF CalWrite, FreshStage
    <3> QED
      BY <3>1, <3>2, <3>3
  <2>3. rest' \in Seq(Entry)
    <3>1. ASSUME NEW f \in WriteLists
          PROVE  [k \in DOMAIN f |-> [addr |-> f[k], val |-> requests']] \in Seq(Entry)
      <4> DEFINE g == [k \in DOMAIN f |-> [addr |-> f[k], val |-> requests']]
      <4>1. f \in Seq(Addrs)
        BY PlaneAssumption
      <4>2. Len(f) \in Nat /\ DOMAIN f = 1 .. Len(f) /\ f \in [1 .. Len(f) -> Addrs]
        BY <4>1, LenProperties
      <4>3. g \in [1 .. Len(f) -> Entry]
        BY <4>2, <2>1 DEF Entry
      <4> HIDE DEF g
      <4>4. g \in Seq(Entry)
        BY <4>2, <4>3, SeqDef
      <4> QED
        BY <4>4 DEF g
    <3> QED
      BY <3>1, <1>4 DEF CalWrite, PlaneInv, PlaneTypes
  <2>4. PlaneTypes'
    BY <2>1, <2>2, <2>3 DEF PlaneInv, PlaneTypes
  <2>5. ~readyValid /\ pc1 \notin {"copy", "refuse"} /\ ~applying
    BY <2>1 DEF PlaneInv, PlaneTypes, Copying, Waiting, Refusing, Applying, Undecided
  <2>6. Handshake' /\ Decided'
    BY <2>1 DEF PlaneInv, Handshake, Decided
  <2>7. Copying' /\ Waiting' /\ Refusing' /\ Applying' /\ Restoring'
    BY <2>1, <2>5 DEF PlaneInv, Copying, Waiting, Refusing, Applying, Restoring
  <2> QED
    BY <2>4, <2>6, <2>7 DEF PlaneInv
<1>5. CASE StageOverflow \/ StageEntry
  <2>1. /\ commitSeq = appliedSeq /\ pc2' \in {"stage", "loop"}
        /\ UNCHANGED <<commitSeq, batches, status, ready, readyValid, appliedSeq,
                       verdict, resetActive, toRestore, applying, store, pc1,
                       requests>>
    BY <1>5 DEF StageOverflow, StageEntry, PlaneInv, Handshake
  <2>2. rest \in Seq(Entry) /\ rest # <<>>
    BY <1>5 DEF StageOverflow, StageEntry, PlaneInv, PlaneTypes
  <2>3. rest' \in Seq(Entry)
    <3>1. Tail(rest) \in Seq(Entry) /\ <<>> \in Seq(Entry)
      BY <2>2, HeadTailProperties
    <3>2. rest' = <<>> \/ rest' = Tail(rest)
      BY <1>5 DEF StageOverflow, StageEntry
    <3> QED
      BY <3>1, <3>2
  <2>4. shadow' \in [count : 0 .. BatchMax, writes : [1 .. BatchMax -> Entry]]
    <3>1. CASE StageOverflow
      BY <3>1 DEF StageOverflow, PlaneInv, PlaneTypes
    <3>2. CASE StageEntry
      <4> DEFINE s == Staged(rest[1].addr)
                 dst == IF s = 0 THEN shadow.count + 1 ELSE s
      <4>1. rest[1] \in Entry
        BY <2>2
      <4>2. shadow.count \in 0 .. BatchMax /\ shadow.writes \in [1 .. BatchMax -> Entry]
        BY DEF PlaneInv, PlaneTypes
      <4>3. dst <= BatchMax
            /\ shadow' = [count |-> IF s = 0 THEN dst ELSE shadow.count,
                          writes |-> [shadow.writes EXCEPT ![dst] = rest[1]]]
        BY <3>2 DEF StageEntry
      <4>4. [shadow.writes EXCEPT ![dst] = rest[1]] \in [1 .. BatchMax -> Entry]
        BY <4>1, <4>2
      <4>5. (IF s = 0 THEN dst ELSE shadow.count) \in 0 .. BatchMax
        BY <4>2, <4>3, PlaneAssumption
      <4> HIDE DEF s, dst
      <4> QED
        BY <4>3, <4>4, <4>5
    <3> QED
      BY <3>1, <3>2, <1>5
  <2>5. PlaneTypes'
    BY <2>1, <2>3, <2>4 DEF PlaneInv, PlaneTypes
  <2>6. ~readyValid /\ pc1 \notin {"copy", "refuse"} /\ ~applying
    BY <2>1 DEF PlaneInv, PlaneTypes, Copying, Waiting, Refusing, Applying, Undecided
  <2>7. Handshake' /\ Decided'
    BY <2>1 DEF PlaneInv, Handshake, Decided
  <2>8. Copying' /\ Waiting' /\ Refusing' /\ Applying' /\ Restoring'
    BY <2>1, <2>6 DEF PlaneInv, Copying, Waiting, Refusing, Applying, Restoring
  <2> QED
    BY <2>5, <2>7, <2>8 DEF PlaneInv
<1>6. CASE CalCommit
  <2>1. /\ commitSeq = appliedSeq /\ commitSeq' = commitSeq + 1 /\ pc2 = "loop"
        /\ batches' = Append(batches, Batch(shadow)) /\ requests' \in 0 .. MaxRequests
        /\ UNCHANGED <<shadow, rest, pc1, pc2, status, ready, readyValid, appliedSeq,
                       verdict, resetActive, toRestore, applying, store>>
    BY <1>1, <1>6 DEF CalCommit, NotBusy
  <2>2. Batch(shadow) \in Batches
    <3>1. shadow.count \in 0 .. BatchMax /\ shadow.writes \in [1 .. BatchMax -> Entry]
      BY DEF PlaneInv, PlaneTypes
    <3>2. [k \in 1 .. shadow.count |-> shadow.writes[k]] \in [1 .. shadow.count -> Entry]
      BY <3>1, PlaneAssumption
    <3> QED
      BY <3>1, <3>2 DEF Batch, Batches
  <2>3. batches \in Seq(Batches) /\ Len(batches) = commitSeq /\ commitSeq \in Nat
        /\ appliedSeq \in Nat
    BY DEF PlaneInv, PlaneTypes, Handshake
  <2>4. PlaneTypes'
    BY <2>1, <2>2, <2>3 DEF PlaneInv, PlaneTypes
  <2>5. Handshake'
    BY <2>1, <2>2, <2>3 DEF Handshake, Batch
  <2>6. ~readyValid /\ pc1 \notin {"copy", "refuse"} /\ ~applying
    BY <2>1, <2>3 DEF PlaneInv, PlaneTypes, Copying, Waiting, Refusing, Applying,
                      Undecided
  <2>7. Copying' /\ Waiting' /\ Refusing' /\ Applying' /\ Restoring'
    BY <2>1, <2>6 DEF PlaneInv, Copying, Waiting, Refusing, Applying, Restoring
  <2>8. Decided'
    BY <2>1, <2>3 DEF Decided
  <2> QED
    BY <2>4, <2>5, <2>7, <2>8 DEF PlaneInv
<1>7. CASE StatusSeq \/ StatusResult
  <2>1. /\ status' \in {0, appliedSeq} /\ pc2' \in {"status", "loop"}
        /\ UNCHANGED <<shadow, commitSeq, batches, rest, ready, readyValid, pc1,
                       appliedSeq, verdict, resetActive, toRestore, applying, store,
                       requests>>
    BY <1>7 DEF StatusSeq, StatusResult
  <2>2. PlaneTypes'
    BY <2>1 DEF PlaneInv, PlaneTypes
  <2>3. Handshake' /\ Decided'
    BY <2>1 DEF PlaneInv, PlaneTypes, Handshake, Decided, Batch
  <2>4. Copying' /\ Waiting' /\ Refusing' /\ Applying' /\ Restoring'
    BY <2>1 DEF PlaneInv, Copying, Waiting, Refusing, Applying, Restoring, Undecided,
                Batch
  <2> QED
    BY <2>2, <2>3, <2>4 DEF PlaneInv
<1> QED
  BY <1>3, <1>4, <1>5, <1>6, <1>7 DEF Cpu2

(* The steps of the pass of CPU1 keep the invariant.                       *)
LEMMA BackgroundStep == PlaneInv /\ Background => PlaneInv'
<1> SUFFICES ASSUME PlaneInv, Background PROVE PlaneInv'
  OBVIOUS
<1> USE DEF cpu2Vars, cpu1Vars, paramVars, answerVars, resetVars, isrVars,
            shadowVars, readVars, Goto
<1>1. PlaneTypes
  BY DEF PlaneInv
<1>2. pc1 # "restore" <=> ~resetActive
  BY DEF PlaneInv, Restoring
<1>3. CASE CatalogLook \/ CatalogCopy \/ CatalogCheck \/ CatalogAck
           \/ ReadLook \/ ReadCopy \/ ReadCheck \/ ReadValue \/ ReadAck \/ NoStart
  <2>1. /\ UNCHANGED coreVars /\ UNCHANGED <<requests, pc2>>
        /\ pc1 # "restore" /\ pc1' \notin {"copy", "refuse", "restore"}
    BY <1>3 DEF CatalogLook, CatalogCopy, CatalogCheck, CatalogAck, ReadLook,
                ReadCopy, ReadCheck, ReadValue, ReadAck, NoStart, coreVars
  <2> QED
    BY <2>1, <1>1, <1>2, OtherStep DEF PlaneTypes
<1>4. CASE ParamLook
  <2> DEFINE new == ~readyValid /\ commitSeq \notin {shadowSeen, appliedSeq}
  <2>1. CASE ~new
    <3>1. /\ UNCHANGED coreVars /\ UNCHANGED <<requests, pc2>>
          /\ pc1 # "restore" /\ pc1' = "read"
      BY <1>4, <2>1 DEF ParamLook, coreVars
    <3> QED
      BY <3>1, <1>1, <1>2, OtherStep DEF PlaneTypes
  <2>2. CASE new
    <3>1. /\ pc1 = "param" /\ pc1' = "copy" /\ ~readyValid /\ commitSeq # appliedSeq
          /\ ready' = [ready EXCEPT !.seq = commitSeq, !.count = shadow.count,
                                    !.copied = 0]
          /\ UNCHANGED <<shadow, commitSeq, batches, rest, status, requests, pc2,
                         readyValid, appliedSeq, verdict, resetActive, toRestore,
                         applying, store>>
      BY <1>4, <2>2 DEF ParamLook
    <3>2. ready' = [seq |-> commitSeq, count |-> shadow.count, copied |-> 0,
                    writes |-> ready.writes]
      BY <3>1, <1>1 DEF PlaneTypes, ReadyTyped
    <3>3. PlaneTypes'
      <4>1. shadow.count \in Nat
        BY <1>1, PlaneAssumption DEF PlaneTypes
      <4>2. ReadyTyped(ready')
        BY <3>2, <4>1, <1>1 DEF ReadyTyped, PlaneTypes
      <4> QED
        BY <3>1, <4>2, <1>1 DEF PlaneTypes
    <3>4. Handshake' /\ Decided'
      BY <3>1 DEF PlaneInv, Handshake, Decided, Batch
    <3>5. commitSeq = appliedSeq + 1 /\ shadow.count \in Nat
      BY <3>1, <1>1 DEF PlaneInv, Handshake, PlaneTypes
    <3>6. Copying'
      BY <3>1, <3>2, <3>5 DEF Copying, Undecided
    <3>7. Waiting' /\ Refusing'
      BY <3>1 DEF Waiting, Refusing
    <3>8. Applying' /\ Restoring'
      BY <3>1, <1>2 DEF PlaneInv, Applying, Restoring
    <3> QED
      BY <3>3, <3>4, <3>6, <3>7, <3>8 DEF PlaneInv
  <2> QED
    BY <2>1, <2>2
<1>5. CASE CopyEntry
  <2>1. /\ pc1 = "copy" /\ pc1' = "copy" /\ ready.copied < ready.count
        /\ ready' = [ready EXCEPT !.copied = @ + 1,
                        !.writes[ready.copied + 1] = shadow.writes[ready.copied + 1]]
        /\ UNCHANGED <<shadow, commitSeq, batches, rest, status, requests, pc2,
                       readyValid, appliedSeq, verdict, resetActive, toRestore,
                       applying, store>>
    BY <1>5 DEF CopyEntry
  <2>2. /\ Undecided /\ ~readyValid /\ ready.count = shadow.count
        /\ \A k \in 1 .. ready.copied : ready.writes[k] = shadow.writes[k]
    BY <2>1 DEF PlaneInv, Copying
  <2> DEFINE next == ready.copied + 1
  <2>3. shadow.count \in 0 .. BatchMax /\ shadow.writes \in [1 .. BatchMax -> Entry]
        /\ next \in 1 .. BatchMax /\ ready.copied \in Nat /\ BatchMax \in Nat
    BY <2>1, <2>2, <1>1, PlaneAssumption DEF PlaneTypes, ReadyTyped
  <2>4. ready' = [seq |-> ready.seq, count |-> ready.count, copied |-> next,
                  writes |-> [ready.writes EXCEPT ![next] = shadow.writes[next]]]
    BY <2>1, <1>1 DEF PlaneTypes, ReadyTyped
  <2>5. [ready.writes EXCEPT ![next] = shadow.writes[next]] \in [1 .. BatchMax -> Entry]
    BY <2>3, <1>1 DEF PlaneTypes, ReadyTyped
  <2>6. PlaneTypes'
    <3>1. ReadyTyped(ready')
      BY <2>3, <2>4, <2>5, <1>1 DEF ReadyTyped, PlaneTypes
    <3> QED
      BY <2>1, <3>1, <1>1 DEF PlaneTypes
  <2>7. Handshake' /\ Decided'
    BY <2>1 DEF PlaneInv, Handshake, Decided, Batch
  <2>8. \A k \in 1 .. ready'.copied : ready'.writes[k] = shadow'.writes[k]
    <3>1. ready.writes \in [1 .. BatchMax -> Entry]
      BY <1>1 DEF PlaneTypes, ReadyTyped
    <3> QED
      BY <3>1, <2>1, <2>2, <2>3, <2>4
  <2>9. Copying'
    <3>1. ready'.copied <= ready'.count /\ ready'.seq = ready.seq
          /\ ready'.count = ready.count
      BY <2>1, <2>3, <2>4, <1>1 DEF PlaneTypes, ReadyTyped
    <3> QED
      BY <3>1, <2>1, <2>2, <2>8 DEF Copying, Undecided
  <2>10. Waiting' /\ Refusing'
    BY <2>1, <2>2 DEF Waiting, Refusing
  <2>11. Applying' /\ Restoring'
    BY <2>1, <1>2 DEF PlaneInv, Applying, Restoring
  <2> QED
    BY <2>6, <2>7, <2>9, <2>10, <2>11 DEF PlaneInv
<1>6. CASE Prepare
  <2>1. /\ pc1 = "copy" /\ ready.copied = ready.count
        /\ ready' = [ready EXCEPT !.copied = 0]
        /\ UNCHANGED <<shadow, commitSeq, batches, rest, status, requests, pc2,
                       appliedSeq, resetActive, toRestore, applying, store>>
    BY <1>6 DEF Prepare
  <2>2. /\ Undecided /\ ~readyValid /\ ready.count = shadow.count
        /\ \A k \in 1 .. ready.copied : ready.writes[k] = shadow.writes[k]
    BY <2>1 DEF PlaneInv, Copying
  <2>3. Batch(ready) = batches[commitSeq]
    <3>1. commitSeq # appliedSeq
      BY <2>2, <1>1 DEF Undecided, PlaneTypes
    <3>2. Batch(shadow) = batches[commitSeq]
      BY <3>1 DEF PlaneInv, Handshake
    <3>3. Batch(ready) = Batch(shadow)
      BY <2>1, <2>2 DEF Batch
    <3> QED
      BY <3>2, <3>3
  <2>4. \/ /\ Verdict(batches[commitSeq]) = Accepted /\ pc1' = "read"
           /\ readyValid' = TRUE /\ verdict' = verdict
        \/ /\ Verdict(batches[commitSeq]) # Accepted /\ pc1' = "refuse"
           /\ readyValid' = readyValid /\ verdict' = Verdict(batches[commitSeq])
    BY <2>2, <2>3, <1>6 DEF Prepare, Undecided
  <2>5. ready' = [seq |-> ready.seq, count |-> ready.count, copied |-> 0,
                  writes |-> ready.writes]
    BY <2>1, <1>1 DEF PlaneTypes, ReadyTyped
  <2>6. PlaneTypes'
    <3>1. ReadyTyped(ready')
      BY <2>5, <1>1 DEF ReadyTyped, PlaneTypes
    <3> QED
      BY <2>1, <2>4, <3>1, <1>1 DEF PlaneTypes
  <2>7. commitSeq # appliedSeq /\ ~applying
    BY <2>2, <1>1 DEF Undecided, PlaneTypes, PlaneInv, Applying
  <2>8. Handshake' /\ Decided'
    BY <2>1, <2>7 DEF PlaneInv, Handshake, Decided, Batch
  <2>9. Undecided' /\ Batch(ready)' = batches'[commitSeq']
    BY <2>1, <2>2, <2>3, <2>5 DEF Undecided, Batch
  <2>10. Copying' /\ Waiting' /\ Refusing'
    BY <2>1, <2>2, <2>4, <2>9 DEF Copying, Waiting, Refusing
  <2>11. Applying' /\ Restoring'
    BY <2>1, <2>4, <2>7, <1>2 DEF Applying, Restoring
  <2> QED
    BY <2>6, <2>8, <2>10, <2>11 DEF PlaneInv
<1>7. CASE Refuse
  <2>1. /\ pc1 = "refuse" /\ pc1' = "read" /\ appliedSeq' = ready.seq
        /\ UNCHANGED <<shadow, commitSeq, batches, rest, status, requests, pc2,
                       ready, readyValid, verdict, resetActive, toRestore, applying,
                       store>>
    BY <1>7 DEF Refuse
  <2>2. /\ Undecided /\ ~readyValid /\ verdict = Verdict(batches[commitSeq])
    BY <2>1 DEF PlaneInv, Refusing
  <2>3. appliedSeq' = commitSeq /\ appliedSeq <= appliedSeq'
    BY <2>1, <2>2, <1>1 DEF Undecided, PlaneTypes
  <2>4. PlaneTypes'
    BY <2>1, <2>3, <1>1 DEF PlaneTypes
  <2>5. Handshake'
    BY <2>1, <2>3 DEF PlaneInv, Handshake
  <2>6. Decided'
    BY <2>1, <2>2, <2>3, <1>1 DEF PlaneInv, PlaneTypes, Decided
  <2>7. Copying' /\ Waiting' /\ Refusing'
    BY <2>1, <2>2 DEF Copying, Waiting, Refusing
  <2>8. Applying' /\ Restoring'
    BY <2>1, <2>2, <1>2 DEF PlaneInv, Applying, Restoring
  <2> QED
    BY <2>4, <2>5, <2>6, <2>7, <2>8 DEF PlaneInv
<1>8. CASE PrepareStart \/ RestoreWord \/ RestoreDone
  <2>1. /\ pc1' \notin {"copy", "refuse"} /\ ~applying
        /\ UNCHANGED <<shadow, commitSeq, batches, rest, status, requests, pc2,
                       ready, readyValid, appliedSeq, verdict, applying>>
    BY <1>8 DEF PrepareStart, RestoreWord, RestoreDone
  <2>2. resetActive' \in BOOLEAN /\ store' = [x \in Writable |-> store'[x]]
    <3>1. CASE RestoreWord
      BY <3>1, <1>1 DEF RestoreWord, PlaneTypes
    <3>2. CASE PrepareStart \/ RestoreDone
      BY <3>2, <1>1 DEF PrepareStart, RestoreDone, PlaneTypes
    <3> QED
      BY <3>1, <3>2, <1>8
  <2>3. PlaneTypes'
    BY <2>1, <2>2, <1>1 DEF PlaneTypes
  <2>4. Handshake' /\ Decided'
    BY <2>1 DEF PlaneInv, Handshake, Decided, Batch
  <2>5. Copying' /\ Waiting' /\ Refusing'
    BY <2>1 DEF PlaneInv, Copying, Waiting, Refusing, Undecided, Batch
  <2>6. Applying'
    BY <2>1 DEF Applying
  <2>7. Restoring'
    <3>1. CASE PrepareStart
      BY <3>1, <2>1 DEF PrepareStart, Restoring
    <3>2. CASE RestoreWord
      <4>1. PICK w \in toRestore : toRestore' = toRestore \ {w}
                                   /\ store' = [store EXCEPT ![w] = 0]
        BY <3>2 DEF RestoreWord
      <4>2. \A x \in Writable : store'[x] = IF x = w THEN 0 ELSE store[x]
        BY <4>1, <1>1 DEF PlaneTypes
      <4> QED
        BY <3>2, <4>1, <4>2, <2>1 DEF RestoreWord, PlaneInv, Restoring
    <3>3. CASE RestoreDone
      BY <3>3 DEF RestoreDone, Restoring
    <3> QED
      BY <3>1, <3>2, <3>3, <1>8
  <2> QED
    BY <2>3, <2>4, <2>5, <2>6, <2>7 DEF PlaneInv
<1> QED
  BY <1>3, <1>4, <1>5, <1>6, <1>7, <1>8 DEF Background

(* The control interrupt keeps the invariant.                              *)
LEMMA IsrStep == PlaneInv /\ ControlIsr => PlaneInv'
<1> SUFFICES ASSUME PlaneInv, ControlIsr PROVE PlaneInv'
  OBVIOUS
<1> USE DEF cpu2Vars, paramVars, answerVars, resetVars, isrVars, shadowVars, readVars
<1>1. PlaneTypes
  BY DEF PlaneInv
<1>2. CASE ControlTick /\ ~MayApply
  <2>1. /\ UNCHANGED coreVars /\ UNCHANGED <<requests, pc1, pc2>>
    BY <1>2 DEF ControlTick, coreVars
  <2> QED
    BY <2>1, <1>1, OtherStep DEF PlaneTypes, PlaneInv, Restoring
<1>3. CASE ControlTick /\ MayApply
  <2>1. /\ readyValid /\ ~resetActive /\ applying' = TRUE /\ verdict' = Accepted
        /\ store' = P!Written(store, Batch(ready))
        /\ UNCHANGED <<shadow, commitSeq, batches, rest, status, requests, pc1, pc2,
                       ready, readyValid, appliedSeq, resetActive, toRestore>>
    BY <1>3 DEF ControlTick, MayApply
  <2>2. PlaneTypes'
    <3>1. store' = [x \in Writable |-> store'[x]]
      BY <2>1 DEF P!Written
    <3> QED
      BY <2>1, <3>1, <1>1 DEF PlaneTypes
  <2>3. Undecided /\ commitSeq # appliedSeq /\ pc1 \notin {"copy", "refuse"}
    BY <2>1, <1>1 DEF PlaneInv, PlaneTypes, Waiting, Undecided
  <2>4. Handshake' /\ Decided'
    BY <2>1, <2>3 DEF PlaneInv, Handshake, Decided, Batch
  <2>5. Copying' /\ Waiting' /\ Refusing'
    BY <2>1, <2>3 DEF PlaneInv, Copying, Waiting, Refusing, Undecided, Batch
  <2>6. Applying' /\ Restoring'
    BY <2>1 DEF PlaneInv, Applying, Restoring
  <2> QED
    BY <2>2, <2>4, <2>5, <2>6 DEF PlaneInv
<1>4. CASE ApplyAck
  <2>1. /\ applying /\ applying' = FALSE /\ appliedSeq' = ready.seq
        /\ readyValid' = FALSE
        /\ UNCHANGED <<shadow, commitSeq, batches, rest, status, requests, pc1, pc2,
                       ready, verdict, resetActive, toRestore, store>>
    BY <1>4 DEF ApplyAck
  <2>2. /\ Undecided /\ pc1 \notin {"copy", "refuse"} /\ ~resetActive
        /\ verdict = Verdict(batches[commitSeq])
    BY <2>1 DEF PlaneInv, Applying, Waiting
  <2>3. appliedSeq' = commitSeq /\ appliedSeq <= appliedSeq'
    BY <2>1, <2>2, <1>1 DEF Undecided, PlaneTypes
  <2>4. PlaneTypes'
    BY <2>1, <2>3, <1>1 DEF PlaneTypes
  <2>5. Handshake'
    BY <2>1, <2>3 DEF PlaneInv, Handshake
  <2>6. Decided'
    BY <2>1, <2>2, <2>3, <1>1 DEF PlaneInv, PlaneTypes, Decided
  <2>7. Copying' /\ Waiting' /\ Refusing' /\ Applying'
    BY <2>1, <2>2 DEF Copying, Waiting, Refusing, Applying
  <2>8. Restoring'
    BY <2>1, <2>2 DEF PlaneInv, Restoring
  <2> QED
    BY <2>4, <2>5, <2>6, <2>7, <2>8 DEF PlaneInv
<1> QED
  BY <1>2, <1>3, <1>4 DEF ControlIsr

(* Every step of the plane keeps the invariant.                            *)
LEMMA PlaneStep == PlaneInv /\ [Next]_vars => PlaneInv'
<1> SUFFICES ASSUME PlaneInv, [Next]_vars PROVE PlaneInv'
  OBVIOUS
<1>1. CASE UNCHANGED vars
  <2>1. UNCHANGED coreVars /\ UNCHANGED <<requests, pc1, pc2>>
    BY <1>1 DEF vars, cpu2Vars, cpu1Vars, paramVars, answerVars, resetVars, isrVars,
                shadowVars, readVars, coreVars
  <2> QED
    BY <2>1, OtherStep DEF PlaneInv, PlaneTypes, Restoring
<1> QED
  BY <1>1, Cpu2Step, BackgroundStep, IsrStep DEF Next

-----------------------------------------------------------------------------
(* The theorems.                                                           *)

(* The invariant of the handshake of v2k_param.h holds for every host,     *)
(* batch size and set of variables.                                        *)
THEOREM PlaneInvariant == Spec => []PlaneInv
<1> QED
  BY PlaneInit, PlaneStep, PTL DEF Spec

(* What v2k_param_apply_ready writes is entry for entry the batch that was *)
(* published under the next number, all of it legal.                       *)
THEOREM PreparedIsPublishedHolds == Spec => []PreparedIsPublished
<1>1. PlaneInv => PreparedIsPublished
  BY DEF PlaneInv, PlaneTypes, Handshake, Waiting, Undecided, PreparedIsPublished
<1> QED
  BY <1>1, PlaneInvariant, PTL

(* A STATUS of v2k_protocol.c that names the newest commit carries that    *)
(* commit's own result.                                                    *)
THEOREM StatusNamesItsBatchHolds == Spec => StatusNamesItsBatch
<1> DEFINE Named == StatusResult /\ status = commitSeq /\ commitSeq > 0
                      => verdict = Verdict(batches[commitSeq])
<1>1. PlaneInv => Named
  <2> SUFFICES ASSUME PlaneInv, StatusResult, status = commitSeq, commitSeq > 0
               PROVE  verdict = Verdict(batches[commitSeq])
    OBVIOUS
  <2>1. pc2 = "status"
    BY DEF StatusResult
  <2>2. commitSeq = appliedSeq
    BY <2>1 DEF PlaneInv, PlaneTypes, Handshake, Decided
  <2> QED
    BY <2>2 DEF PlaneInv, Decided
<1>2. PlaneInv /\ [Next]_vars => [Named]_vars
  BY <1>1
<1> QED
  BY <1>2, PlaneInvariant, PTL DEF Spec, StatusNamesItsBatch

(* The plane starts as ParamStore does.                                    *)
LEMMA ImplementsInit == Init => P!Init
BY DEF Init, P!Init

abstract == <<batches, IF applying THEN appliedSeq + 1 ELSE appliedSeq,
              IF resetActive THEN Default ELSE store, resetActive>>

(* v2k_validate_write accepts exactly the batches ParamStore calls legal.  *)
LEMMA VerdictIsLegal == \A b : Verdict(b) = Accepted <=> P!Legal(b)
BY DEF Verdict, Accepted, P!Legal

(* Every step of the plane is a step of ParamStore or none.                *)
LEMMA ImplementsStep == PlaneInv /\ [Next]_vars => [P!Next]_abstract
<1> SUFFICES ASSUME PlaneInv, [Next]_vars PROVE P!Next \/ abstract' = abstract
  OBVIOUS
<1> USE DEF cpu2Vars, cpu1Vars, paramVars, answerVars, resetVars, isrVars,
            shadowVars, readVars, Goto
<1>1. CASE UNCHANGED <<batches, applying, appliedSeq, resetActive, store>>
  BY <1>1 DEF abstract
<1>2. CASE CalCommit
  <2>1. commitSeq = appliedSeq /\ batches' = Append(batches, Batch(shadow))
        /\ UNCHANGED <<applying, appliedSeq, resetActive, store>>
    BY <1>2 DEF CalCommit, NotBusy
  <2>2. ~applying /\ appliedSeq = Len(batches)
    BY <2>1 DEF PlaneInv, PlaneTypes, Handshake, Applying, Waiting, Undecided
  <2>3. Batch(shadow) \in Batches
    <3>1. shadow.count \in 0 .. BatchMax /\ shadow.writes \in [1 .. BatchMax -> Entry]
      BY DEF PlaneInv, PlaneTypes
    <3>2. [k \in 1 .. shadow.count |-> shadow.writes[k]] \in [1 .. shadow.count -> Entry]
      BY <3>1, PlaneAssumption
    <3> QED
      BY <3>1, <3>2 DEF Batch, Batches
  <2>4. Len(batches') = Len(batches) + 1
        /\ \A s \in 1 .. Len(batches) : batches'[s] = batches[s]
    BY <2>1, <2>3 DEF PlaneInv, PlaneTypes
  <2>5. P!Publish
    BY <2>1, <2>2, <2>4 DEF P!Publish
  <2> QED
    BY <2>5 DEF P!Next
<1>3. CASE ControlTick /\ MayApply
  <2>1. /\ readyValid /\ ~resetActive /\ ~applying /\ applying' = TRUE
        /\ store' = P!Written(store, Batch(ready))
        /\ UNCHANGED <<batches, appliedSeq, resetActive>>
    BY <1>3 DEF ControlTick, MayApply
  <2>2. /\ appliedSeq + 1 = commitSeq /\ commitSeq = Len(batches)
        /\ appliedSeq \in Nat /\ Batch(ready) = batches[appliedSeq + 1]
        /\ Verdict(batches[appliedSeq + 1]) = Accepted
    BY <2>1 DEF PlaneInv, PlaneTypes, Handshake, Waiting, Undecided
  <2>3. P!Legal(batches[appliedSeq + 1])
    BY <2>2, VerdictIsLegal
  <2>4. P!Apply
    BY <2>1, <2>2, <2>3 DEF P!Apply
  <2> QED
    BY <2>4 DEF P!Next
<1>4. CASE ApplyAck
  <2>1. applying /\ ~applying' /\ appliedSeq' = ready.seq
        /\ UNCHANGED <<batches, resetActive, store>>
    BY <1>4 DEF ApplyAck
  <2>2. ready.seq = appliedSeq + 1
    BY <2>1 DEF PlaneInv, Applying, Waiting, Undecided
  <2> QED
    BY <2>1, <2>2 DEF abstract
<1>5. CASE Refuse
  <2>1. ~applying /\ appliedSeq' = ready.seq /\ pc1 = "refuse"
        /\ UNCHANGED <<batches, resetActive, store, applying>>
    BY <1>5 DEF Refuse
  <2>2. /\ ready.seq = appliedSeq + 1 /\ appliedSeq + 1 = Len(batches)
        /\ appliedSeq \in Nat /\ Verdict(batches[appliedSeq + 1]) # Accepted
    BY <2>1 DEF PlaneInv, PlaneTypes, Handshake, Refusing, Undecided
  <2>3. ~P!Legal(batches[appliedSeq + 1])
    BY <2>2, VerdictIsLegal
  <2>4. P!Refuse
    BY <2>1, <2>2, <2>3 DEF P!Refuse
  <2> QED
    BY <2>4 DEF P!Next
<1>6. CASE PrepareStart
  <2>1. ~applying /\ pc1 = "fault" /\ resetActive' = TRUE
        /\ UNCHANGED <<batches, applying, appliedSeq>>
    BY <1>6 DEF PrepareStart
  <2>2. ~resetActive
    BY <2>1 DEF PlaneInv, Restoring
  <2>3. P!BeginRestore
    BY <2>1, <2>2 DEF P!BeginRestore
  <2> QED
    BY <2>3 DEF P!Next
<1>7. CASE RestoreWord
  <2>1. pc1 = "restore" /\ ~applying
        /\ UNCHANGED <<batches, applying, appliedSeq, resetActive>>
    BY <1>7 DEF RestoreWord
  <2>2. resetActive
    BY <2>1 DEF PlaneInv, Restoring
  <2> QED
    BY <2>1, <2>2 DEF abstract
<1>8. CASE RestoreDone
  <2>1. /\ toRestore = {} /\ resetActive' = FALSE /\ pc1 = "restore"
        /\ UNCHANGED <<batches, applying, appliedSeq, store>>
    BY <1>8 DEF RestoreDone
  <2>2. resetActive = TRUE /\ store = Default
    BY <2>1 DEF PlaneInv, PlaneTypes, Restoring, Default
  <2>3. P!EndRestore
    BY <2>1, <2>2 DEF P!EndRestore
  <2> QED
    BY <2>3 DEF P!Next
<1>9. CASE ControlTick /\ ~MayApply
  BY <1>9 DEF ControlTick, abstract
<1>10. CASE Cpu2 /\ ~CalCommit
  <2>1. UNCHANGED <<applying, appliedSeq, resetActive, store>> /\ UNCHANGED batches
    BY <1>10 DEF Cpu2, cpu1Vars, CalWrite, StageOverflow, StageEntry, StageDone,
                 CalRead, ReadPublish, ReadEnds, Enum, EnumPublish, EnumEnds,
                 StatusSeq, StatusResult
  <2> QED
    BY <2>1, <1>1
<1>11. CASE \/ CatalogLook \/ CatalogCopy \/ CatalogCheck \/ CatalogAck
            \/ ParamLook \/ CopyEntry \/ Prepare
            \/ ReadLook \/ ReadCopy \/ ReadCheck \/ ReadValue \/ ReadAck \/ NoStart
  <2>1. UNCHANGED <<batches, applying, appliedSeq, resetActive, store>>
    BY <1>11 DEF CatalogLook, CatalogCopy, CatalogCheck, CatalogAck, ParamLook,
                 CopyEntry, Prepare, ReadLook, ReadCopy, ReadCheck, ReadValue,
                 ReadAck, NoStart
  <2> QED
    BY <2>1, <1>1
<1>12. CASE UNCHANGED vars
  <2>1. UNCHANGED <<batches, applying, appliedSeq, resetActive, store>>
    BY <1>12 DEF vars, cpu1Vars
  <2> QED
    BY <2>1, <1>1
<1> QED
  BY <1>2, <1>3, <1>4, <1>5, <1>6, <1>7, <1>8, <1>9, <1>10, <1>11, <1>12
     DEF Next, Background, ControlIsr

(* The registry and the executor implement ParamStore: batches are decided *)
(* in order, a legal one takes effect as a whole, and never in the middle  *)
(* of a restore.                                                           *)
THEOREM ImplementsParamStoreHolds == Spec => ImplementsParamStore
<1> QED
  BY ImplementsInit, ImplementsStep, PlaneInvariant, PTL
     DEF Spec, ImplementsParamStore, P!Spec, abstract
-----------------------------------------------------------------------------
(* The types, the batch that CAL_WRITE builds, and that an answer CPU2 finds *)
(* under its own number answers its own request.                             *)

\* The types PlaneInv does not give, by the thread that writes them.
Cpu2Types ==
  /\ stagedSeq \in Nat \cup {-1} /\ pc2 \in Pcs2
  /\ readReq \in [seq : Nat, refs : Seq(Addrs)] /\ readMin \in Nat
  /\ enumReq \in [seq : Nat, page : 0 .. MaxRequests] /\ enumReq.page <= requests
  /\ received \subseteq Entry /\ accepted \subseteq Addrs

AnswerTypes ==
  /\ readResp \in [ack : Nat, ok : BOOLEAN, vals : Seq([addr : Addrs, seen : Nat])]
  /\ enumResp \in [ack : Nat, page : 0 .. MaxRequests] /\ enumSeen \in Nat
  /\ snap \in [seq : Nat, refs : Seq(Addrs), page : 0 .. MaxRequests]
  /\ pc1 \in Pcs1

ParamTypes ==
  /\ ready \in [seq : Nat, count : 0 .. BatchMax, copied : 0 .. BatchMax,
                writes : [1 .. BatchMax -> Entry]]
  /\ shadowSeen \in Nat /\ verdict \in Verdicts
  /\ toRestore \subseteq Writable /\ starts \in Nat
  /\ slot \in 0 .. ParamDiv - 1 /\ store \in [Writable -> 0 .. MaxRequests]

(* The named parts are the whole type invariant.                           *)
LEMMA TypesTogether == PlaneInv /\ Cpu2Types /\ AnswerTypes /\ ParamTypes => TypeOK
BY DEF TypeOK, PlaneInv, PlaneTypes, Batches, Cpu2Types, AnswerTypes, ParamTypes

(* The handlers of v2k_protocol.c keep the types of CPU2's words.          *)
LEMMA Cpu2TypesStep ==
  ASSUME PlaneInv, Cpu2Types, [Next]_vars
  PROVE  Cpu2Types'
<1> USE DEF Cpu2Types, Pcs2, cpu2Vars, cpu1Vars, shadowVars, readVars
<1>1. commitSeq \in Nat /\ appliedSeq \in Nat /\ rest \in Seq(Entry)
      /\ requests \in 0 .. MaxRequests
  BY DEF PlaneInv, PlaneTypes
<1>2. CASE CalWrite \/ CalCommit
  <2>1. /\ requests' = requests + 1 /\ stagedSeq' \in {stagedSeq, commitSeq}
        /\ pc2' \in Pcs2 /\ UNCHANGED <<readVars, enumReq>>
        /\ received' \in {received, {}} /\ accepted' \in {accepted, {}}
    BY <1>2 DEF CalWrite, CalCommit, FreshStage, Request
  <2> QED
    BY <2>1, <1>1
<1>3. CASE StageOverflow \/ StageDone
  BY <1>3 DEF StageOverflow, StageDone
<1>4. CASE StageEntry
  <2>1. rest[1] \in Entry
    BY <1>1, <1>4 DEF StageEntry
  <2> QED
    BY <2>1, <1>4 DEF StageEntry
<1>5. CASE CalRead
  <2>1. PICK f \in ReadLists : readReq' = [readReq EXCEPT !.refs = f]
    BY <1>5 DEF CalRead
  <2>2. f \in Seq(Addrs)
    BY PlaneAssumption
  <2>3. /\ requests' = requests + 1 /\ pc2' = "readPublish"
        /\ UNCHANGED <<readMin, enumReq, stagedSeq, received, accepted>>
    BY <1>5 DEF CalRead, Request
  <2> QED
    BY <2>1, <2>2, <2>3, <1>1
<1>6. CASE ReadPublish \/ ReadEnds
  BY <1>1, <1>6 DEF ReadPublish, ReadEnds
<1>7. CASE EnumPublish \/ EnumEnds
  BY <1>7 DEF EnumPublish, EnumEnds
<1>8. CASE Enum
  <2>1. enumReq.page + 1 \in 0 .. MaxRequests /\ requests' = requests + 1
    BY <1>1, <1>8, PlaneAssumption DEF Enum, Request
  <2> QED
    BY <2>1, <1>1, <1>8 DEF Enum
<1>9. CASE StatusSeq \/ StatusResult
  BY <1>9 DEF StatusSeq, StatusResult
<1>10. CASE Background \/ ControlIsr
  BY <1>10 DEF Background, ControlIsr, CatalogLook, CatalogCopy, CatalogCheck,
       CatalogAck, ParamLook, CopyEntry, Prepare, Refuse, ReadLook, ReadCopy,
       ReadCheck, ReadValue, ReadAck, NoStart, PrepareStart, RestoreWord,
       RestoreDone, ControlTick, ApplyAck
<1>11. CASE UNCHANGED vars
  BY <1>11 DEF vars
<1> QED
  BY <1>2, <1>3, <1>4, <1>5, <1>6, <1>7, <1>8, <1>9, <1>10, <1>11 DEF Next, Cpu2

(* The catalog and read services of v2k_registry.c keep the types of the   *)
(* answers.                                                                *)
LEMMA AnswerTypesStep ==
  ASSUME PlaneInv, Cpu2Types, AnswerTypes, [Next]_vars
  PROVE  AnswerTypes'
<1> USE DEF AnswerTypes, Pcs1, cpu2Vars, cpu1Vars, answerVars, Goto
<1>1. /\ readReq \in [seq : Nat, refs : Seq(Addrs)] /\ appliedSeq \in Nat
      /\ enumReq \in [seq : Nat, page : 0 .. MaxRequests]
  BY DEF Cpu2Types, PlaneInv, PlaneTypes
<1>2. NoSnap \in [seq : Nat, refs : Seq(Addrs), page : 0 .. MaxRequests]
  <2>1. <<>> \in Seq(Addrs) /\ 0 \in 0 .. MaxRequests
    BY PlaneAssumption, EmptySeq
  <2> QED
    BY <2>1 DEF NoSnap
<1>3. CASE CatalogLook \/ CatalogCopy \/ CatalogCheck \/ CatalogAck
  BY <1>1, <1>2, <1>3 DEF CatalogLook, CatalogCopy, CatalogCheck, CatalogAck
<1>4. CASE ParamLook \/ CopyEntry \/ Prepare \/ Refuse
  BY <1>4 DEF ParamLook, CopyEntry, Prepare, Refuse
<1>5. CASE ReadLook \/ ReadCopy
  BY <1>1, <1>2, <1>5 DEF ReadLook, ReadCopy
<1>6. CASE ReadCheck \/ ReadAck
  <2>1. ReadLegal(snap.refs) \in BOOLEAN /\ <<>> \in Seq([addr : Addrs, seen : Nat])
    BY EmptySeq DEF ReadLegal
  <2>2. CASE ReadCheck
    <3>1. readResp' \in {readResp, [readResp EXCEPT !.ok = ReadLegal(snap.refs),
                                                  !.vals = <<>>]}
          /\ snap' \in {snap, NoSnap} /\ pc1' \in {"values", "fault"}
          /\ UNCHANGED <<enumResp, enumSeen>>
      BY <2>2 DEF ReadCheck
    <3> QED
      BY <3>1, <2>1, <1>2
  <2>3. CASE ReadAck
    BY <1>2, <2>3 DEF ReadAck
  <2> QED
    BY <2>2, <2>3, <1>6
<1>7. CASE ReadValue
  <2> DEFINE a == snap.refs[Len(readResp.vals) + 1]
             v == [addr |-> a, seen |-> appliedSeq]
  <2>1. readResp' = [readResp EXCEPT !.vals = Append(@, v)] /\ pc1' = "values"
        /\ Len(readResp.vals) < Len(snap.refs)
        /\ UNCHANGED <<enumResp, enumSeen, snap>>
    BY <1>7 DEF ReadValue
  <2>2. Len(readResp.vals) + 1 \in 1 .. Len(snap.refs)
    BY <2>1
  <2>3. v \in [addr : Addrs, seen : Nat]
    BY <2>2, <1>1, ElementOfSeq
  <2>4. Append(readResp.vals, v) \in Seq([addr : Addrs, seen : Nat])
    BY <2>3
  <2> HIDE DEF v
  <2> QED
    BY <2>1, <2>4
<1>8. CASE NoStart \/ PrepareStart \/ RestoreWord \/ RestoreDone \/ ControlIsr
  BY <1>8 DEF NoStart, PrepareStart, RestoreWord, RestoreDone, ControlIsr,
              ControlTick, ApplyAck
<1>9. CASE Cpu2
  BY <1>9 DEF Cpu2, CalWrite, StageOverflow, StageEntry, StageDone, CalCommit,
              CalRead, ReadPublish, ReadEnds, Enum, EnumPublish, EnumEnds,
              StatusSeq, StatusResult
<1>10. CASE UNCHANGED vars
  BY <1>10 DEF vars
<1> QED
  BY <1>3, <1>4, <1>5, <1>6, <1>7, <1>8, <1>9, <1>10 DEF Next, Background

(* v2k_validate_write names an entry of the batch when it refuses one.     *)
LEMMA VerdictTyped ==
  ASSUME NEW n \in Nat, NEW b, DOMAIN b = 1 .. n
  PROVE  Verdict(b) \in Verdicts
<1> DEFINE bad == {k \in DOMAIN b : b[k].addr \notin Writable}
<1>1. CASE bad = {}
  BY <1>1 DEF Verdict, Verdicts, Accepted
<1>2. CASE bad # {}
  <2>1. bad \subseteq Nat
    OBVIOUS
  <2>2. \E k \in bad : \A j \in bad : k <= j
    BY <1>2, <2>1, LeastExists
  <2>3. (CHOOSE k \in bad : \A j \in bad : k <= j) \in bad
    BY <2>2
  <2>4. (CHOOSE k \in bad : \A j \in bad : k <= j) - 1 \in Nat
    BY <2>3
  <2> QED
    BY <1>2, <2>4 DEF Verdict, Verdicts
<1> QED
  BY <1>1, <1>2

(* v2k_param_apply_ready writes values of the batch to variables.          *)
LEMMA WrittenTyped ==
  ASSUME NEW n \in 0 .. BatchMax, NEW b \in [1 .. n -> Entry],
         store \in [Writable -> 0 .. MaxRequests]
  PROVE  P!Written(store, b) \in [Writable -> 0 .. MaxRequests]
<1> SUFFICES ASSUME NEW a \in Writable
             PROVE  P!Written(store, b)[a] \in 0 .. MaxRequests
  BY DEF P!Written
<1> DEFINE K == {k \in DOMAIN b : b[k].addr = a}
           v == b[CHOOSE k \in K : \A j \in K : j <= k].val
<1>1. P!Written(store, b)[a] = IF K = {} THEN store[a] ELSE v
  BY DEF P!Written
<1>2. CASE K # {}
  <2>1. n \in Nat /\ K \subseteq 0 .. n
    BY PlaneAssumption
  <2>2. \E k \in K : \A j \in K : j <= k
    <3> HIDE DEF K
    <3> QED
      BY <1>2, <2>1, GreatestExists
  <2>3. (CHOOSE k \in K : \A j \in K : j <= k) \in K
    BY <2>2
  <2>4. v \in 0 .. MaxRequests
    BY <2>3 DEF Entry
  <2> QED
    BY <1>1, <1>2, <2>4
<1> QED
  BY <1>1, <1>2

(* The parameter service, a restore and the control interrupt keep the     *)
(* types of what they write.                                               *)
LEMMA ParamTypesStep ==
  ASSUME PlaneInv, ParamTypes, [Next]_vars
  PROVE  ParamTypes'
<1> USE DEF ParamTypes, cpu2Vars, cpu1Vars, paramVars, resetVars, isrVars
<1>1. /\ shadow \in [count : 0 .. BatchMax, writes : [1 .. BatchMax -> Entry]]
      /\ commitSeq \in Nat /\ BatchMax \in Nat /\ ParamDiv \in Nat \ {0}
  BY PlaneAssumption DEF PlaneInv, PlaneTypes
<1>2. ready.count \in 0 .. BatchMax /\ Batch(ready) \in [1 .. ready.count -> Entry]
  BY <1>1 DEF Batch
<1>3. CASE ParamLook
  <2>1. /\ UNCHANGED <<shadowSeen, verdict, resetVars, isrVars>>
        /\ ready' \in {ready, [ready EXCEPT !.seq = commitSeq, !.count = shadow.count,
                                           !.copied = 0]}
    BY <1>3 DEF ParamLook
  <2>2. shadow.count \in 0 .. BatchMax /\ 0 \in 0 .. BatchMax
    BY <1>1
  <2> QED
    BY <2>1, <2>2, <1>1
<1>4. CASE CopyEntry
  <2>1. ready.copied + 1 \in 1 .. BatchMax
    BY <1>1, <1>4 DEF CopyEntry
  <2>2. shadow.writes[ready.copied + 1] \in Entry
    BY <2>1, <1>1
  <2>3. /\ UNCHANGED <<shadowSeen, verdict, resetVars, isrVars>>
        /\ ready' = [ready EXCEPT !.copied = @ + 1,
                        !.writes[ready.copied + 1] = shadow.writes[ready.copied + 1]]
    BY <1>4 DEF CopyEntry
  <2>4. [ready.writes EXCEPT ![ready.copied + 1] = shadow.writes[ready.copied + 1]]
          \in [1 .. BatchMax -> Entry]
    BY <2>2
  <2>5. ready.copied + 1 \in 0 .. BatchMax
    BY <2>1
  <2> QED
    BY <2>3, <2>4, <2>5
<1>5. CASE Prepare
  <2>1. Verdict(Batch(ready)) \in Verdicts
    BY <1>1, <1>2, VerdictTyped
  <2>2. /\ UNCHANGED <<resetVars, isrVars>> /\ shadowSeen' \in {shadowSeen, commitSeq}
        /\ verdict' \in {verdict, Verdict(Batch(ready))}
        /\ ready' = [ready EXCEPT !.copied = 0]
    BY <1>5 DEF Prepare
  <2>3. 0 \in 0 .. BatchMax
    BY <1>1
  <2> QED
    BY <2>1, <2>2, <2>3, <1>1
<1>6. CASE Refuse
  BY <1>6 DEF Refuse
<1>7. CASE PrepareStart \/ RestoreDone
  BY <1>7 DEF PrepareStart, RestoreDone
<1>8. CASE RestoreWord
  <2>1. 0 \in 0 .. MaxRequests
    BY PlaneAssumption
  <2> QED
    BY <2>1, <1>8 DEF RestoreWord
<1>9. CASE ControlTick
  <2>1. slot' \in 0 .. ParamDiv - 1
    BY <1>1, <1>9 DEF ControlTick, Countdown, CountdownDue
  <2>2. P!Written(store, Batch(ready)) \in [Writable -> 0 .. MaxRequests]
    BY <1>2, WrittenTyped
  <2>3. Accepted \in Verdicts
    BY DEF Accepted, Verdicts
  <2> QED
    BY <2>1, <2>2, <2>3, <1>9 DEF ControlTick
<1>10. CASE ApplyAck
  BY <1>10 DEF ApplyAck
<1>11. CASE \/ CatalogLook \/ CatalogCopy \/ CatalogCheck \/ CatalogAck
            \/ ReadLook \/ ReadCopy \/ ReadCheck \/ ReadValue \/ ReadAck \/ NoStart
  BY <1>11 DEF CatalogLook, CatalogCopy, CatalogCheck, CatalogAck, ReadLook,
               ReadCopy, ReadCheck, ReadValue, ReadAck, NoStart
<1>12. CASE Cpu2
  BY <1>12 DEF Cpu2, CalWrite, StageOverflow, StageEntry, StageDone, CalCommit,
               CalRead, ReadPublish, ReadEnds, Enum, EnumPublish, EnumEnds,
               StatusSeq, StatusResult
<1>13. CASE UNCHANGED vars
  BY <1>13 DEF vars
<1> QED
  BY <1>3, <1>4, <1>5, <1>6, <1>7, <1>8, <1>9, <1>10, <1>11, <1>12, <1>13
     DEF Next, Background, ControlIsr

TypesInv == Cpu2Types /\ AnswerTypes /\ ParamTypes

(* The plane starts well typed.                                            *)
LEMMA TypesInit == Init => TypesInv
<1> SUFFICES ASSUME Init PROVE TypesInv
  OBVIOUS
<1>1. /\ Blank \in Entry /\ 0 \in 0 .. BatchMax /\ 0 \in 0 .. MaxRequests
      /\ 0 \in 0 .. ParamDiv - 1
  BY PlaneAssumption DEF Blank, Entry
<1>2. <<>> \in Seq(Addrs) /\ <<>> \in Seq([addr : Addrs, seen : Nat])
  BY EmptySeq
<1>3. Cpu2Types
  BY <1>1, <1>2 DEF Init, Cpu2Types, Pcs2
<1>4. AnswerTypes
  BY <1>1, <1>2 DEF Init, AnswerTypes, NoSnap, Pcs1
<1>5. ParamTypes
  BY <1>1 DEF Init, ParamTypes, Accepted, Verdicts, Default
<1> QED
  BY <1>3, <1>4, <1>5 DEF TypesInv

(* The types, as an invariant next to that of the handshake.               *)
LEMMA TypesInvariant == Spec => []TypesInv
<1>1. PlaneInv /\ TypesInv /\ [Next]_vars => TypesInv'
  BY Cpu2TypesStep, AnswerTypesStep, ParamTypesStep DEF TypesInv
<1> QED
  BY <1>1, TypesInit, PlaneInvariant, PTL DEF Spec

(* Every variable of the plane keeps the range its C type and its use give *)
(* it: the batch never outgrows V2K_PARAM_BATCH_MAX, the slot count never  *)
(* its period.                                                             *)
THEOREM TypeCorrect == Spec => []TypeOK
<1>1. PlaneInv /\ TypesInv => TypeOK
  BY TypesTogether DEF TypesInv
<1> QED
  BY <1>1, TypesInvariant, PlaneInvariant, PTL
-----------------------------------------------------------------------------
(* The catalog: a page is packed for the number it was asked under.        *)

\* Away from the two writes of an ENUM, the page of the newest number is the one
\* copied, packed and acknowledged under that number.
PageInv ==
  /\ enumResp.ack <= enumReq.seq
  /\ pc1 \in {"page", "pageCheck", "pageAck"} => snap.seq <= enumReq.seq
  /\ pc2 # "enumPublish" =>
       /\ pc1 = "pageCheck" /\ snap.seq = enumReq.seq => snap.page = enumReq.page
       /\ pc1 = "pageAck" /\ snap.seq = enumReq.seq => enumResp.page = enumReq.page
       /\ enumResp.ack = enumReq.seq => enumResp.page = enumReq.page

(* The second look of v2k_catalog_service at the number keeps a page of    *)
(* one request from being acknowledged under the next.                     *)
LEMMA PageStep ==
  ASSUME TypesInv, PageInv, [Next]_vars
  PROVE  PageInv'
<1> USE DEF PageInv, cpu2Vars, cpu1Vars, answerVars, shadowVars, readVars, Goto
<1>1. /\ enumReq \in [seq : Nat, page : 0 .. MaxRequests]
      /\ enumResp \in [ack : Nat, page : 0 .. MaxRequests]
      /\ snap \in [seq : Nat, refs : Seq(Addrs), page : 0 .. MaxRequests]
  BY DEF TypesInv, Cpu2Types, AnswerTypes
<1>2. CASE Enum
  BY <1>1, <1>2 DEF Enum
<1>3. CASE EnumPublish
  BY <1>1, <1>3 DEF EnumPublish
<1>4. CASE CatalogLook
  BY <1>1, <1>4 DEF CatalogLook, NoSnap
<1>5. CASE CatalogCopy
  BY <1>1, <1>5 DEF CatalogCopy
<1>6. CASE CatalogCheck
  BY <1>1, <1>6 DEF CatalogCheck
<1>7. CASE CatalogAck
  BY <1>1, <1>7 DEF CatalogAck
<1>8. CASE \/ CalWrite \/ StageOverflow \/ StageEntry \/ StageDone \/ CalCommit
           \/ CalRead \/ ReadPublish \/ ReadEnds \/ EnumEnds \/ StatusSeq \/ StatusResult
  <2>1. UNCHANGED <<enumReq, enumResp, snap, pc1>> /\ pc2 # "enumPublish"
    BY <1>8 DEF CalWrite, StageOverflow, StageEntry, StageDone, CalCommit, CalRead,
                ReadPublish, ReadEnds, EnumEnds, StatusSeq, StatusResult
  <2> QED
    BY <2>1
<1>9. CASE \/ ParamLook \/ CopyEntry \/ Prepare \/ Refuse
           \/ ReadLook \/ ReadCopy \/ ReadCheck \/ ReadValue \/ ReadAck
           \/ NoStart \/ PrepareStart \/ RestoreWord \/ RestoreDone
  <2>1. /\ UNCHANGED <<enumReq, enumResp, pc2>>
        /\ pc1' \notin {"page", "pageCheck", "pageAck"}
    BY <1>9 DEF ParamLook, CopyEntry, Prepare, Refuse, ReadLook, ReadCopy, ReadCheck,
                ReadValue, ReadAck, NoStart, PrepareStart, RestoreWord, RestoreDone
  <2> QED
    BY <2>1
<1>10. CASE ControlIsr
  BY <1>10 DEF ControlIsr, ControlTick, ApplyAck
<1>11. CASE UNCHANGED vars
  BY <1>11 DEF vars
<1> QED
  BY <1>2, <1>3, <1>4, <1>5, <1>6, <1>7, <1>8, <1>9, <1>10, <1>11
     DEF Next, Cpu2, Background

(* The page CPU2 finds acknowledged under its number is the page it asked  *)
(* for, whichever earlier ENUM it gave up on.                              *)
THEOREM PageAnswersRequestHolds == Spec => []PageAnswersRequest
<1>1. Init => PageInv
  BY DEF Init, PageInv
<1>2. TypesInv /\ PageInv /\ [Next]_vars => PageInv'
  BY PageStep
<1>3. PageInv => PageAnswersRequest
  BY DEF PageInv, PageAnswersRequest
<1> QED
  BY <1>1, <1>2, <1>3, TypesInvariant, PTL DEF Spec

-----------------------------------------------------------------------------
(* Reads: values are read for the list they were asked under.              *)

\* The values of an answer, so far, are those of the list refs.
Answers(refs) ==
  /\ readResp.ok = ReadLegal(refs)
  /\ Len(readResp.vals) <= Len(refs)
  /\ \A k \in 1 .. Len(readResp.vals) : readResp.vals[k].addr = refs[k]

Fresh == \A k \in 1 .. Len(readResp.vals) : readResp.vals[k].seen >= readMin

\* A request being answered is newer than the last acknowledged one.  Away from
\* the two writes of a CAL_READ, the list of the newest number is the one copied
\* and read under that number.
ReadInv ==
  /\ readResp.ack <= readReq.seq /\ readMin <= appliedSeq
  /\ pc1 \in {"refs", "refsCheck", "values"} =>
       readResp.ack < snap.seq /\ snap.seq <= readReq.seq
  /\ pc1 = "values" => /\ Answers(snap.refs)
                       /\ snap.seq = readReq.seq => Fresh
  /\ pc2 # "readPublish" =>
       /\ pc1 \in {"refsCheck", "values"} /\ snap.seq = readReq.seq
            => snap.refs = readReq.refs
       /\ readResp.ack = readReq.seq =>
            /\ Answers(readReq.refs) /\ Fresh
            /\ readResp.ok => Len(readResp.vals) = Len(readReq.refs)

(* Nothing the service or the interrupt does mixes two requests, and a     *)
(* value read is never older than the number it is read under.             *)
LEMMA ReadStep ==
  ASSUME PlaneInv, TypesInv, ReadInv, [Next]_vars
  PROVE  ReadInv'
<1> USE DEF ReadInv, cpu2Vars, cpu1Vars, answerVars, shadowVars, readVars, paramVars,
            Goto
<1>1. /\ readReq \in [seq : Nat, refs : Seq(Addrs)] /\ readMin \in Nat
      /\ readResp \in [ack : Nat, ok : BOOLEAN,
                       vals : Seq([addr : Addrs, seen : Nat])]
      /\ snap \in [seq : Nat, refs : Seq(Addrs), page : 0 .. MaxRequests]
      /\ appliedSeq \in Nat
  BY DEF TypesInv, Cpu2Types, AnswerTypes, PlaneInv, PlaneTypes
<1>2. CASE CalRead
  <2>1. /\ pc2' = "readPublish" /\ readReq'.seq = readReq.seq
        /\ UNCHANGED <<readResp, snap, pc1, appliedSeq, readMin>>
    BY <1>1, <1>2 DEF CalRead
  <2> QED
    BY <2>1 DEF Answers, Fresh
<1>3. CASE ReadPublish
  <2>1. /\ pc2' = "readWait" /\ readReq'.seq = readReq.seq + 1
        /\ readReq'.refs = readReq.refs /\ readMin' = appliedSeq
        /\ UNCHANGED <<readResp, snap, pc1, appliedSeq>>
    BY <1>1, <1>3 DEF ReadPublish
  <2>2. readResp.ack <= readReq.seq
    OBVIOUS
  <2> QED
    BY <2>1, <2>2, <1>1 DEF Answers
<1>4. CASE ReadLook
  <2>1. /\ UNCHANGED <<readResp, readReq, pc2, appliedSeq, readMin>>
        /\ pc1' \in {"refs", "fault"}
        /\ pc1' = "refs" => readReq.seq # readResp.ack /\ snap'.seq = readReq.seq
    BY <1>4 DEF ReadLook, NoSnap
  <2> QED
    BY <2>1, <1>1 DEF Answers, Fresh
<1>5. CASE ReadCopy
  <2>1. /\ UNCHANGED <<readResp, readReq, pc2, appliedSeq, readMin>>
        /\ pc1 = "refs" /\ pc1' = "refsCheck"
        /\ snap'.seq = snap.seq /\ snap'.refs = readReq.refs
    BY <1>1, <1>5 DEF ReadCopy
  <2> QED
    BY <2>1, <1>1 DEF Answers, Fresh
<1>6. CASE ReadCheck
  <2>1. CASE snap.seq = readReq.seq
    <3>1. /\ pc1 = "refsCheck" /\ pc1' = "values"
          /\ readResp'.ack = readResp.ack /\ readResp'.ok = ReadLegal(snap.refs)
          /\ readResp'.vals = <<>>
          /\ UNCHANGED <<readReq, snap, pc2, appliedSeq, readMin>>
      BY <1>1, <1>6, <2>1 DEF ReadCheck
    <3>2. Len(readResp'.vals) = 0 /\ Len(snap.refs) \in Nat
      BY <3>1, <1>1
    <3>3. Answers(snap.refs)' /\ Fresh'
      BY <3>1, <3>2 DEF Answers, Fresh
    <3>4. readResp'.ack < readReq'.seq
      BY <3>1, <1>1
    <3> QED
      BY <3>1, <3>3, <3>4, <1>1
  <2>2. CASE snap.seq # readReq.seq
    <3>1. pc1' = "fault" /\ UNCHANGED <<readResp, readReq, pc2, appliedSeq, readMin>>
      BY <1>6, <2>2 DEF ReadCheck
    <3> QED
      BY <3>1 DEF Answers, Fresh
  <2> QED
    BY <2>1, <2>2
<1>7. CASE ReadValue
  <2> DEFINE n == Len(readResp.vals)
             v == [addr |-> snap.refs[n + 1], seen |-> appliedSeq]
  <2>1. /\ pc1 = "values" /\ pc1' = "values" /\ n < Len(snap.refs)
        /\ readResp'.vals = Append(readResp.vals, v)
        /\ readResp'.ack = readResp.ack /\ readResp'.ok = readResp.ok
        /\ UNCHANGED <<readReq, snap, pc2, appliedSeq, readMin>>
    BY <1>1, <1>7 DEF ReadValue
  <2>2. n \in Nat /\ n + 1 \in 1 .. Len(snap.refs)
    BY <2>1, <1>1
  <2>3. v \in [addr : Addrs, seen : Nat]
    BY <2>2, <1>1, ElementOfSeq
  <2>4. /\ Len(readResp'.vals) = n + 1 /\ readResp'.vals[n + 1] = v
        /\ \A k \in 1 .. n : readResp'.vals[k] = readResp.vals[k]
    BY <2>1, <2>3, <1>1
  <2>5. v.addr = snap.refs[n + 1] /\ v.seen >= readMin
    BY <1>1
  <2> HIDE DEF n, v
  <2>6. \A k \in 1 .. n + 1 : k = n + 1 \/ k \in 1 .. n
    BY <2>2
  <2>7. Answers(snap.refs)'
    <3>1. Answers(snap.refs)
      BY <2>1
    <3> QED
      BY <3>1, <2>1, <2>2, <2>4, <2>5, <2>6 DEF Answers, n
  <2>8. snap.seq = readReq.seq => Fresh'
    <3>1. snap.seq = readReq.seq => Fresh
      BY <2>1
    <3> QED
      BY <3>1, <2>1, <2>4, <2>5, <2>6 DEF Fresh, n
  <2>9. readResp'.ack < readReq'.seq
    BY <2>1, <1>1
  <2> QED
    BY <2>1, <2>7, <2>8, <2>9, <1>1
<1>8. CASE ReadAck
  <2>1. /\ pc1 = "values" /\ pc1' = "fault" /\ readResp'.ack = snap.seq
        /\ readResp'.ok = readResp.ok /\ readResp'.vals = readResp.vals
        /\ readResp.ok => Len(readResp.vals) = Len(snap.refs)
        /\ UNCHANGED <<readReq, pc2, appliedSeq, readMin>>
    BY <1>1, <1>8 DEF ReadAck
  <2> QED
    BY <2>1, <1>1 DEF Answers, Fresh
<1>9. CASE Refuse \/ ApplyAck
  <2>1. appliedSeq <= appliedSeq' /\ appliedSeq' \in Nat
    BY <1>1, <1>9 DEF Refuse, ApplyAck, PlaneInv, PlaneTypes, Refusing, Applying,
                      Waiting, Undecided
  <2>2. UNCHANGED <<readReq, readResp, snap, pc2, readMin>>
        /\ (pc1' = pc1 \/ pc1' \notin {"refs", "refsCheck", "values"})
    BY <1>9 DEF Refuse, ApplyAck
  <2> QED
    BY <2>1, <2>2, <1>1 DEF Answers, Fresh
<1>10. CASE \/ CalWrite \/ StageOverflow \/ StageEntry \/ StageDone \/ CalCommit
            \/ ReadEnds \/ Enum \/ EnumPublish \/ EnumEnds \/ StatusSeq \/ StatusResult
  <2>1. UNCHANGED <<readReq, readResp, snap, pc1, appliedSeq, readMin>>
        /\ pc2 # "readPublish"
    BY <1>10 DEF CalWrite, StageOverflow, StageEntry, StageDone, CalCommit, ReadEnds,
                 Enum, EnumPublish, EnumEnds, StatusSeq, StatusResult
  <2> QED
    BY <2>1 DEF Answers, Fresh
<1>11. CASE \/ CatalogLook \/ CatalogCopy \/ CatalogCheck \/ CatalogAck
            \/ ParamLook \/ CopyEntry \/ Prepare
            \/ NoStart \/ PrepareStart \/ RestoreWord \/ RestoreDone
  <2>1. /\ UNCHANGED <<readReq, readResp, pc2, appliedSeq, readMin>>
        /\ pc1' \notin {"refs", "refsCheck", "values"}
    BY <1>11 DEF CatalogLook, CatalogCopy, CatalogCheck, CatalogAck, ParamLook,
                 CopyEntry, Prepare, NoStart, PrepareStart, RestoreWord, RestoreDone
  <2> QED
    BY <2>1 DEF Answers, Fresh
<1>12. CASE ControlTick
  BY <1>12 DEF ControlTick, Answers, Fresh
<1>13. CASE UNCHANGED vars
  BY <1>13 DEF vars, Answers, Fresh
<1> QED
  BY <1>2, <1>3, <1>4, <1>5, <1>6, <1>7, <1>8, <1>9, <1>10, <1>11, <1>12, <1>13
     DEF Next, Cpu2, Background, ControlIsr

(* What CPU2 finds acknowledged under its number answers its own list, and *)
(* no value is older than what STATUS had confirmed (v2k_handle_cal_read,  *)
(* v2k_param_read_service).                                                *)
THEOREM ReadAnswersRequestHolds == Spec => []ReadAnswersRequest
<1>1. Init => ReadInv
  <2> SUFFICES ASSUME Init PROVE ReadInv
    OBVIOUS
  <2>1. readReq = [seq |-> 0, refs |-> <<>>]
        /\ readResp = [ack |-> 0, ok |-> TRUE, vals |-> <<>>]
    BY DEF Init
  <2>2. ReadLegal(readReq.refs) /\ readResp.ok = TRUE /\ readReq.seq = 0
        /\ readResp.ack = 0 /\ Len(readResp.vals) = 0 /\ Len(readReq.refs) = 0
    BY <2>1 DEF ReadLegal
  <2>3. ReadLegal(readReq.refs) = TRUE
    BY <2>2, Zenon DEF ReadLegal
  <2>4. Answers(readReq.refs) /\ Fresh
    <3>1. readResp.ok = ReadLegal(readReq.refs)
      BY <2>2, <2>3, Zenon
    <3> QED
      BY <2>2, <3>1 DEF Answers, Fresh
  <2>5. readMin = 0 /\ appliedSeq = 0 /\ pc1 = "catalog"
    BY DEF Init
  <2> QED
    BY <2>2, <2>4, <2>5 DEF ReadInv
<1>2. PlaneInv /\ TypesInv /\ ReadInv /\ [Next]_vars => ReadInv'
  BY ReadStep
<1>3. TypesInv /\ ReadInv => ReadAnswersRequest
  <2> SUFFICES ASSUME TypesInv, ReadInv, pc2 = "readWait", readResp.ack = readReq.seq
               PROVE  /\ readResp.ok = ReadLegal(readReq.refs)
                      /\ readResp.ok =>
                           /\ [k \in DOMAIN readResp.vals |-> readResp.vals[k].addr]
                                = readReq.refs
                           /\ \A k \in DOMAIN readResp.vals :
                                readResp.vals[k].seen >= readMin
    BY DEF ReadAnswersRequest
  <2>1. /\ Answers(readReq.refs) /\ Fresh
        /\ readResp.ok => Len(readResp.vals) = Len(readReq.refs)
    BY DEF ReadInv
  <2>2. /\ readReq.refs \in Seq(Addrs)
        /\ readResp.vals \in Seq([addr : Addrs, seen : Nat])
    BY DEF TypesInv, Cpu2Types, AnswerTypes
  <2> DEFINE given == [k \in DOMAIN readResp.vals |-> readResp.vals[k].addr]
  <2>3. ASSUME readResp.ok PROVE given = readReq.refs
    <3>1. Len(readResp.vals) \in Nat /\ DOMAIN readResp.vals = 1 .. Len(readResp.vals)
          /\ Len(readReq.refs) = Len(readResp.vals)
          /\ readReq.refs \in [1 .. Len(readReq.refs) -> Addrs]
      BY <2>1, <2>2, <2>3, LenProperties
    <3> QED
      BY <2>1, <3>1 DEF Answers
  <2>4. DOMAIN readResp.vals = 1 .. Len(readResp.vals)
    BY <2>2
  <2> QED
    BY <2>1, <2>3, <2>4 DEF Answers, Fresh
<1> QED
  BY <1>1, <1>2, <1>3, PlaneInvariant, TypesInvariant, PTL DEF Spec
-----------------------------------------------------------------------------
(* The batch CAL_WRITE builds.                                             *)

Placed(a) == \E k \in 1 .. shadow.count : shadow.writes[k].addr = a
Covered(e) == \E k \in 1 .. shadow.count :
                shadow.writes[k].addr = e.addr /\ shadow.writes[k].val >= e.val

\* StagedBatch entry by entry; no entry is from the future, a CAL_WRITE under way
\* is the newest request, and a commit leaves nothing received.
OnePlaceEach ==
  \A j, k \in 1 .. shadow.count :
    shadow.writes[j].addr = shadow.writes[k].addr => j = k
BatchInv ==
  /\ OnePlaceEach
  /\ \A e \in received : e.val <= requests /\ Covered(e)
  /\ \A a \in accepted : Placed(a)
  /\ stagedSeq = commitSeq => \A k \in 1 .. shadow.count : shadow.writes[k] \in received
  /\ stagedSeq <= commitSeq
  /\ stagedSeq # commitSeq => received = {} /\ accepted = {}
  /\ pc2 = "stage" => /\ stagedSeq = commitSeq
                      /\ \A k \in 1 .. Len(rest) : rest[k].val = requests

(* v2k_find_staged returns the place of an address in the batch, or 0.     *)
LEMMA StagedPlace ==
  ASSUME NEW a, shadow.count \in Nat
  PROVE  \/ Staged(a) = 0 /\ ~Placed(a)
         \/ Staged(a) \in 1 .. shadow.count /\ shadow.writes[Staged(a)].addr = a
<1> DEFINE K == {k \in 1 .. shadow.count : shadow.writes[k].addr = a}
<1>1. CASE K = {}
  BY <1>1 DEF Staged, Placed
<1>2. CASE K # {}
  <2>1. \E k \in K : \A j \in K : k <= j
    <3>1. K \subseteq Nat
      OBVIOUS
    <3> HIDE DEF K
    <3> QED
      BY <1>2, <3>1, LeastExists
  <2>2. (CHOOSE k \in K : \A j \in K : k <= j) \in K
    BY <2>1
  <2> QED
    BY <1>2, <2>2 DEF Staged
<1> QED
  BY <1>1, <1>2

(* Staging one entry: v2k_handle_cal_write overwrites the entry of the     *)
(* same address, or appends.                                               *)
LEMMA StageEntryKeepsBatch ==
  ASSUME PlaneInv, TypesInv, BatchInv, StageEntry
  PROVE  BatchInv'
<1> DEFINE new == rest[1]
           at == Staged(new.addr)
           dst == IF at = 0 THEN shadow.count + 1 ELSE at
           n == IF at = 0 THEN dst ELSE shadow.count
<1>1. /\ shadow.count \in Nat /\ BatchMax \in Nat
      /\ shadow.writes \in [1 .. BatchMax -> Entry] /\ shadow.count <= BatchMax
      /\ rest \in Seq(Entry) /\ rest # <<>> /\ requests \in Nat
  BY PlaneAssumption DEF PlaneInv, PlaneTypes, StageEntry
<1>2. /\ pc2 = "stage" /\ dst <= BatchMax /\ rest' = Tail(rest)
      /\ received' = received \cup {new}
      /\ shadow'.count = n /\ shadow'.writes = [shadow.writes EXCEPT ![dst] = new]
      /\ UNCHANGED <<stagedSeq, commitSeq, requests, pc2, accepted>>
  BY DEF StageEntry
<1>3. new \in Entry /\ new.val = requests
  <2>1. Len(rest) \in Nat /\ 1 \in 1 .. Len(rest)
    BY <1>1, EmptySeq
  <2> QED
    BY <2>1, <1>1, <1>2, ElementOfSeq DEF BatchInv
<1>4. \/ at = 0 /\ ~Placed(new.addr)
      \/ at \in 1 .. shadow.count /\ shadow.writes[at].addr = new.addr
  BY <1>1, StagedPlace
<1>5. stagedSeq = commitSeq
  BY <1>2 DEF BatchInv
<1> HIDE DEF at
<1>6. /\ dst \in 1 .. n /\ n \in Nat /\ n <= BatchMax
      /\ 1 .. shadow.count \subseteq 1 .. n
      /\ \A k \in 1 .. n : k = dst \/ k \in 1 .. shadow.count
      /\ dst \in 1 .. BatchMax
  BY <1>1, <1>2, <1>4
<1>7. \A k \in 1 .. n :
        shadow'.writes[k] = IF k = dst THEN new ELSE shadow.writes[k]
  BY <1>1, <1>2, <1>6
<1>8. \A k \in 1 .. shadow.count : k # dst => shadow.writes[k].addr # new.addr
  BY <1>4, <1>1 DEF BatchInv, OnePlaceEach, Placed
<1> HIDE DEF dst, n, new
<1>9. OnePlaceEach'
  BY <1>2, <1>6, <1>7, <1>8 DEF BatchInv, OnePlaceEach
<1>10. \A e \in received' : e.val <= requests' /\ Covered(e)'
  <2> TAKE e \in received'
  <2>1. CASE e = new
    BY <2>1, <1>1, <1>2, <1>3, <1>6, <1>7 DEF Covered, Entry
  <2>2. CASE e \in received
    <3>1. PICK k \in 1 .. shadow.count : /\ shadow.writes[k].addr = e.addr
                                         /\ shadow.writes[k].val >= e.val
      BY <2>2 DEF BatchInv, Covered
    <3>2. e.val <= requests
      BY <2>2 DEF BatchInv
    <3>3. k \in 1 .. n
      BY <1>6
    <3>4. CASE k # dst
      BY <3>1, <3>2, <3>3, <3>4, <1>2, <1>7 DEF Covered
    <3>5. CASE k = dst
      <4>1. shadow.writes[k].addr = new.addr
        BY <3>5, <1>1, <1>2, <1>4, <1>6 DEF dst
      <4>2. requests >= e.val
        <5>1. e.val \in Int
          BY <2>2 DEF TypesInv, Cpu2Types, Entry
        <5> QED
          BY <3>2, <5>1, <1>1
      <4> QED
        BY <4>1, <4>2, <3>1, <3>2, <3>3, <3>5, <1>2, <1>3, <1>7 DEF Covered
    <3> QED
      BY <3>4, <3>5
  <2> QED
    BY <2>1, <2>2, <1>2
<1>11. \A a \in accepted' : Placed(a)'
  <2> TAKE a \in accepted'
  <2>1. PICK k \in 1 .. shadow.count : shadow.writes[k].addr = a
    BY <1>2 DEF BatchInv, Placed
  <2>2. k \in 1 .. n
    BY <1>6
  <2>3. CASE k = dst
    <3>1. shadow.writes[k].addr = new.addr
      BY <2>3, <1>1, <1>4, <1>6 DEF dst
    <3> QED
      BY <2>1, <2>2, <2>3, <3>1, <1>2, <1>7 DEF Placed
  <2>4. CASE k # dst
    BY <2>1, <2>2, <2>4, <1>2, <1>7 DEF Placed
  <2> QED
    BY <2>3, <2>4
<1>12. \A k \in 1 .. shadow'.count : shadow'.writes[k] \in received'
  BY <1>2, <1>5, <1>6, <1>7 DEF BatchInv
<1>13. \A k \in 1 .. Len(rest') : rest'[k].val = requests'
  <2>1. Len(rest') = Len(rest) - 1 /\ \A k \in 1 .. Len(rest') : rest'[k] = rest[k + 1]
    BY <1>1, <1>2, HeadTailProperties
  <2>2. Len(rest) \in Nat
    BY <1>1
  <2> QED
    BY <2>1, <2>2, <1>2 DEF BatchInv
<1> QED
  BY <1>2, <1>5, <1>9, <1>10, <1>11, <1>12, <1>13 DEF BatchInv

(* Every other step keeps the batch, or empties it after a commit.         *)
LEMMA BatchStep ==
  ASSUME PlaneInv, TypesInv, BatchInv, [Next]_vars
  PROVE  BatchInv'
<1> USE DEF cpu2Vars, cpu1Vars, shadowVars, readVars
<1>1. /\ commitSeq \in Nat /\ stagedSeq \in Int /\ requests \in Nat
      /\ rest \in Seq(Entry) /\ received \subseteq Entry
  BY PlaneAssumption DEF PlaneInv, PlaneTypes, TypesInv, Cpu2Types
<1>2. CASE CalWrite
  <2>1. /\ requests' = requests + 1 /\ UNCHANGED <<commitSeq, received, accepted>>
        /\ stagedSeq' = commitSeq
        /\ stagedSeq = commitSeq => shadow' = shadow
        /\ stagedSeq # commitSeq => shadow'.count = 0
    <3>1. shadow = [count |-> shadow.count, writes |-> shadow.writes]
      BY DEF PlaneInv, PlaneTypes
    <3> QED
      BY <3>1, <1>2 DEF CalWrite, FreshStage, Request
  <2>2. pc2' = "stage" => \A k \in 1 .. Len(rest') : rest'[k].val = requests'
    <3> SUFFICES ASSUME pc2' = "stage"
                 PROVE  \A k \in 1 .. Len(rest') : rest'[k].val = requests'
      OBVIOUS
    <3>1. PICK f \in WriteLists :
            rest' = [k \in DOMAIN f |-> [addr |-> f[k], val |-> requests']]
      BY <1>2 DEF CalWrite
    <3>2. Len(f) \in Nat /\ DOMAIN f = 1 .. Len(f)
      BY PlaneAssumption, LenProperties
    <3>3. DOMAIN rest' = 1 .. Len(f)
      BY <3>1, <3>2
    <3>4. Len(rest') = Len(f)
      <4>1. rest' \in Seq(Entry)
        BY Cpu2Step, <1>2 DEF Cpu2, PlaneInv, PlaneTypes
      <4>2. DOMAIN rest' = 1 .. Len(rest') /\ Len(rest') \in Nat
        BY <4>1, LenProperties
      <4> QED
        BY <3>2, <3>3, <4>2
    <3> QED
      BY <3>1, <3>2, <3>4
  <2>3. CASE stagedSeq = commitSeq
    <3>1. \A e \in received : e.val <= requests'
      BY <1>1, <2>1 DEF BatchInv, Entry
    <3> QED
      BY <2>1, <2>2, <2>3, <3>1, <1>1 DEF BatchInv, OnePlaceEach, Covered, Placed
  <2>4. CASE stagedSeq # commitSeq
    BY <2>1, <2>2, <2>4, <1>1 DEF BatchInv, OnePlaceEach
  <2> QED
    BY <2>3, <2>4
<1>3. CASE StageOverflow
  <2>1. /\ UNCHANGED <<shadow, received, accepted, requests, stagedSeq, commitSeq>>
        /\ pc2' = "loop"
    BY <1>3 DEF StageOverflow
  <2> QED
    BY <2>1 DEF BatchInv, OnePlaceEach, Covered, Placed
<1>4. CASE StageEntry
  BY <1>4, StageEntryKeepsBatch
<1>5. CASE StageDone
  <2>1. /\ UNCHANGED <<shadow, received, requests, stagedSeq, commitSeq>>
        /\ pc2 = "stage" /\ pc2' = "loop"
        /\ accepted' = accepted \cup
             {a \in Addrs : [addr |-> a, val |-> requests] \in received}
    BY <1>5 DEF StageDone
  <2>2. \A a \in accepted' : Placed(a)
    BY <2>1 DEF BatchInv, Covered, Placed
  <2> QED
    BY <2>1, <2>2 DEF BatchInv, OnePlaceEach, Covered, Placed
<1>6. CASE CalCommit
  <2>1. /\ pc2 = "loop" /\ received' = {} /\ accepted' = {}
        /\ commitSeq' = commitSeq + 1 /\ UNCHANGED <<shadow, stagedSeq, pc2>>
    BY <1>6 DEF CalCommit
  <2> QED
    BY <2>1, <1>1 DEF BatchInv, OnePlaceEach
<1>7. CASE CalRead \/ Enum
  <2>1. /\ UNCHANGED <<shadow, received, accepted, stagedSeq, commitSeq>>
        /\ requests' = requests + 1 /\ pc2' # "stage"
    BY <1>7 DEF CalRead, Enum, Request
  <2>2. \A e \in received : e.val <= requests'
    BY <1>1, <2>1 DEF BatchInv, Entry
  <2> QED
    BY <2>1, <2>2 DEF BatchInv, OnePlaceEach, Covered, Placed
<1>8. CASE \/ ReadPublish \/ ReadEnds \/ EnumPublish \/ EnumEnds
           \/ StatusSeq \/ StatusResult
  <2>1. /\ UNCHANGED <<shadow, received, accepted, stagedSeq, commitSeq, requests>>
        /\ pc2' # "stage"
    BY <1>8 DEF ReadPublish, ReadEnds, EnumPublish, EnumEnds, StatusSeq, StatusResult
  <2> QED
    BY <2>1 DEF BatchInv, OnePlaceEach, Covered, Placed
<1>9. CASE Background \/ ControlIsr \/ UNCHANGED vars
  <2>1. UNCHANGED cpu2Vars
    BY <1>9 DEF Background, ControlIsr, vars, CatalogLook, CatalogCopy, CatalogCheck,
         CatalogAck, ParamLook, CopyEntry, Prepare, Refuse, ReadLook, ReadCopy,
         ReadCheck, ReadValue, ReadAck, NoStart, PrepareStart, RestoreWord,
         RestoreDone, ControlTick, ApplyAck
  <2> QED
    BY <2>1 DEF BatchInv, OnePlaceEach, Covered, Placed
<1> QED
  BY <1>2, <1>3, <1>4, <1>5, <1>6, <1>7, <1>8, <1>9 DEF Next, Cpu2

(* Whatever CAL_WRITEs fail half way, the batch has one entry per address, *)
(* the last received, keeps every entry that was acknowledged with OK, and *)
(* nothing from before the last commit.                                    *)
THEOREM StagedBatchHolds == Spec => []StagedBatch
<1>1. Init => BatchInv
  BY DEF Init, BatchInv, OnePlaceEach
<1>2. PlaneInv /\ TypesInv /\ BatchInv /\ [Next]_vars => BatchInv'
  BY BatchStep
<1>3. BatchInv => StagedBatch
  BY DEF BatchInv, OnePlaceEach, Covered, Placed, StagedBatch
<1> QED
  BY <1>1, <1>2, <1>3, PlaneInvariant, TypesInvariant, PTL DEF Spec
=============================================================================
