---------------------------- MODULE SciLinkProofs ---------------------------
(***************************************************************************)
(* Theorems about the serial link, for every number of slots and requests, *)
(* every ring and every bound on the host and the line.                    *)
(* The pipe and the service share no variable but the slots a response or  *)
(* a push is put into: PipeInv is about the one, LinkInv about the other.  *)
(***************************************************************************)
EXTENDS SciLink, TxPipeProofs, SequenceTheorems

LinkTypeOK ==
  /\ request \in 0 .. MaxRequests /\ sends \in 0 .. MaxSends
  /\ wire \in Seq([request : Requests, part : Parts])
  /\ ring \in Seq(Received) /\ Len(ring) <= RingMax
  /\ recovery \in Nat /\ errors \in 0 .. MaxErrors
  /\ pc \in Pcs /\ seen \in 0 .. recovery /\ frame \in Seq(Received)
  /\ pending \in BOOLEAN /\ cache \in 0 .. MaxRequests /\ linkState \in BOOLEAN
  /\ pushes \in 0 .. MaxPushes /\ executed \in [Requests -> Seq(Nat)]

\* Requests arrive in the order of their numbers, and the response kept is not
\* newer than what is still to be read.
Ordered ==
  /\ \A k \in DOMAIN wire : wire[k].request = request
  /\ \A k \in DOMAIN ring : cache <= ring[k].request /\ ring[k].request <= request
  /\ \A j, k \in DOMAIN ring : j <= k => ring[j].request <= ring[k].request
  /\ cache <= request

\* A request executed since the last recovery is no newer than the response
\* kept.
Executed ==
  \A r \in Requests : \A k \in DOMAIN executed[r] :
    /\ executed[r][k] <= seen
    /\ executed[r][k] = seen => r <= cache

LinkInv == LinkTypeOK /\ Ordered /\ Executed /\ NothingOlderThanSeen /\ ExecutedOncePerRecovery

linkVars == <<rxVars, hostVars, fgVars>>

(* A piece taken from the front of the ring.                               *)
LEMMA FrontTaken ==
  ASSUME NEW S, NEW s \in Seq(S), s # <<>>
  PROVE  /\ Tail(s) \in Seq(S) /\ Len(Tail(s)) <= Len(s) /\ Len(Tail(s)) \in Nat
         /\ \A k \in DOMAIN Tail(s) : k + 1 \in DOMAIN s /\ Tail(s)[k] = s[k + 1]
         /\ s[1] \in S /\ 1 \in DOMAIN s
<1>1. Len(s) \in Nat /\ Len(s) # 0 /\ DOMAIN s = 1 .. Len(s)
  BY LenProperties, EmptySeq
<1>2. /\ Tail(s) \in Seq(S) /\ Len(Tail(s)) = Len(s) - 1
      /\ \A i \in 1 .. Len(Tail(s)) : Tail(s)[i] = s[i + 1]
  BY HeadTailProperties
<1>3. DOMAIN Tail(s) = 1 .. Len(Tail(s))
  BY <1>2, LenProperties
<1>4. s[1] \in S
  BY <1>1, ElementOfSeq
<1> QED
  BY <1>1, <1>2, <1>3, <1>4

(* A piece, or a recovery number, put at the end.                          *)
LEMMA EndPut ==
  ASSUME NEW S, NEW s \in Seq(S), NEW e \in S
  PROVE  /\ Append(s, e) \in Seq(S) /\ Len(Append(s, e)) = Len(s) + 1
         /\ DOMAIN s = 1 .. Len(s) /\ DOMAIN Append(s, e) = 1 .. Len(s) + 1
         /\ Len(s) \in Nat
         /\ \A k \in DOMAIN s : Append(s, e)[k] = s[k]
         /\ Append(s, e)[Len(s) + 1] = e
<1>1. /\ Append(s, e) \in Seq(S) /\ Len(Append(s, e)) = Len(s) + 1
      /\ \A i \in 1 .. Len(s) : Append(s, e)[i] = s[i]
      /\ Append(s, e)[Len(s) + 1] = e
  BY AppendProperties
<1>2. Len(s) \in Nat /\ DOMAIN s = 1 .. Len(s)
  BY LenProperties
<1>3. DOMAIN Append(s, e) = 1 .. Len(Append(s, e))
  BY <1>1, LenProperties
<1> QED
  BY <1>1, <1>2, <1>3

(* The ring never holds the pieces of a request newer than the host's, and
   its prefix relation survives the loss of a piece on the line. *)
LEMMA WireLoses ==
  ASSUME LinkInv, wire # <<>>, wire' = Tail(wire), request' = request
  PROVE  /\ wire' \in Seq([request : Requests, part : Parts])
         /\ \A k \in DOMAIN wire' : wire'[k].request = request'
         /\ wire[1] \in [request : Requests, part : Parts] /\ wire[1].request = request
<1>1. wire \in Seq([request : Requests, part : Parts])
  BY DEF LinkInv, LinkTypeOK
<1>2. \A k \in DOMAIN wire : wire[k].request = request
  BY DEF LinkInv, Ordered
<1>3. /\ Tail(wire) \in Seq([request : Requests, part : Parts])
      /\ \A k \in DOMAIN Tail(wire) : k + 1 \in DOMAIN wire /\ Tail(wire)[k] = wire[k + 1]
      /\ wire[1] \in [request : Requests, part : Parts] /\ 1 \in DOMAIN wire
  BY <1>1, FrontTaken
<1> QED
  BY <1>2, <1>3

-----------------------------------------------------------------------------
(* Every step keeps the invariant of the service.                          *)

LEMMA LinkInitHolds == Init => LinkInv
<1> SUFFICES ASSUME Init PROVE LinkInv
  OBVIOUS
<1>1. \A S : <<>> \in Seq(S)
  BY EmptySeq
<1>2. DOMAIN <<>> = {}
  OBVIOUS
<1>3. LinkTypeOK
  <2>1. executed \in [Requests -> Seq(Nat)]
    BY <1>1 DEF Init
  <2>2. pending \in BOOLEAN /\ linkState \in BOOLEAN
    BY Zenon DEF Init
  <2>3. Len(ring) <= RingMax
    BY LinkAssumption DEF Init
  <2>4. /\ request \in 0 .. MaxRequests /\ sends \in 0 .. MaxSends /\ errors \in 0 .. MaxErrors
        /\ pushes \in 0 .. MaxPushes /\ cache \in 0 .. MaxRequests
        /\ recovery \in Nat /\ seen \in 0 .. recovery
    BY LinkAssumption DEF Init
  <2> QED
    BY <1>1, <2>1, <2>2, <2>3, <2>4 DEF Init, LinkTypeOK, Pcs
<1>4. Ordered
  BY <1>2 DEF Init, Ordered
<1>5. Executed /\ ExecutedOncePerRecovery
  BY <1>2 DEF Init, Executed, ExecutedOncePerRecovery
<1>6. NothingOlderThanSeen
  BY <1>2 DEF Init, NothingOlderThanSeen
<1> QED
  BY <1>3, <1>4, <1>5, <1>6 DEF LinkInv

(* A step that neither receives nor executes anything.                     *)
LEMMA QuietKeeps ==
  ASSUME LinkInv, LinkTypeOK', pending' => pending,
         UNCHANGED <<request, wire, ring, seen, frame, cache, executed>>
  PROVE  LinkInv'
<1>1. Ordered'
  BY DEF LinkInv, Ordered
<1>2. Executed' /\ ExecutedOncePerRecovery'
  BY DEF LinkInv, Executed, ExecutedOncePerRecovery
<1>3. NothingOlderThanSeen'
  BY DEF LinkInv, NothingOlderThanSeen
<1> QED
  BY <1>1, <1>2, <1>3 DEF LinkInv

LEMMA HostSendsKeeps ==
  ASSUME LinkInv, NEW r \in Requests, HostSends(r)
  PROVE  LinkInv'
<1> DEFINE head == [request |-> r, part |-> "head"]
           tail == [request |-> r, part |-> "tail"]
           Pieces == [request : Requests, part : Parts]
<1>1. /\ wire = <<>> /\ sends < MaxSends /\ sends' = sends + 1
      /\ r \in {request, request + 1} /\ request' = r
      /\ wire' = wire \o <<head, tail>>
      /\ UNCHANGED <<fgVars, ring, recovery, errors>>
  BY DEF HostSends
<1>2. head \in Pieces /\ tail \in Pieces
  BY DEF Parts
<1>3. wire' = <<head, tail>>
  <2>1. <<head, tail>> \in Seq(Pieces)
    BY <1>2
  <2> HIDE DEF head, tail, Pieces
  <2> QED
    BY <1>1, <2>1, ConcatEmptySeq
<1>4. /\ wire' \in Seq(Pieces)
      /\ \A k \in DOMAIN wire' : wire'[k].request = request'
  BY <1>1, <1>2, <1>3
<1>5. request \in Nat /\ request' \in 0 .. MaxRequests /\ request <= request'
  BY <1>1, LinkAssumption DEF LinkInv, LinkTypeOK, Requests
<1>6. sends' \in 0 .. MaxSends
  BY <1>1, LinkAssumption DEF LinkInv, LinkTypeOK
<1>7. LinkTypeOK'
  BY <1>1, <1>4, <1>5, <1>6 DEF LinkInv, LinkTypeOK, fgVars
<1>8. Ordered'
  <2>1. \A k \in DOMAIN ring : ring[k].request \in Nat
    <3>1. \A k \in DOMAIN ring : ring[k] \in Received
      BY LenProperties DEF LinkInv, LinkTypeOK
    <3> QED
      BY <3>1 DEF Received, Requests
  <2>2. cache \in Nat
    BY LinkAssumption DEF LinkInv, LinkTypeOK
  <2>3. /\ \A k \in DOMAIN ring : cache <= ring[k].request /\ ring[k].request <= request'
        /\ cache <= request'
    BY <1>5, <2>1, <2>2 DEF LinkInv, Ordered
  <2> QED
    BY <1>1, <1>4, <2>3 DEF LinkInv, Ordered, fgVars
<1>9. Executed' /\ ExecutedOncePerRecovery' /\ NothingOlderThanSeen'
  BY <1>1 DEF LinkInv, Executed, ExecutedOncePerRecovery, NothingOlderThanSeen, fgVars
<1> QED
  BY <1>7, <1>8, <1>9 DEF LinkInv

LEMMA RxIsrKeeps ==
  ASSUME LinkInv, RxIsr
  PROVE  LinkInv'
<1> DEFINE p == [request |-> wire[1].request, part |-> wire[1].part, under |-> recovery]
<1>1. /\ wire # <<>> /\ wire' = Tail(wire) /\ RingRoom /\ ring' = Append(ring, p)
      /\ UNCHANGED <<fgVars, hostVars, recovery, errors>>
  BY DEF RxIsr
<1>2. /\ wire' \in Seq([request : Requests, part : Parts])
      /\ \A k \in DOMAIN wire' : wire'[k].request = request'
      /\ wire[1] \in [request : Requests, part : Parts] /\ wire[1].request = request
  BY <1>1, WireLoses DEF hostVars
<1>3. p \in Received /\ p.request = request /\ p.under = recovery
  BY <1>2 DEF Received, LinkInv, LinkTypeOK
<1> HIDE DEF p
<1>4. /\ ring' \in Seq(Received) /\ Len(ring') = Len(ring) + 1 /\ Len(ring) \in Nat
      /\ DOMAIN ring = 1 .. Len(ring) /\ DOMAIN ring' = 1 .. Len(ring) + 1
      /\ \A k \in DOMAIN ring : ring'[k] = ring[k]
      /\ ring'[Len(ring) + 1] = p
  BY <1>1, <1>3, EndPut DEF LinkInv, LinkTypeOK
<1>5. LinkTypeOK'
  <2>1. Len(ring') <= RingMax
    BY <1>1, <1>4, LinkAssumption DEF RingRoom
  <2> QED
    BY <1>1, <1>2, <1>4, <2>1 DEF LinkInv, LinkTypeOK, fgVars, hostVars
<1>6. \A k \in DOMAIN ring' : k \in DOMAIN ring \/ k = Len(ring) + 1
  BY <1>4
<1>7. /\ \A k \in DOMAIN ring : cache <= ring[k].request /\ ring[k].request <= request
      /\ \A j, k \in DOMAIN ring : j <= k => ring[j].request <= ring[k].request
      /\ cache <= request /\ request \in Nat
  BY LinkAssumption DEF LinkInv, LinkTypeOK, Ordered
<1>8. Ordered'
  <2>1. \A k \in DOMAIN ring' : cache <= ring'[k].request /\ ring'[k].request <= request
    BY <1>3, <1>4, <1>6, <1>7
  <2>2. ASSUME NEW j \in DOMAIN ring', NEW k \in DOMAIN ring', j <= k
        PROVE  ring'[j].request <= ring'[k].request
    <3>1. CASE k = Len(ring) + 1
      BY <1>3, <1>4, <2>1, <3>1
    <3>2. CASE k \in DOMAIN ring
      <4>1. j \in DOMAIN ring
        BY <1>4, <2>2, <3>2
      <4> QED
        BY <1>4, <1>7, <2>2, <3>2, <4>1
    <3> QED
      BY <1>6, <3>1, <3>2
  <2> QED
    BY <1>1, <1>2, <1>7, <2>1, <2>2 DEF Ordered, fgVars, hostVars
<1>9. Executed' /\ ExecutedOncePerRecovery'
  BY <1>1 DEF LinkInv, Executed, ExecutedOncePerRecovery, fgVars
<1>10. NothingOlderThanSeen'
  <2>1. recovery >= seen
    BY DEF LinkInv, LinkTypeOK
  <2>2. \A k \in DOMAIN ring' : ring'[k].under >= seen
    BY <1>3, <1>4, <1>6, <2>1 DEF LinkInv, NothingOlderThanSeen
  <2> QED
    BY <1>1, <2>2 DEF LinkInv, NothingOlderThanSeen, fgVars
<1> QED
  BY <1>5, <1>8, <1>9, <1>10 DEF LinkInv

(* A piece is lost, with or without a new recovery number.                 *)
LEMMA LossKeeps ==
  ASSUME LinkInv, RxOverflow \/ RecoverRx \/ Noise
  PROVE  LinkInv'
<1>1. /\ wire # <<>> /\ wire' = Tail(wire) /\ UNCHANGED <<fgVars, hostVars, ring>>
  BY DEF RxOverflow, RecoverRx, Noise
<1>2. recovery' \in Nat /\ recovery' >= recovery /\ errors' \in 0 .. MaxErrors
  BY LinkAssumption DEF RxOverflow, RecoverRx, Noise, LinkInv, LinkTypeOK
<1>3. /\ wire' \in Seq([request : Requests, part : Parts])
      /\ \A k \in DOMAIN wire' : wire'[k].request = request'
  BY <1>1, WireLoses DEF hostVars
<1>4. seen' \in 0 .. recovery'
  BY <1>1, <1>2 DEF LinkInv, LinkTypeOK, fgVars
<1>5. LinkTypeOK'
  BY <1>1, <1>2, <1>3, <1>4 DEF LinkInv, LinkTypeOK, fgVars, hostVars
<1>6. Ordered'
  BY <1>1, <1>3 DEF LinkInv, Ordered, fgVars, hostVars
<1>7. Executed' /\ ExecutedOncePerRecovery' /\ NothingOlderThanSeen'
  BY <1>1 DEF LinkInv, Executed, ExecutedOncePerRecovery, NothingOlderThanSeen, fgVars
<1> QED
  BY <1>5, <1>6, <1>7 DEF LinkInv

LEMMA ResyncKeeps ==
  ASSUME LinkInv, recovery # seen, Resync, pc' \in Pcs
  PROVE  LinkInv'
<1>1. /\ ring' = <<>> /\ seen' = recovery /\ frame' = <<>> /\ pending' = FALSE
      /\ cache' = 0 /\ linkState' = FALSE
      /\ UNCHANGED <<hostVars, wire, recovery, errors, pushes, executed>>
  BY DEF Resync
<1>2. seen \in Nat /\ recovery \in Nat /\ seen < recovery
  BY DEF LinkInv, LinkTypeOK
<1>3. LinkTypeOK'
  <2>1. <<>> \in Seq(Received) /\ Len(<<>>) <= RingMax
    BY EmptySeq, LinkAssumption
  <2>2. recovery \in 0 .. recovery /\ 0 \in 0 .. MaxRequests
    BY <1>2, LinkAssumption
  <2> QED
    BY <1>1, <2>1, <2>2 DEF LinkInv, LinkTypeOK, hostVars
<1>4. DOMAIN <<>> = {}
  OBVIOUS
<1>5. Ordered'
  <2>1. 0 <= request
    BY LinkAssumption DEF LinkInv, LinkTypeOK
  <2> QED
    BY <1>1, <1>4, <2>1 DEF LinkInv, Ordered, hostVars
<1>6. Executed'
  <2>1. \A r \in Requests : \A k \in DOMAIN executed[r] : executed[r][k] \in Nat
    BY LenProperties DEF LinkInv, LinkTypeOK
  <2>2. \A r \in Requests : \A k \in DOMAIN executed[r] : executed[r][k] < recovery
    BY <1>2, <2>1 DEF LinkInv, Executed
  <2>3. \A r \in Requests : \A k \in DOMAIN executed[r] :
          executed[r][k] <= recovery /\ executed[r][k] # recovery
    BY <1>2, <2>1, <2>2
  <2> QED
    BY <1>1, <2>3 DEF Executed
<1>7. ExecutedOncePerRecovery' /\ NothingOlderThanSeen'
  BY <1>1, <1>4 DEF LinkInv, ExecutedOncePerRecovery, NothingOlderThanSeen
<1> QED
  BY <1>3, <1>5, <1>6, <1>7 DEF LinkInv

(* v2k_cpu2_board_pipe_read_octet: what is left in the ring is not older
   than what was taken. *)
LEMMA PieceTaken ==
  ASSUME LinkInv, ring # <<>>
  PROVE  LET p == ring[1]
             left == Tail(ring)
         IN /\ p \in Received /\ p.under >= seen /\ cache <= p.request /\ p.request <= request
            /\ left \in Seq(Received) /\ Len(left) <= RingMax
            /\ \A k \in DOMAIN left : /\ left[k].under >= seen
                                      /\ p.request <= left[k].request
                                      /\ left[k].request <= request
            /\ \A j, k \in DOMAIN left : j <= k => left[j].request <= left[k].request
<1> DEFINE left == Tail(ring)
<1>1. ring \in Seq(Received) /\ Len(ring) <= RingMax
  BY DEF LinkInv, LinkTypeOK
<1>2. /\ left \in Seq(Received) /\ Len(left) <= Len(ring) /\ Len(left) \in Nat
      /\ \A k \in DOMAIN left : k + 1 \in DOMAIN ring /\ left[k] = ring[k + 1]
      /\ ring[1] \in Received /\ 1 \in DOMAIN ring
  BY <1>1, FrontTaken
<1>3. /\ \A k \in DOMAIN left : k \in Nat /\ k >= 1
      /\ Len(ring) \in Nat
  BY <1>1, <1>2, LenProperties
<1> HIDE DEF left
<1>4. Len(left) <= RingMax
  BY <1>1, <1>2, <1>3, LinkAssumption
<1>5. /\ \A k \in DOMAIN ring : ring[k].under >= seen /\ cache <= ring[k].request
                                /\ ring[k].request <= request
      /\ \A j, k \in DOMAIN ring : j <= k => ring[j].request <= ring[k].request
  BY DEF LinkInv, Ordered, NothingOlderThanSeen
<1>6. \A k \in DOMAIN left : /\ left[k].under >= seen
                             /\ ring[1].request <= left[k].request
                             /\ left[k].request <= request
  <2> TAKE k \in DOMAIN left
  <2>1. k + 1 \in DOMAIN ring /\ left[k] = ring[k + 1] /\ 1 <= k + 1
    BY <1>2, <1>3
  <2> QED
    BY <1>2, <1>5, <2>1
<1>7. ASSUME NEW j \in DOMAIN left, NEW k \in DOMAIN left, j <= k
      PROVE  left[j].request <= left[k].request
  <2>1. /\ j + 1 \in DOMAIN ring /\ left[j] = ring[j + 1]
        /\ k + 1 \in DOMAIN ring /\ left[k] = ring[k + 1] /\ j + 1 <= k + 1
    BY <1>2, <1>3, <1>7
  <2> QED
    BY <1>5, <2>1
<1> QED
  BY <1>2, <1>4, <1>5, <1>6, <1>7 DEF left

(* v2k_sci_process_encoded_frame executes a request only if the response kept
   is another's, and then nothing newer was executed since the last recovery. *)
LEMMA ProcessKeeps ==
  ASSUME LinkInv, NEW r \in Requests, cache <= r, Process(r), seen' = seen
  PROVE  /\ pending' \in BOOLEAN /\ linkState' \in BOOLEAN
         /\ cache' \in {cache, r} /\ executed' \in [Requests -> Seq(Nat)]
         /\ Executed' /\ ExecutedOncePerRecovery'
         /\ cache' # 0 => seen' \in {executed'[cache'][k] : k \in DOMAIN executed'[cache']}
         /\ pending' => cache' # 0
<1> DEFINE Kept == cache' # 0 =>
                     seen' \in {executed'[cache'][k] : k \in DOMAIN executed'[cache']}
<1>1. linkState' = TRUE
  BY DEF Process
<1>2. r \in Nat /\ r # 0 /\ cache \in Nat /\ seen \in Nat
  BY LinkAssumption DEF Requests, LinkInv, LinkTypeOK
<1>3. CASE cache = r \/ pending
  <2>1. UNCHANGED <<cache, executed>> /\ pending' \in {TRUE, pending}
        /\ (cache = r => pending' = TRUE)
        /\ (cache # r => pending' = pending)
    BY <1>3 DEF Process
  <2>2. pending' \in BOOLEAN /\ executed' \in [Requests -> Seq(Nat)]
    BY <2>1 DEF LinkInv, LinkTypeOK
  <2>3. Executed' /\ ExecutedOncePerRecovery' /\ Kept
    BY <2>1 DEF LinkInv, Executed, ExecutedOncePerRecovery, NothingOlderThanSeen
  <2>4. pending' => cache' # 0
    BY <1>2, <2>1 DEF LinkInv, NothingOlderThanSeen
  <2> QED
    BY <1>1, <2>1, <2>2, <2>3, <2>4
<1>4. CASE cache # r /\ ~pending
  <2> DEFINE old == executed[r]
             new == Append(old, seen)
  <2>1. /\ pending' = TRUE /\ cache' = r
        /\ executed' = [executed EXCEPT ![r] = new]
    BY <1>4 DEF Process
  <2>2. executed \in [Requests -> Seq(Nat)] /\ old \in Seq(Nat)
    BY DEF LinkInv, LinkTypeOK
  <2>3. /\ new \in Seq(Nat) /\ Len(old) \in Nat
        /\ DOMAIN old = 1 .. Len(old) /\ DOMAIN new = 1 .. Len(old) + 1
        /\ \A k \in DOMAIN old : new[k] = old[k]
        /\ new[Len(old) + 1] = seen
    BY <1>2, <2>2, EndPut
  <2>4. \A k \in DOMAIN old : old[k] \in Nat /\ old[k] < seen
    <3> TAKE k \in DOMAIN old
    <3>1. old[k] \in Nat
      BY <2>2, <2>3, ElementOfSeq
    <3>2. old[k] <= seen /\ (old[k] = seen => r <= cache)
      BY DEF LinkInv, Executed
    <3> QED
      BY <1>2, <1>4, <3>1, <3>2
  <2> HIDE DEF old, new
  <2>5. /\ executed' \in [Requests -> Seq(Nat)] /\ executed'[r] = new
        /\ \A q \in Requests : q # r => executed'[q] = executed[q]
    BY <2>1, <2>2, <2>3
  <2>6. Executed'
    <3> SUFFICES ASSUME NEW q \in Requests, NEW k \in DOMAIN executed'[q]
                 PROVE  executed'[q][k] <= seen /\ (executed'[q][k] = seen => q <= r)
      BY <2>1 DEF Executed
    <3>1. CASE q = r
      <4>1. k \in DOMAIN old \/ k = Len(old) + 1
        BY <2>3, <2>5, <3>1
      <4> QED
        BY <1>2, <2>3, <2>4, <2>5, <3>1, <4>1
    <3>2. CASE q # r
      <4>1. /\ k \in DOMAIN executed[q] /\ executed'[q][k] = executed[q][k]
            /\ executed[q][k] <= seen /\ (executed[q][k] = seen => q <= cache)
        BY <2>5, <3>2 DEF LinkInv, Executed
      <4>2. q \in Nat
        BY DEF Requests
      <4> QED
        BY <1>2, <4>1, <4>2
    <3> QED
      BY <3>1, <3>2
  <2>7. ExecutedOncePerRecovery'
    <3> SUFFICES ASSUME NEW q \in Requests, NEW k \in DOMAIN executed'[q], k > 1
                 PROVE  executed'[q][k - 1] < executed'[q][k]
      BY DEF ExecutedOncePerRecovery
    <3>1. CASE q = r
      <4>1. CASE k = Len(old) + 1
        <5>1. k - 1 \in DOMAIN old
          BY <2>3, <4>1
        <5> QED
          BY <2>3, <2>4, <2>5, <3>1, <4>1, <5>1
      <4>2. CASE k \in DOMAIN old
        <5>1. k - 1 \in DOMAIN old /\ old[k - 1] < old[k]
          BY <2>3, <4>2 DEF LinkInv, ExecutedOncePerRecovery, old
        <5> QED
          BY <2>3, <2>5, <3>1, <4>2, <5>1
      <4> QED
        BY <2>3, <2>5, <3>1, <4>1, <4>2
    <3>2. CASE q # r
      BY <2>5, <3>2 DEF LinkInv, ExecutedOncePerRecovery
    <3> QED
      BY <3>1, <3>2
  <2>8. Kept
    <3>1. Len(old) + 1 \in DOMAIN new
      BY <2>3
    <3> QED
      BY <2>1, <2>3, <2>5, <3>1
  <2> QED
    BY <1>1, <1>2, <2>1, <2>5, <2>6, <2>7, <2>8
<1> QED
  BY <1>3, <1>4

LEMMA RxPieceKeeps ==
  ASSUME LinkInv, RxPiece
  PROVE  LinkInv'
<1> DEFINE p == ring[1]
           left == Tail(ring)
<1>1. /\ pc' = "rx" /\ ring # <<>> /\ ring' = left
      /\ frame' = IF p.part = "tail" THEN <<>> ELSE Append(frame, p)
      /\ Process(p.request) \/ UNCHANGED <<linkState, pending, cache, executed>>
      /\ UNCHANGED <<hostVars, wire, recovery, errors, seen, pushes>>
  BY DEF RxPiece, Loop
<1>2. /\ p \in Received /\ p.under >= seen /\ cache <= p.request /\ p.request <= request
      /\ left \in Seq(Received) /\ Len(left) <= RingMax
      /\ \A k \in DOMAIN left : /\ left[k].under >= seen
                                /\ p.request <= left[k].request
                                /\ left[k].request <= request
      /\ \A j, k \in DOMAIN left : j <= k => left[j].request <= left[k].request
  BY <1>1, PieceTaken
<1> HIDE DEF p, left
<1>3. p.request \in Requests /\ p.request \in Nat /\ request \in Nat /\ cache \in Nat
  BY <1>2, LinkAssumption DEF Received, Requests, LinkInv, LinkTypeOK
<1>4. /\ pending' \in BOOLEAN /\ linkState' \in BOOLEAN
      /\ cache' \in {cache, p.request} /\ executed' \in [Requests -> Seq(Nat)]
      /\ Executed' /\ ExecutedOncePerRecovery'
      /\ cache' # 0 => seen' \in {executed'[cache'][k] : k \in DOMAIN executed'[cache']}
      /\ pending' => cache' # 0
  <2>1. CASE Process(p.request)
    BY <1>1, <1>2, <1>3, <2>1, ProcessKeeps
  <2>2. CASE UNCHANGED <<linkState, pending, cache, executed>>
    <3>1. Executed' /\ ExecutedOncePerRecovery'
      BY <1>1, <2>2 DEF LinkInv, Executed, ExecutedOncePerRecovery
    <3>2. /\ cache' # 0 => seen' \in {executed'[cache'][k] : k \in DOMAIN executed'[cache']}
          /\ pending' => cache' # 0
      BY <1>1, <2>2 DEF LinkInv, NothingOlderThanSeen
    <3>3. pending' \in BOOLEAN /\ linkState' \in BOOLEAN /\ executed' \in [Requests -> Seq(Nat)]
      BY <2>2 DEF LinkInv, LinkTypeOK
    <3> QED
      BY <2>2, <3>1, <3>2, <3>3
  <2> QED
    BY <1>1, <2>1, <2>2
<1>5. /\ frame' \in Seq(Received)
      /\ \A k \in DOMAIN frame' : frame'[k].under >= seen
  <2>1. CASE p.part = "tail"
    <3>1. <<>> \in Seq(Received) /\ DOMAIN <<>> = {}
      BY EmptySeq
    <3> QED
      BY <1>1, <2>1, <3>1
  <2>2. CASE p.part # "tail"
    <3>1. frame \in Seq(Received) /\ \A k \in DOMAIN frame : frame[k].under >= seen
      BY DEF LinkInv, LinkTypeOK, NothingOlderThanSeen
    <3>2. /\ frame' \in Seq(Received) /\ Len(frame) \in Nat
          /\ DOMAIN frame = 1 .. Len(frame) /\ DOMAIN frame' = 1 .. Len(frame) + 1
          /\ \A k \in DOMAIN frame : frame'[k] = frame[k]
          /\ frame'[Len(frame) + 1] = p
      BY <1>1, <1>2, <2>2, <3>1, EndPut
    <3>3. \A k \in DOMAIN frame' : k \in DOMAIN frame \/ k = Len(frame) + 1
      BY <3>2
    <3> QED
      BY <1>2, <3>1, <3>2, <3>3
  <2> QED
    BY <2>1, <2>2
<1>6. LinkTypeOK'
  <2>1. cache' \in 0 .. MaxRequests
    BY <1>3, <1>4, LinkAssumption DEF LinkInv, LinkTypeOK, Requests
  <2> QED
    BY <1>1, <1>2, <1>4, <1>5, <2>1 DEF LinkInv, LinkTypeOK, Pcs, hostVars
<1>7. Ordered'
  <2>1. cache' <= p.request /\ cache' \in Nat
    BY <1>2, <1>3, <1>4
  <2>2. \A k \in DOMAIN left : cache' <= left[k].request
    <3> TAKE k \in DOMAIN left
    <3>1. left[k].request \in Nat
      <4>1. left[k] \in Received
        BY <1>2, LenProperties
      <4> QED
        BY <4>1 DEF Received, Requests
    <3> QED
      BY <1>2, <1>3, <2>1, <3>1
  <2>3. cache' <= request
    BY <1>2, <1>3, <2>1
  <2> QED
    BY <1>1, <1>2, <2>2, <2>3 DEF LinkInv, Ordered, hostVars
<1>8. NothingOlderThanSeen'
  BY <1>1, <1>2, <1>4, <1>5 DEF NothingOlderThanSeen
<1> QED
  BY <1>4, <1>6, <1>7, <1>8 DEF LinkInv

-----------------------------------------------------------------------------
(* The two invariants.                                                     *)

(* A step of the system is a step of the pipe or leaves the pipe alone.    *)
LEMMA PipeParts ==
  ASSUME [Next]_vars
  PROVE  PipeNext \/ UNCHANGED pipeVars
<1>1. CASE Next
  <2>1. ASSUME StartPending PROVE PipeNext \/ UNCHANGED pipeVars
    BY <2>1 DEF StartPending, PipeNext, Prios
  <2>2. CASE Poll
    BY <2>1, <2>2 DEF Poll, Resync
  <2>3. CASE RxPiece \/ RxDone
    BY <2>3 DEF RxPiece, RxDone
  <2>4. CASE \E prio \in Prios : Push(prio)
    BY <2>4 DEF Push, PipeNext
  <2>5. CASE Flush
    BY <2>1, <2>5 DEF Flush
  <2>6. CASE PipeStep(ForegroundStep) \/ PipeStep(InterruptStep) \/ PipeStep(Drain)
    BY <2>6 DEF PipeStep, PipeNext
  <2>7. CASE Line
    BY <2>7 DEF Line, HostSends, RxIsr, RxOverflow, RecoverRx, Noise
  <2> QED
    BY <1>1, <2>2, <2>3, <2>4, <2>5, <2>6, <2>7 DEF Next, SuperLoop
<1>2. CASE UNCHANGED vars
  BY <1>2 DEF vars
<1> QED
  BY <1>1, <1>2

LEMMA StartPendingKeeps ==
  ASSUME LinkInv, StartPending, pc' \in Pcs
  PROVE  LinkInv'
<1>1. /\ UNCHANGED <<rxVars, hostVars, seen, frame, cache, linkState, pushes, executed>>
      /\ pending' = FALSE \/ pending' = pending
  BY DEF StartPending, Keep
<1>2. LinkTypeOK'
  <2>1. pending' \in BOOLEAN
    BY <1>1 DEF LinkInv, LinkTypeOK
  <2> QED
    BY <1>1, <2>1 DEF LinkInv, LinkTypeOK, rxVars, hostVars
<1> QED
  BY <1>1, <1>2, QuietKeeps DEF rxVars, hostVars

LEMMA LinkStepKeeps ==
  ASSUME LinkInv, [Next]_vars
  PROVE  LinkInv'
<1>1. CASE Poll
  <2>1. pc' \in Pcs
    BY <1>1 DEF Poll, Loop, Pcs
  <2> QED
    BY <1>1, <2>1, ResyncKeeps, StartPendingKeeps DEF Poll
<1>2. CASE RxPiece
  BY <1>2, RxPieceKeeps
<1>3. CASE RxDone
  <2>1. /\ UNCHANGED <<rxVars, hostVars, seen, frame, pending, cache, linkState, pushes,
                       executed>>
        /\ pc' \in Pcs
    BY <1>3 DEF RxDone, Keep, Loop, Pcs
  <2> QED
    BY <2>1, QuietKeeps DEF LinkInv, LinkTypeOK, rxVars, hostVars
<1>4. CASE \E prio \in Prios : Push(prio)
  <2>1. /\ UNCHANGED <<rxVars, hostVars, seen, frame, pending, cache, linkState, executed>>
        /\ pc' \in Pcs /\ pushes' \in 0 .. MaxPushes
    BY <1>4, LinkAssumption DEF Push, Keep, Loop, Pcs, LinkInv, LinkTypeOK
  <2> QED
    BY <2>1, QuietKeeps DEF LinkInv, LinkTypeOK, rxVars, hostVars
<1>5. CASE Flush
  <2>1. pc' \in Pcs
    BY <1>5 DEF Flush, Loop, Pcs
  <2> QED
    BY <1>5, <2>1, StartPendingKeeps DEF Flush
<1>6. CASE \/ PipeStep(ForegroundStep) \/ PipeStep(InterruptStep) \/ PipeStep(Drain)
           \/ UNCHANGED vars
  <2>1. UNCHANGED <<rxVars, hostVars, fgVars>>
    BY <1>6 DEF PipeStep, Keep, vars
  <2> QED
    BY <2>1, QuietKeeps DEF LinkInv, LinkTypeOK, rxVars, hostVars, fgVars
<1>7. CASE Line
  BY <1>7, HostSendsKeeps, RxIsrKeeps, LossKeeps DEF Line
<1> QED
  BY <1>1, <1>2, <1>3, <1>4, <1>5, <1>6, <1>7 DEF Next, SuperLoop

(* What the service works with is typed, in order and no older than the last
   recovery it has seen. *)
THEOREM LinkInvariant == Spec => []LinkInv
<1>1. LinkInv /\ [Next]_vars => LinkInv'
  BY LinkStepKeeps
<1> QED
  BY <1>1, LinkInitHolds, PTL DEF Spec

(* Slots, contexts and line of the pipe belong together.                   *)
THEOREM PipeInvariant == Spec => []PipeInv
<1>1. Init => PipeInv
  BY PipeInitHolds DEF Init
<1>2. PipeInv /\ [Next]_vars => PipeInv'
  <2> SUFFICES ASSUME PipeInv, [Next]_vars PROVE PipeInv'
    OBVIOUS
  <2>1. CASE PipeNext
    BY <2>1, PipeStepKeeps
  <2>2. CASE UNCHANGED pipeVars
    BY <2>2 DEF pipeVars, hwVars, PipeInv, PipeTypeOK, Exclusive, Filling, LineAt,
                Writing, SlotLeft, Free
  <2> QED
    BY <2>1, <2>2, PipeParts
<1> QED
  BY <1>1, <1>2, PTL DEF Spec

-----------------------------------------------------------------------------
(* What follows from them.                                                 *)

(* Every variable keeps its type, and the ring its bound.                  *)
THEOREM TypeCorrect == Spec => []TypeOK
<1>1. LinkInv /\ PipeInv => TypeOK
  BY DEF LinkInv, LinkTypeOK, PipeInv, TypeOK
<1> QED
  BY <1>1, LinkInvariant, PipeInvariant, PTL

(* Pushes alone never keep v2k_sci_start_pending_response from a slot.     *)
THEOREM ResponseHasSlotHolds == Spec => []ResponseHasSlot
<1>1. PipeInv => ResponseHasSlot
  BY DEF PipeInv, SlotLeft, ResponseHasSlot, CanSubmit
<1> QED
  BY <1>1, PipeInvariant, PTL

(* v2k_sci_resync_recovered_pipe leaves nothing of before the recovery.    *)
THEOREM NothingOlderThanSeenHolds == Spec => []NothingOlderThanSeen
<1>1. LinkInv => NothingOlderThanSeen
  BY DEF LinkInv
<1> QED
  BY <1>1, LinkInvariant, PTL

(* One response kept is enough to execute a request once per recovery,
   whatever the line loses and however often the host repeats. *)
THEOREM ExecutedOncePerRecoveryHolds == Spec => []ExecutedOncePerRecovery
<1>1. LinkInv => ExecutedOncePerRecovery
  BY DEF LinkInv
<1> QED
  BY <1>1, LinkInvariant, PTL

(* The octets of a frame leave in order, each once, and unmixed, though two
   contexts refill the FIFO. *)
THEOREM FramesWholeHolds == Spec => FramesWhole
<1> DEFINE Whole == line' # line =>
                      IF line'.octet = 1 THEN line.octet \in {0, FrameLen}
                      ELSE line'.frame = line.frame /\ line'.octet = line.octet + 1
<1>1. PipeInv /\ [Next]_vars => [Whole]_vars
  <2> SUFFICES ASSUME PipeInv, [Next]_vars, line' # line
               PROVE  IF line'.octet = 1 THEN line.octet \in {0, FrameLen}
                      ELSE line'.frame = line.frame /\ line'.octet = line.octet + 1
    OBVIOUS
  <2>1. PipeNext
    BY PipeParts DEF pipeVars
  <2>2. PICK c \in Contexts : RefillWrite(c)
    BY <2>1 DEF PipeNext, Submit, ForegroundStep, InterruptStep, Fill, Kick, Refill,
                RefillRead, RefillEnds, Update, TxIsr, Drain, Contexts
  <2>3. /\ pos[c] \in 0 .. FrameLen - 1
        /\ line' = [frame |-> slots[active].data, octet |-> pos[c] + 1]
        /\ pos[c] = 0 => line.octet \in {0, FrameLen}
        /\ pos[c] # 0 => line.frame = slots[active].data /\ line.octet = pos[c]
    BY <2>2, WriteStep
  <2> QED
    BY <2>3, PipeAssumption
<1> QED
  BY <1>1, PipeInvariant, PTL DEF Spec, FramesWhole

(* A frame begins when every older one of its priority has left, and a push
   when no response is waiting. *)
THEOREM LineOrderHolds == Spec => LineOrder
<1> DEFINE InOrder == active' # active /\ active' # 0 =>
                        LET s == slots[active']
                        IN /\ \A i \in Pending(s.prio) : slots[i].order >= s.order
                           /\ s.prio = "NORMAL" => Pending("HIGH") = {}
<1>1. PipeInv /\ [Next]_vars => [InOrder]_vars
  <2> SUFFICES ASSUME PipeInv, [Next]_vars, active' # active, active' # 0
               PROVE  /\ \A i \in Pending(slots[active'].prio) :
                            slots[i].order >= slots[active'].order
                      /\ slots[active'].prio = "NORMAL" => Pending("HIGH") = {}
    OBVIOUS
  <2>1. PipeNext
    BY PipeParts DEF pipeVars
  <2>2. PICK c \in Contexts : RefillRead(c) \/ RefillWrite(c)
    BY <2>1 DEF PipeNext, Submit, ForegroundStep, InterruptStep, Fill, Kick, Refill,
                RefillEnds, Update, TxIsr, Drain, Contexts
  <2>3. CASE RefillRead(c)
    <3>1. NextSlot # 0 /\ active' = NextSlot
      BY <2>3 DEF RefillRead
    <3>2. slots \in [Slots -> SlotRecords] /\ active \in 0 .. NSlots
      BY DEF PipeInv, PipeTypeOK, SlotRecords
    <3>3. active = 0
      BY <3>1, <3>2, NextSlotChoice
    <3> QED
      BY <3>1, <3>2, <3>3, NextSlotChoice
  <2>4. CASE RefillWrite(c)
    BY <2>4 DEF RefillWrite
  <2> QED
    BY <2>2, <2>3, <2>4
<1> QED
  BY <1>1, PipeInvariant, PTL DEF Spec, LineOrder
=============================================================================
