-------------------------- MODULE VideoSlots_proof --------------------------
(***************************************************************************)
(* For any set of requests, any limit and any size of the executor, the    *)
(* permits of the video semaphore are conserved, and only a crowd that     *)
(* fills the executor's threads can stop the requests.                     *)
(***************************************************************************)
EXTENDS VideoSlots, FiniteSetTheorems, TLAPS

\* A worker needs CallsArePending to start a call that is somebody's: it is
\* what keeps the started request on the same side of Holding.
IInv == TypeOK /\ CallsArePending /\ PermitsConserved

\* Entering or leaving the holders changes their number by one.
LEMMA HoldersCount ==
  ASSUME NEW r \in Request, NEW label \in PC, TypeOK, Goto(r, label)
  PROVE  /\ IsFiniteSet(Holders)
         /\ Cardinality(Holders) \in Nat
         /\ r \notin Holders /\ label \in Holding
              => Cardinality(Holders)' = Cardinality(Holders) + 1
         /\ r \in Holders /\ label \notin Holding
              => Cardinality(Holders)' = Cardinality(Holders) - 1
         /\ (r \in Holders <=> label \in Holding)
              => Cardinality(Holders)' = Cardinality(Holders)
<1>1. IsFiniteSet(Holders) /\ Cardinality(Holders) \in Nat
  BY RequestAssumption, FS_Subset, FS_CardinalityType DEF Holders
<1>2. Holders' = IF label \in Holding THEN Holders \cup {r} ELSE Holders \ {r}
  BY DEF Holders, Goto, TypeOK
<1>3. CASE r \notin Holders /\ label \in Holding
  BY <1>1, <1>2, <1>3, FS_AddElement
<1>4. CASE r \in Holders /\ label \notin Holding
  BY <1>1, <1>2, <1>4, FS_RemoveElement
<1>5. CASE r \in Holders <=> label \in Holding
  <2>1. Holders' = Holders
    BY <1>2, <1>5
  <2>. QED BY <1>1, <1>5, <2>1
<1>. QED BY <1>1, <1>3, <1>4, <1>5

LEMMA InitInv == Init => IInv
<1>. SUFFICES ASSUME Init PROVE IInv
  OBVIOUS
<1>1. TypeOK /\ CallsArePending
  BY PermitsAssumption DEF Init, TypeOK, CallsArePending, PC
<1>2. Holders = {}
  BY DEF Init, Holders, Holding, Probing
<1>. QED BY <1>1, <1>2, FS_EmptySet, PermitsAssumption DEF IInv, PermitsConserved, Init

\* Submitting the call of a request that is not suspended keeps the queue sound.
LEMMA SubmitKeepsCalls ==
  ASSUME NEW r \in Request, NEW label \in Queued, TypeOK, CallsArePending,
         pc[r] \notin Queued, ToThread(r, label)
  PROVE  CallsArePending' /\ calls' \in Seq(Request)
<1>1. calls' = Append(calls, r) /\ calls \in Seq(Request) /\ pc \in [Request -> PC]
  BY DEF ToThread, TypeOK
<1>2. \A i \in DOMAIN calls : calls[i] \in Request /\ calls[i] # r
  BY <1>1 DEF CallsArePending
<1>3. DOMAIN calls' = 1..(Len(calls) + 1) /\ calls'[Len(calls) + 1] = r
  BY <1>1
<1>4. \A i \in DOMAIN calls : calls'[i] = calls[i]
  BY <1>1
<1>5. \A i \in DOMAIN calls' : i \in DOMAIN calls \/ i = Len(calls) + 1
  BY <1>1, <1>3
<1>6. pc'[r] = label /\ \A q \in Request : q # r => pc'[q] = pc[q]
  BY <1>1 DEF ToThread, Goto
<1>7. \A i \in DOMAIN calls' : pc'[calls'[i]] \in Queued
  BY <1>2, <1>3, <1>4, <1>5, <1>6 DEF CallsArePending
<1>8. \A i, j \in DOMAIN calls' : calls'[i] = calls'[j] => i = j
  BY <1>2, <1>3, <1>4, <1>5 DEF CallsArePending
<1>. QED BY <1>1, <1>7, <1>8 DEF CallsArePending

\* A step that touches neither the queue nor a suspended request keeps it sound.
LEMMA GotoKeepsCalls ==
  ASSUME NEW r \in Request, NEW label \in PC, TypeOK, CallsArePending,
         pc[r] \notin Queued, Goto(r, label), UNCHANGED calls
  PROVE  CallsArePending'
<1>1. \A i \in DOMAIN calls : calls[i] \in Request
  BY DEF TypeOK
<1>. QED BY <1>1 DEF TypeOK, CallsArePending, Goto

LEMMA WorkerInv == IInv /\ WorkerStarts => IInv'
<1>. SUFFICES ASSUME IInv, WorkerStarts PROVE IInv'
  OBVIOUS
<1>. DEFINE r == Head(calls)
            label == Started(pc[r])
<1>1. /\ TypeOK /\ CallsArePending /\ PermitsConserved
      /\ calls \in Seq(Request) /\ calls # <<>>
      /\ Goto(r, label) /\ calls' = Tail(calls) /\ permits' = permits
  BY DEF IInv, TypeOK, WorkerStarts
<1>2. 1 \in DOMAIN calls /\ r = calls[1] /\ r \in Request /\ pc[r] \in Queued
  BY <1>1 DEF CallsArePending
<1>3. label \in PC /\ (pc[r] \in Holding <=> label \in Holding)
  BY <1>2 DEF Started, Queued, PC, Holding, Probing, Acquiring
<1>4. Cardinality(Holders)' = Cardinality(Holders)
  BY <1>1, <1>2, <1>3, HoldersCount DEF Holders
<1>5. /\ DOMAIN calls' = 1..(Len(calls) - 1)
      /\ \A i \in DOMAIN calls' : i + 1 \in DOMAIN calls /\ calls'[i] = calls[i + 1]
  BY <1>1
<1>6. \A i \in DOMAIN calls' : calls'[i] \in Request /\ calls'[i] # r
  BY <1>1, <1>2, <1>5 DEF CallsArePending
<1>7. \A i \in DOMAIN calls' : pc'[calls'[i]] \in Queued
  BY <1>1, <1>5, <1>6 DEF CallsArePending, Goto, TypeOK
<1>8. \A i, j \in DOMAIN calls' : calls'[i] = calls'[j] => i = j
  <2>. SUFFICES ASSUME NEW i \in DOMAIN calls', NEW j \in DOMAIN calls', calls'[i] = calls'[j]
                PROVE  i = j
    OBVIOUS
  <2>1. i + 1 = j + 1
    BY <1>1, <1>5 DEF CallsArePending
  <2>. QED BY <2>1, <1>1, <1>5
<1>9. TypeOK'
  BY <1>1, <1>2, <1>3 DEF TypeOK, Goto
<1>. QED BY <1>1, <1>4, <1>7, <1>8, <1>9 DEF IInv, CallsArePending, PermitsConserved

\* The requests' own steps: each takes a permit on its way into Holding, gives
\* one back on its way out, or keeps to its side.
LEMMA RequestInv ==
  ASSUME NEW r \in Request, IInv, Arrive(r) \/ Advance(r)
  PROVE  IInv'
<1>. USE PermitsAssumption
<1>1. TypeOK /\ CallsArePending /\ PermitsConserved /\ permits \in 0..Permits
  BY DEF IInv, TypeOK
<1>2. CASE TryAcquire(r)
  <2>1. r \notin Holders /\ "submitted" \in Holding /\ "submitted" \in PC /\ pc[r] \notin Queued
    BY <1>2 DEF TryAcquire, Holders, Holding, Probing, PC, Queued
  <2>2. Goto(r, "submitted") /\ UNCHANGED calls /\ permits > 0 /\ permits' = permits - 1
    BY <1>2 DEF TryAcquire
  <2>3. TypeOK'
    BY <1>1, <2>1, <2>2 DEF TypeOK, Goto
  <2>4. CallsArePending'
    BY <1>1, <2>1, <2>2, GotoKeepsCalls
  <2>5. PermitsConserved'
    BY <1>1, <2>1, <2>2, HoldersCount DEF PermitsConserved
  <2>. QED BY <2>3, <2>4, <2>5 DEF IInv
<1>3. CASE QueueAcquire(r)
  <2>1. /\ r \notin Holders /\ "acquire_queued" \notin Holding /\ "acquire_queued" \in PC
        /\ pc[r] \notin Queued /\ "acquire_queued" \in Queued
    BY <1>3 DEF QueueAcquire, Holders, Holding, Probing, PC, Acquiring, Queued
  <2>. QED BY <1>1, <1>3, <2>1, HoldersCount, SubmitKeepsCalls
           DEF QueueAcquire, ToThread, IInv, TypeOK, PermitsConserved, Goto
<1>4. CASE Acquire(r)
  <2>1. r \notin Holders /\ "submitted" \in Holding /\ "submitted" \in PC /\ pc[r] \notin Queued
    BY <1>4 DEF Acquire, Holders, Holding, Probing, PC, Queued
  <2>2. Goto(r, "submitted") /\ UNCHANGED calls /\ permits > 0 /\ permits' = permits - 1
    BY <1>4 DEF Acquire
  <2>3. TypeOK'
    BY <1>1, <2>1, <2>2 DEF TypeOK, Goto
  <2>4. CallsArePending'
    BY <1>1, <2>1, <2>2, GotoKeepsCalls
  <2>5. PermitsConserved'
    BY <1>1, <2>1, <2>2, HoldersCount DEF PermitsConserved
  <2>. QED BY <2>3, <2>4, <2>5 DEF IInv
<1>5. CASE Downloaded(r)
  <2>1. PICK label \in {"audio_queued", "quality_queued"} : ToThread(r, label)
    BY <1>5 DEF Downloaded
  <2>2. /\ r \in Holders /\ label \in Holding /\ label \in PC
        /\ pc[r] \notin Queued /\ label \in Queued /\ permits' = permits
    BY <1>5 DEF Downloaded, Holders, Holding, Probing, PC, Queued
  <2>. QED BY <1>1, <2>1, <2>2, HoldersCount, SubmitKeepsCalls
           DEF ToThread, IInv, TypeOK, PermitsConserved, Goto
<1>6. CASE AudioProbed(r)
  <2>1. r \in Holders /\ "mixing" \in Holding /\ "mixing" \in PC /\ pc[r] \notin Queued
    BY <1>6 DEF AudioProbed, Holders, Holding, Probing, PC, Queued
  <2>. QED BY <1>1, <1>6, <2>1, HoldersCount, GotoKeepsCalls
           DEF AudioProbed, IInv, TypeOK, PermitsConserved, Goto
<1>7. CASE Mixed(r)
  <2>1. /\ r \in Holders /\ "quality_queued" \in Holding /\ "quality_queued" \in PC
        /\ pc[r] \notin Queued /\ "quality_queued" \in Queued
    BY <1>7 DEF Mixed, Holders, Holding, Probing, PC, Queued
  <2>. QED BY <1>1, <1>7, <2>1, HoldersCount, SubmitKeepsCalls
           DEF Mixed, ToThread, IInv, TypeOK, PermitsConserved, Goto
<1>8. CASE QualityProbed(r) \/ ReturnEarly(r)
  <2>1. /\ r \in Holders /\ "releasing" \in Holding /\ "releasing" \in PC /\ pc[r] \notin Queued
        /\ Goto(r, "releasing") /\ UNCHANGED <<permits, calls>>
    BY <1>8 DEF QualityProbed, ReturnEarly, Holders, Holding, Probing, PC, Queued
  <2>. QED BY <1>1, <2>1, HoldersCount, GotoKeepsCalls
           DEF IInv, TypeOK, PermitsConserved, Goto
<1>9. CASE Release(r)
  <2>1. r \in Holders /\ "done" \notin Holding /\ "done" \in PC /\ pc[r] \notin Queued
    BY <1>9 DEF Release, Holders, Holding, Probing, PC, Queued
  <2>2. /\ Cardinality(Holders) \in Nat
        /\ Cardinality(Holders)' = Cardinality(Holders) - 1
        /\ Cardinality(Holders)' \in Nat
    <3>1. IsFiniteSet(Holders')
      BY RequestAssumption, FS_Subset DEF Holders
    <3>. QED BY <1>1, <1>9, <2>1, <3>1, HoldersCount, FS_CardinalityType DEF Release
  <2>3. Goto(r, "done") /\ UNCHANGED calls /\ permits' = permits + 1
    BY <1>9 DEF Release
  <2>4. PermitsConserved'
    BY <1>1, <2>2, <2>3 DEF PermitsConserved
  <2>5. TypeOK'
    BY <1>1, <2>1, <2>2, <2>3, <2>4 DEF TypeOK, Goto, PermitsConserved
  <2>6. CallsArePending'
    BY <1>1, <2>1, <2>3, GotoKeepsCalls
  <2>. QED BY <2>4, <2>5, <2>6 DEF IInv
<1>. QED BY <1>2, <1>3, <1>4, <1>5, <1>6, <1>7, <1>8, <1>9 DEF Arrive, Advance

LEMMA InductiveInvariant == Spec => []IInv
<1>1. IInv /\ [Next]_vars => IInv'
  <2>. SUFFICES ASSUME IInv, [Next]_vars PROVE IInv'
    OBVIOUS
  <2>1. ASSUME NEW r \in Request, Arrive(r) \/ Advance(r) PROVE IInv'
    BY <2>1, RequestInv
  <2>2. CASE WorkerStarts
    BY <2>2, WorkerInv
  <2>3. CASE UNCHANGED vars
    BY <2>3 DEF vars, IInv, TypeOK, CallsArePending, PermitsConserved, Holders
  <2>. QED BY <2>1, <2>2, <2>3 DEF Next, AllDone
<1>. QED BY <1>1, InitInv, PTL DEF Spec

\* The state of the semaphore and of the executor's queue is always well formed.
THEOREM TypeCorrect == Spec => []TypeOK
BY InductiveInvariant, PTL DEF IInv

\* No path through _generate_segment_video loses a permit or takes a second one:
\* the counter and the requests between acquire() and release() always add up.
THEOREM PermitsNeverLeak == Spec => []PermitsConserved
BY InductiveInvariant, PTL DEF IInv

-----------------------------------------------------------------------------
(***************************************************************************)
(* When the requests can stop.                                             *)
(***************************************************************************)
\* What is suspended on the executor has its call there.
CallsAreQueued == \A r \in Request : pc[r] \in Queued => \E i \in DOMAIN calls : calls[i] = r

\* Those that wait for a slot, queued or in a thread.
WaitingForSlot == {r \in Request : pc[r] \in Acquiring}

UnderWay == \E r \in Request : pc[r] \notin {"new", "done"}

\* A thread can take a call, a coroutine or probe can go on, or a waiting
\* thread can have the slot.
CanGo == \/ calls # <<>> /\ Cardinality(BusyWorkers) < Workers
         \/ \E r \in Request : pc[r] \in {"submitted", "mixing", "audio_running", "quality_running", "releasing"}
         \/ permits > 0 /\ \E r \in Request : pc[r] = "acquire_running"

NobodyStuck == UnderWay => CanGo

LEMMA SubmitIsQueued ==
  ASSUME NEW r \in Request, NEW label, TypeOK, CallsAreQueued, ToThread(r, label)
  PROVE  CallsAreQueued'
<1>1. calls' = Append(calls, r) /\ calls \in Seq(Request) /\ pc \in [Request -> PC]
      /\ pc' = [pc EXCEPT ![r] = label]
  BY DEF ToThread, Goto, TypeOK
<1>2. DOMAIN calls' = 1..(Len(calls) + 1) /\ calls'[Len(calls) + 1] = r /\ Len(calls) \in Nat
      /\ \A i \in DOMAIN calls : calls'[i] = calls[i] /\ i \in DOMAIN calls'
  BY <1>1
<1>. SUFFICES ASSUME NEW q \in Request, pc'[q] \in Queued PROVE \E i \in DOMAIN calls' : calls'[i] = q
  BY DEF CallsAreQueued
<1>3. CASE q = r
  <2>1. Len(calls) + 1 \in DOMAIN calls'
    BY <1>2
  <2>. QED BY <1>2, <1>3, <2>1
<1>4. CASE q # r
  <2>1. pc'[q] = pc[q]
    BY <1>1, <1>4
  <2>2. PICK i \in DOMAIN calls : calls[i] = q
    BY <2>1 DEF CallsAreQueued
  <2>. QED BY <1>2, <2>2
<1>. QED BY <1>3, <1>4

LEMMA WorkerTakesHead ==
  ASSUME TypeOK, CallsArePending, CallsAreQueued, WorkerStarts
  PROVE  CallsAreQueued'
<1>. DEFINE r == Head(calls)
            label == Started(pc[r])
<1>1. /\ calls \in Seq(Request) /\ calls # <<>> /\ pc \in [Request -> PC]
      /\ pc' = [pc EXCEPT ![r] = label] /\ calls' = Tail(calls)
  BY DEF TypeOK, WorkerStarts, Goto
<1>2. 1 \in DOMAIN calls /\ r = calls[1] /\ r \in Request /\ pc[r] \in Queued
  BY <1>1 DEF CallsArePending
<1>3. label \notin Queued
  BY <1>2 DEF Started, Queued
<1>4. /\ DOMAIN calls' = 1..(Len(calls) - 1) /\ DOMAIN calls = 1..Len(calls) /\ Len(calls) \in Nat
      /\ \A i \in DOMAIN calls' : calls'[i] = calls[i + 1]
  BY <1>1
<1>. HIDE DEF label
<1>5. ASSUME NEW q \in Request, pc'[q] \in Queued PROVE \E i \in DOMAIN calls' : calls'[i] = q
  <2>1. q # r
    BY <1>1, <1>3, <1>5
  <2>2. pc[q] \in Queued
    BY <1>1, <1>5, <2>1
  <2>3. PICK i \in DOMAIN calls : calls[i] = q
    BY <2>2 DEF CallsAreQueued
  <2>4. i # 1
    BY <1>2, <2>1, <2>3
  <2>5. i - 1 \in DOMAIN calls' /\ calls'[i - 1] = calls[(i - 1) + 1] /\ (i - 1) + 1 = i
    BY <1>4, <2>4
  <2>. QED BY <2>3, <2>5
<1>. QED BY <1>5 DEF CallsAreQueued

LEMMA QueuedInv == Spec => []CallsAreQueued
<1>1. Init => CallsAreQueued
  BY DEF Init, CallsAreQueued, Queued
<1>2. ASSUME IInv, CallsAreQueued, [Next]_vars PROVE CallsAreQueued'
  <2>1. TypeOK /\ CallsArePending
    BY <1>2 DEF IInv
  <2>2. ASSUME NEW r \in Request, NEW label, Goto(r, label), label \notin Queued, UNCHANGED calls
        PROVE  CallsAreQueued'
    BY <1>2, <2>1, <2>2 DEF CallsAreQueued, Goto, TypeOK
  <2>3. ASSUME NEW r \in Request, Arrive(r) \/ Advance(r) PROVE CallsAreQueued'
    <3>1. \/ \E label : ToThread(r, label)
          \/ \E label : Goto(r, label) /\ label \notin Queued /\ UNCHANGED calls
      BY <2>3 DEF Arrive, Advance, TryAcquire, QueueAcquire, Acquire, Downloaded, AudioProbed, Mixed,
                  QualityProbed, ReturnEarly, Release, Queued
    <3>. QED BY <1>2, <2>1, <2>2, <3>1, SubmitIsQueued
  <2>4. CASE WorkerStarts
    BY <1>2, <2>1, <2>4, WorkerTakesHead
  <2>5. CASE UNCHANGED vars
    BY <1>2, <2>5 DEF vars, CallsAreQueued
  <2>. QED BY <1>2, <2>3, <2>4, <2>5 DEF Next, AllDone
<1>. QED BY <1>1, <1>2, InductiveInvariant, PTL DEF Spec

\* Whoever cannot go on waits for a slot, or for a thread those occupy.
LEMMA StuckInThreads ==
  ASSUME IInv, CallsAreQueued, UnderWay, ~CanGo
  PROVE  permits = 0 /\ Cardinality(WaitingForSlot) >= Workers
<1>1. /\ TypeOK /\ PermitsConserved /\ pc \in [Request -> PC] /\ permits \in 0..Permits
      /\ calls \in Seq(Request) /\ Permits \in Nat \ {0} /\ Workers \in Nat \ {0}
  BY PermitsAssumption, WorkersAssumption DEF IInv, TypeOK
<1>2. BusyWorkers \subseteq WaitingForSlot
  BY DEF CanGo, BusyWorkers, WaitingForSlot, Running, Acquiring
<1>3. /\ IsFiniteSet(WaitingForSlot) /\ IsFiniteSet(BusyWorkers)
      /\ Cardinality(BusyWorkers) <= Cardinality(WaitingForSlot)
      /\ Cardinality(BusyWorkers) \in Nat /\ Cardinality(WaitingForSlot) \in Nat
  <2>1. IsFiniteSet(WaitingForSlot)
    BY RequestAssumption, FS_Subset DEF WaitingForSlot
  <2>. QED BY <1>2, <2>1, FS_Subset, FS_CardinalityType
<1>4. calls # <<>>
  <2>. SUFFICES ASSUME calls = <<>> PROVE FALSE
    OBVIOUS
  <2>1. DOMAIN calls = {}
    OBVIOUS
  <2>2. \A r \in Request : pc[r] \notin Queued
    BY <2>1 DEF CallsAreQueued
  <2>3. PICK r \in Request : pc[r] \notin {"new", "done"}
    BY DEF UnderWay
  <2>4. pc[r] = "acquire_running"
    BY <1>1, <2>2, <2>3 DEF CanGo, PC, Acquiring, Holding, Probing, Queued
  <2>5. permits = 0
    BY <1>1, <2>4 DEF CanGo
  <2>6. Holders = {}
    BY <2>2 DEF CanGo, Holders, Holding, Probing, Queued
  <2>. QED BY <1>1, <2>5, <2>6, FS_EmptySet DEF PermitsConserved
<1>5. Cardinality(BusyWorkers) >= Workers
  BY <1>1, <1>3, <1>4 DEF CanGo
<1>6. BusyWorkers # {}
  BY <1>1, <1>5, FS_EmptySet
<1>7. permits = 0
  <2>1. PICK r \in BusyWorkers : TRUE
    BY <1>6
  <2>2. r \in Request /\ pc[r] = "acquire_running"
    BY DEF CanGo, BusyWorkers, Running
  <2>. QED BY <1>1, <2>2 DEF CanGo
<1>. QED BY <1>1, <1>3, <1>5, <1>7

\* As long as fewer requests wait for a slot than the executor has threads,
\* whatever is under way can go on: the probes of those that hold the slots find
\* a thread.  Only a crowd of waiting requests brings about what the run
\* VideoSlotsStarved shows (_generate_segment_video's to_thread(acquire)).
THEOREM OnlyCrowdsStarve == Spec => [](Cardinality(WaitingForSlot) < Workers => NobodyStuck)
<1>1. IInv /\ CallsAreQueued => (Cardinality(WaitingForSlot) < Workers => NobodyStuck)
  <2>. SUFFICES ASSUME IInv, CallsAreQueued, UnderWay, ~CanGo
                PROVE  ~(Cardinality(WaitingForSlot) < Workers)
    BY DEF NobodyStuck
  <2>1. Cardinality(WaitingForSlot) \in Nat /\ Workers \in Nat
    BY RequestAssumption, WorkersAssumption, FS_Subset, FS_CardinalityType DEF WaitingForSlot
  <2>. QED BY <2>1, StuckInThreads
<1>. QED BY <1>1, InductiveInvariant, QueuedInv, PTL

\* With fewer requests in all than slots and threads together nobody ever gets
\* stuck.  One more is enough (VideoSlotsStarved: 4 requests, 2 slots, 2 threads).
THEOREM SlotsSuffice ==
  ASSUME Cardinality(Request) < Permits + Workers
  PROVE  Spec => []NobodyStuck
<1>1. IInv /\ CallsAreQueued => NobodyStuck
  <2>. SUFFICES ASSUME IInv, CallsAreQueued, UnderWay, ~CanGo PROVE FALSE
    BY DEF NobodyStuck
  <2>1. permits = 0 /\ Cardinality(WaitingForSlot) >= Workers
    BY StuckInThreads
  <2>2. Cardinality(Holders) = Permits
    <3>1. Cardinality(Holders) \in Nat
      BY RequestAssumption, FS_Subset, FS_CardinalityType DEF Holders
    <3>. QED BY <2>1, <3>1, PermitsAssumption DEF IInv, PermitsConserved
  <2>3. /\ IsFiniteSet(Holders) /\ IsFiniteSet(WaitingForSlot)
        /\ Holders \cap WaitingForSlot = {} /\ Holders \cup WaitingForSlot \subseteq Request
    BY RequestAssumption, FS_Subset DEF Holders, WaitingForSlot, Holding, Probing, Acquiring
  <2>4. Cardinality(Holders \cup WaitingForSlot) = Cardinality(Holders) + Cardinality(WaitingForSlot)
    <3>1. Cardinality(Holders \cap WaitingForSlot) = 0
      BY <2>3, FS_EmptySet
    <3>2. Cardinality(Holders) \in Nat /\ Cardinality(WaitingForSlot) \in Nat
      BY <2>3, FS_CardinalityType
    <3>3. /\ IsFiniteSet(Holders) /\ IsFiniteSet(WaitingForSlot)
      BY <2>3
    <3>4. Cardinality(Holders \cup WaitingForSlot)
            = Cardinality(Holders) + Cardinality(WaitingForSlot) - Cardinality(Holders \cap WaitingForSlot)
      BY <3>3, FS_Union
    <3>. QED BY <3>1, <3>2, <3>4
  <2>5. Cardinality(Holders \cup WaitingForSlot) <= Cardinality(Request)
    BY <2>3, RequestAssumption, FS_Subset
  <2>6. /\ Cardinality(Request) \in Nat /\ Cardinality(WaitingForSlot) \in Nat
        /\ Permits \in Nat /\ Workers \in Nat
    BY <2>3, RequestAssumption, PermitsAssumption, WorkersAssumption, FS_CardinalityType
  <2>. QED BY <2>1, <2>2, <2>4, <2>5, <2>6
<1>. QED BY <1>1, InductiveInvariant, QueuedInv, PTL

=============================================================================
