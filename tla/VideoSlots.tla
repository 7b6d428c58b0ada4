----------------------------- MODULE VideoSlots -----------------------------
(***************************************************************************)
(* The process-wide limit on concurrent video generation, as executed by   *)
(* DramaMakeSkill._generate_segment_video in the Web process (local mode). *)
(*                                                                         *)
(* A request takes a permit of the semaphore _VIDEO_SLOT without blocking  *)
(* when one is free.  Otherwise it parks a blocking acquire() on a thread  *)
(* of the event loop's default executor (asyncio.to_thread).  The request  *)
(* that holds a permit uses the same executor to run ffprobe, once or      *)
(* twice, before its finally-block gives the permit back.  The executor    *)
(* is the one resource the two uses share: it starts the submitted calls   *)
(* in FIFO order and runs at most Workers of them at a time.               *)
(***************************************************************************)
EXTENDS Integers, Sequences, FiniteSets

CONSTANTS Request,   \* the requests to generate a segment's video
          Permits,   \* VIDEO_MAX_CONCURRENCY
          Workers    \* max_workers of the loop's default executor

ASSUME PermitsAssumption == Permits \in Nat \ {0}   \* max(1, int(...))
ASSUME WorkersAssumption == Workers \in Nat \ {0}
ASSUME RequestAssumption == IsFiniteSet(Request)

VARIABLES pc,        \* pc[r]: where the coroutine of request r stands
          permits,   \* the semaphore's counter
          calls      \* calls submitted to the executor and not yet started

vars == <<pc, permits, calls>>

Acquiring == {"acquire_queued", "acquire_running"}
Probing   == {"audio_queued", "audio_running", "quality_queued", "quality_running"}
Holding   == {"submitted", "mixing", "releasing"} \cup Probing
PC        == {"new", "done"} \cup Acquiring \cup Holding

Queued  == {"acquire_queued", "audio_queued", "quality_queued"}
Running == {"acquire_running", "audio_running", "quality_running"}

BusyWorkers == {r \in Request : pc[r] \in Running}

Holders == {r \in Request : pc[r] \in Holding}

Goto(r, label) == pc' = [pc EXCEPT ![r] = label]

-----------------------------------------------------------------------------
Init == /\ pc = [r \in Request |-> "new"]
        /\ permits = Permits
        /\ calls = <<>>

\* asyncio.to_thread(f): hand f to the executor and suspend.
ToThread(r, label) == /\ Goto(r, label)
                      /\ calls' = Append(calls, r)

\* A slip this code once had: the permit is taken, and the blocking acquire()
\* is queued all the same.
TryAcquireTwice(r) == /\ pc[r] = "new"
                      /\ permits > 0
                      /\ permits' = permits - 1
                      /\ ToThread(r, "acquire_queued")

\* acquire(blocking=False) succeeds: the request goes straight to the provider.
TryAcquire(r) == /\ pc[r] = "new"
                 /\ permits > 0
                 /\ permits' = permits - 1
                 /\ Goto(r, "submitted")
                 /\ UNCHANGED calls

\* acquire(blocking=False) fails: queue a blocking acquire on the executor.
QueueAcquire(r) == /\ pc[r] = "new"
                   /\ permits = 0
                   /\ ToThread(r, "acquire_queued")
                   /\ UNCHANGED permits

Started(label) == CASE label = "acquire_queued" -> "acquire_running"
                    [] label = "audio_queued"   -> "audio_running"
                    [] label = "quality_queued" -> "quality_running"

\* A worker thread of the executor picks up the oldest submitted call.
WorkerStarts == /\ calls # <<>>
                /\ Cardinality(BusyWorkers) < Workers
                /\ Goto(Head(calls), Started(pc[Head(calls)]))
                /\ calls' = Tail(calls)
                /\ UNCHANGED permits

\* A slip: the woken thread takes a permit without looking at the counter again.
AcquireUnchecked(r) == /\ pc[r] = "acquire_running"
                       /\ permits' = permits - 1
                       /\ Goto(r, "submitted")
                       /\ UNCHANGED calls

\* The parked acquire() gets a permit; its thread returns to the executor.
Acquire(r) == /\ pc[r] = "acquire_running"
              /\ permits > 0
              /\ permits' = permits - 1
              /\ Goto(r, "submitted")
              /\ UNCHANGED calls

\* The provider delivered the video and it is on disk.  With audio_mode "auto"
\* on a channel without native sound the file is probed for a sound track,
\* otherwise it is probed for its quality only.
Downloaded(r) == /\ pc[r] = "submitted"
                 /\ \/ ToThread(r, "audio_queued")
                    \/ ToThread(r, "quality_queued")
                 /\ UNCHANGED permits

AudioProbed(r) == /\ pc[r] = "audio_running"
                  /\ Goto(r, "mixing")
                  /\ UNCHANGED <<permits, calls>>

\* Dubbing is over (or skipped): the result is probed for duration and sound.
Mixed(r) == /\ pc[r] = "mixing"
            /\ ToThread(r, "quality_queued")
            /\ UNCHANGED permits

QualityProbed(r) == /\ pc[r] = "quality_running"
                    /\ Goto(r, "releasing")
                    /\ UNCHANGED <<permits, calls>>

\* A slip: the early return on a refused video bypasses the finally-block.
ReturnEarlyLeaks(r) == /\ pc[r] \in {"submitted", "mixing", "audio_running", "quality_running"}
                       /\ Goto(r, "done")
                       /\ UNCHANGED <<permits, calls>>

\* The coroutine leaves its try-block early, on its way through the
\* finally-block: the provider refused, a call raised, or the request is for a
\* single shot of an old task, whose result is never probed.
ReturnEarly(r) == /\ pc[r] \in {"submitted", "mixing", "audio_running", "quality_running"}
                  /\ Goto(r, "releasing")
                  /\ UNCHANGED <<permits, calls>>

\* finally: _VIDEO_SLOT.release()
Release(r) == /\ pc[r] = "releasing"
              /\ permits' = permits + 1
              /\ Goto(r, "done")
              /\ UNCHANGED calls

AllDone == /\ \A r \in Request : pc[r] = "done"
           /\ UNCHANGED vars

Arrive(r)  == TryAcquire(r) \/ QueueAcquire(r)
Advance(r) == \/ Acquire(r) \/ Downloaded(r) \/ AudioProbed(r) \/ Mixed(r)
              \/ QualityProbed(r) \/ ReturnEarly(r) \/ Release(r)

Next == \/ \E r \in Request : Arrive(r) \/ Advance(r)
        \/ WorkerStarts
        \/ AllDone

Spec == Init /\ [][Next]_vars

\* The event loop runs every ready coroutine, the executor starts a queued
\* call when a thread is free, and calls to the provider return or time out.
\* No user has to ask for a video.
FairSpec == /\ Spec
            /\ WF_vars(WorkerStarts)
            /\ \A r \in Request : WF_vars(Advance(r))

-----------------------------------------------------------------------------
TypeOK == /\ pc \in [Request -> PC]
          /\ permits \in 0..Permits
          /\ calls \in Seq(Request)

\* Every permit is either in the counter or held by exactly one request: none
\* leaks on a failure path, none is taken twice by the queued path (the defect
\* the comment at line 1126 describes), and release() never exceeds the bound.
PermitsConserved == permits + Cardinality(Holders) = Permits

\* A call waits in the executor's queue once, and only while its coroutine is
\* suspended on it: what a worker starts is always somebody's pending call.
CallsArePending == /\ \A i \in DOMAIN calls : pc[calls[i]] \in Queued
                   /\ \A i, j \in DOMAIN calls : calls[i] = calls[j] => i = j

\* "Beyond the limit requests queue up" (skill/drama_make_skill.py:1254): a
\* queued request is served in the end, and the one that holds a permit ends.
EveryRequestEnds == \A r \in Request : pc[r] # "new" ~> pc[r] = "done"
=============================================================================
