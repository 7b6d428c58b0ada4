----------------------------- MODULE TaskStore -----------------------------
(***************************************************************************)
(* The task records of DramaAgent: the working copies in task_store, the   *)
(* rows of the tasks table, and the coroutines that read one and write the *)
(* other.                                                                  *)
(*                                                                         *)
(* The Web process is one asyncio event loop.  A coroutine runs without    *)
(* interruption from one await to the next, so an action of this module is *)
(* the code between two awaits, and pc names the await a coroutine is      *)
(* suspended at.  DramaTask objects are shared by reference: task_store,   *)
(* the log sink, the pending log flushes and the suspended coroutines may  *)
(* hold different objects of one task, so the objects live in a heap.      *)
(* Publishing an event suspends nobody (no Redis bridge is attached in the *)
(* local mode), so it is part of the action that publishes.                *)
(***************************************************************************)
EXTENDS Naturals, FiniteSets

CONSTANTS Task,        \* task ids
          Parent,      \* Parent[t]: the series' root task of episode t, or None
          Segment,     \* the segments of a parsed script
          Object,      \* identities of DramaTask objects in the Web process
          Coroutine,   \* bound: requests and background tasks under way at once
          MaxRequests, \* bound: requests of the users
          MaxCrashes,  \* bound: restarts of the Web process
          UseCelery,   \* settings.use_celery
          Faults,      \* whether a database statement may fail
          BrokerFails, \* whether handing a job to the Celery queue may fail
          None

ASSUME ParentAssumption == Parent \in [Task -> Task \cup {None}]
ASSUME BoundAssumption == MaxRequests \in Nat /\ MaxCrashes \in Nat
ASSUME ModeAssumption == {UseCelery, Faults, BrokerFails} \subseteq BOOLEAN

VARIABLES row,        \* row[t]: the row of the tasks table, or None
          heap,       \* heap[o]: the contents of a DramaTask object, or None
          store,      \* store[t]: the object in task_store, or None
          sink,       \* sink[t]: the object the log sink is bound to, or None
          flush,      \* flush[t]: objects with a debounced log flush pending
          deleted,    \* _deleted_ids
          busy,       \* _busy
          co,         \* co[c]: the frame of coroutine c
          server,     \* "up", or the step of the startup that comes next
          crashes,    \* number of restarts so far
          requests,   \* number of requests so far
          born,       \* task ids handed out
          acked,      \* tasks whose submission was answered
          erased,     \* tasks somebody asked to delete, and their episodes
          announced   \* <<t, s>>: segment videos announced as "ok"

process == <<server, crashes, requests>>
ghost   == <<born, acked, erased, announced>>
vars    == <<row, heap, store, sink, flush, deleted, busy, co, process, ghost>>

-----------------------------------------------------------------------------
\* What matters of a task: its status and its script, of which: whether every
\* image is there, and which segments have a video.
Status  == {"pending", "generating_asset", "human_review", "generating_video", "done", "failed"}
Script  == [ready : BOOLEAN, videos : SUBSET Segment]
Content == [status : Status, script : Script \cup {None}]

ASSUME NoneAssumption == None \notin Task \cup Segment \cup Object \cup Script \cup Content

NewTask == [status |-> "pending", script |-> None]

\* The keys of _busy: an image's regeneration, a segment's video, composing.
Key == Segment \cup {"image", "compose"}

JobPC == {"job", "job_run", "job_persist", "job_persist_ok", "job_ok", "job_end", "job_refresh"}
PC    == JobPC \cup
         {"idle", "submit", "resubmit", "submitted", "parse", "parsed", "load", "loaded", "refresh",
          "retry", "retried", "reviewed", "redraw", "drawing", "edited", "advanced",
          "segment", "delete", "saving", "report", "flushed"}

ASSUME KeyAssumption == \A k \in {"image", "compose"} : k \notin Segment \cup {None}

\* A frame: the await it is suspended at, the task and object it works on, a
\* row or snapshot it took, its key in _busy, and where a save returns to.
Frame == [pc : PC, task : Task \cup {None}, obj : Object \cup {None},
          data : Content \cup {None}, key : Key \cup {None}, then : PC]

Await(pc, t, o, data, key, then) ==
  [pc |-> pc, task |-> t, obj |-> o, data |-> data, key |-> key, then |-> then]

Idle == Await("idle", None, None, None, None, "idle")

\* The coroutines that entered the section their key in _busy protects.
HoldsKey(f) == \/ f.pc \in JobPC \cup {"drawing"}
               \/ f.key = "image" /\ {f.pc, f.then} \cap {"edited", "advanced"} # {}

At(c, pc)  == co[c].pc = pc
IdleUp(c)  == server = "up" /\ co[c] = Idle
Ask(c)     == IdleUp(c) /\ requests < MaxRequests /\ requests' = requests + 1

\* A user knows of a task when its submission was answered, or from the list
\* of the rows.
AskAbout(c, t) == Ask(c) /\ (t \in acked \/ row[t] # None)

End(c)     == co' = [co EXCEPT ![c] = Idle]
Start(c, t, pc) == co' = [co EXCEPT ![c] = Await(pc, t, None, None, None, "idle")]
Goto(c, pc, data) ==
  co' = [co EXCEPT ![c] = Await(pc, co[c].task, co[c].obj, data, co[c].key, "idle")]

\* An object lives as long as something refers to it.
Live(o) == \/ \E t \in Task : store[t] = o \/ sink[t] = o \/ o \in flush[t]
           \/ \E c \in Coroutine : co[c].obj = o
Heap(h) == heap' = [o \in Object |-> IF Live(o)' THEN h[o] ELSE None]
Unused  == {o \in Object : heap[o] = None}

With(o, content) == [heap EXCEPT ![o] = content]
SetStatus(o, s)  == With(o, [status |-> s, script |-> heap[o].script])

\* An event with a message reaches the sink, which schedules a flush of the
\* object it is bound to, unless the task is marked as deleted.  The flush that
\* was pending is cancelled if its handle is still there: a cancelled flush
\* takes away the handle of its successor.
Log(t, s) ==
  IF s = None \/ t \in deleted THEN UNCHANGED flush
  ELSE \E old \in flush[t] \cup {None} : flush' = [flush EXCEPT ![t] = (@ \ {old}) \cup {s}]

-----------------------------------------------------------------------------
\* A slip: the mark of a deleted task is not looked at.
SaveUnmarked(c, t, o, h, marks, then) ==
  /\ co' = [co EXCEPT ![c] = Await("saving", t, o, h[o], co[c].key, then)]
  /\ store' = [store EXCEPT ![t] = o]

\* _save_task up to its first await: the mark is checked, task_store is set,
\* status and script are taken for the row.  A save of a deleted task has
\* nothing to write (data = None).
Save(c, t, o, h, marks, then) ==
  /\ co' = [co EXCEPT ![c] = Await("saving", t, o, IF t \in marks THEN None ELSE h[o],
                                    co[c].key, then)]
  /\ store' = IF t \in marks THEN store ELSE [store EXCEPT ![t] = o]

\* The database answers: update_task if the row exists, else create_task, whose
\* defaults stay if the update that follows fails.  An error is logged and
\* swallowed.  The save of a flush is lost when the flush is cancelled, which
\* only the scheduling of the next one does.
Commit(c) ==
  /\ At(c, "saving")
  /\ \/ row' = IF co[c].data = None THEN row
               ELSE [row EXCEPT ![co[c].task] = co[c].data]
     \/ /\ Faults \/ (co[c].then = "flushed" /\ flush[co[c].task] # {})
        /\ \/ row' = row
           \/ /\ co[c].data # None /\ row[co[c].task] = None
              /\ row' = [row EXCEPT ![co[c].task] = NewTask]
  /\ IF co[c].then \in {"idle", "flushed"} THEN End(c)
     ELSE Goto(c, co[c].then, None)
  /\ UNCHANGED <<store, sink, flush, deleted, busy, process, ghost>>
  /\ Heap(heap)

-----------------------------------------------------------------------------
\* submit_new_task and _run_initial_pipeline

HasScript(t) == store[t] # None /\ heap[store[t]].script # None

Episodes(t) == {e \in Task : Parent[e] = t}

\* An episode continues a task of its series that has a script; then the user's
\* channels (and for an episode the series' rows) are read.
Submit(c, t) ==
  /\ Ask(c)
  /\ t \notin born
  /\ Parent[t] # None => \E p \in {Parent[t]} \cup Episodes(Parent[t]) : HasScript(p)
  /\ born' = born \cup {t}
  /\ Start(c, t, "submit")
  /\ UNCHANGED <<row, heap, store, sink, flush, deleted, busy, server, crashes, acked, erased, announced>>

\* A slip: the task is registered in memory only, the parser will save it.
SubmitUnsaved(c) ==
  /\ At(c, "submit")
  /\ \E o \in Unused :
       /\ co' = [co EXCEPT ![c] = Await("submitted", co[c].task, o, None, None, "idle")]
       /\ store' = [store EXCEPT ![co[c].task] = o]
       /\ UNCHANGED <<row, sink, flush, deleted, busy, process, ghost>>
       /\ Heap(With(o, NewTask))

\* An episode took over the channels it continues with, and the user has changed
\* them since: _refresh_media_profile saves it a first time.
SubmitRefreshed(c) ==
  /\ At(c, "submit")
  /\ Parent[co[c].task] # None
  /\ \E o \in Unused :
       /\ Save(c, co[c].task, o, With(o, NewTask), deleted, "resubmit")
       /\ UNCHANGED <<row, sink, flush, deleted, busy, process, ghost>>
       /\ Heap(With(o, NewTask))

Resubmit(c) ==
  LET t == co[c].task IN
  /\ At(c, "resubmit")
  /\ Save(c, t, co[c].obj, heap, deleted \ {t}, "submitted")
  /\ deleted' = deleted \ {t}
  /\ UNCHANGED <<row, sink, flush, busy, process, ghost>>
  /\ Heap(heap)

SubmitSave(c) ==
  /\ At(c, "submit")
  /\ \E o \in Unused :
       /\ Save(c, co[c].task, o, With(o, NewTask), deleted \ {co[c].task}, "submitted")
       /\ deleted' = deleted \ {co[c].task}
       /\ UNCHANGED <<row, sink, flush, busy, process, ghost>>
       /\ Heap(With(o, NewTask))

\* The sink is bound, the request answered, the pipeline starts.  An episode
\* logs where it continues from.
Submitted(c) ==
  LET t == co[c].task IN
  /\ At(c, "submitted")
  /\ sink' = [sink EXCEPT ![t] = co[c].obj]
  /\ IF Parent[t] # None THEN Log(t, co[c].obj) ELSE UNCHANGED flush
  /\ acked' = acked \cup {t}
  /\ Goto(c, "parse", None)
  /\ UNCHANGED <<row, store, deleted, busy, process, born, erased, announced>>
  /\ Heap(heap)

\* What the parser makes of the prompt: no videos; only an episode can inherit
\* all its images.
Draft(t) == [ready : IF Parent[t] = None THEN {FALSE} ELSE BOOLEAN, videos : {{}}]

\* step1_parse_script succeeded.
ParseOk(c) ==
  LET t == co[c].task o == co[c].obj IN
  /\ At(c, "parse")
  /\ \E script \in Draft(t) :
       LET h == With(o, [status |-> "generating_asset", script |-> script])
       IN /\ Save(c, t, o, h, deleted, "parsed")
          /\ Log(t, sink[t])
          /\ UNCHANGED <<row, sink, deleted, busy, process, ghost>>
          /\ Heap(h)

\* It raised, perhaps when it checked the script it had just set.
ParseFail(c) ==
  LET t == co[c].task o == co[c].obj IN
  /\ At(c, "parse")
  /\ \E script \in {heap[o].script} \cup Draft(t) :
       LET h == With(o, [status |-> "failed", script |-> script])
       IN /\ Save(c, t, o, h, deleted, "report")
          /\ UNCHANGED <<row, sink, flush, deleted, busy, process, ghost>>
          /\ Heap(h)

\* The characters and scenes of the saved script are counted for a message.  A
\* retry that took the script away meanwhile makes this raise.
Parsed(c) ==
  LET t == co[c].task o == co[c].obj IN
  /\ At(c, "parsed")
  /\ \/ /\ heap[o].script # None
        /\ Log(t, sink[t])
        /\ End(c)
        /\ UNCHANGED <<row, store, sink, deleted, busy, process, ghost>>
        /\ Heap(heap)
     \/ /\ heap[o].script = None
        /\ Save(c, t, o, SetStatus(o, "failed"), deleted, "report")
        /\ UNCHANGED <<row, sink, flush, deleted, busy, process, ghost>>
        /\ Heap(SetStatus(o, "failed"))

\* What has been saved is reported, and the request or pipeline is over.
Report(c) ==
  /\ At(c, "report")
  /\ Log(co[c].task, sink[co[c].task])
  /\ End(c)
  /\ UNCHANGED <<row, store, sink, deleted, busy, process, ghost>>
  /\ Heap(heap)

-----------------------------------------------------------------------------
\* The log sink and load_task

\* A pipeline, an image or (in this process) a video reports progress.
Progress(c) ==
  LET t == co[c].task IN
  /\ At(c, "parse") \/ At(c, "drawing") \/ (At(c, "job_run") /\ ~UseCelery)
  /\ Log(t, sink[t])
  /\ UNCHANGED <<row, store, sink, deleted, busy, co, process, ghost>>
  /\ Heap(heap)

\* 0.8 s later: the object the sink was bound to is saved.
Flush(c, t, o) ==
  /\ IdleUp(c)
  /\ o \in flush[t]
  /\ flush' = [flush EXCEPT ![t] = @ \ {o}]
  /\ Save(c, t, o, heap, deleted, "flushed")
  /\ UNCHANGED <<row, sink, deleted, busy, process, ghost>>
  /\ Heap(heap)

\* load_task of a task that is not in memory: the row is read, an object built
\* from it and put into task_store, whatever happened there in between.
Load(c, t) ==
  /\ AskAbout(c, t)
  /\ store[t] = None
  /\ Start(c, t, "load")
  /\ UNCHANGED <<row, heap, store, sink, flush, deleted, busy, server, crashes, ghost>>

\* A slip: nobody looks whether a row was found.
LoadReadUnchecked(c) ==
  /\ At(c, "load")
  /\ Goto(c, "loaded", row[co[c].task])
  /\ UNCHANGED <<row, heap, store, sink, flush, deleted, busy, process, ghost>>

LoadRead(c) ==
  LET t == co[c].task IN
  /\ At(c, "load")
  /\ \/ row[t] # None /\ Goto(c, "loaded", row[t])
     \/ (row[t] = None \/ Faults) /\ End(c)
  /\ UNCHANGED <<row, heap, store, sink, flush, deleted, busy, process, ghost>>

LoadPut(c) ==
  LET t == co[c].task IN
  /\ At(c, "loaded")
  /\ \E o \in Unused :
       /\ store' = [store EXCEPT ![t] = o]
       /\ sink' = [sink EXCEPT ![t] = o]
       /\ End(c)
       /\ UNCHANGED <<row, flush, deleted, busy, process, ghost>>
       /\ Heap(With(o, co[c].data))

\* _refresh_media_profile, before a retry or a regeneration: the channels the
\* user configured are read, and the task saved if they changed.
Refresh(c, t, k, next) ==
  co' = [co EXCEPT ![c] = Await("refresh", t, store[t], None, k, next)]

Refreshed(c) ==
  LET f == co[c] IN
  /\ At(c, "refresh")
  /\ \/ /\ Goto(c, f.then, None)
        /\ UNCHANGED store
     \/ Save(c, f.task, f.obj, heap, deleted, f.then)
  /\ UNCHANGED <<row, sink, flush, deleted, busy, process, ghost>>
  /\ Heap(heap)

-----------------------------------------------------------------------------
\* retry_task

Retry(c, t) ==
  /\ AskAbout(c, t)
  /\ store[t] # None
  /\ heap[store[t]].status # "pending"
  /\ Refresh(c, t, None, "retry")
  /\ UNCHANGED <<row, heap, store, sink, flush, deleted, busy, server, crashes, ghost>>

\* The task starts over as if it had just been submitted.
RetryReset(c) ==
  LET t == co[c].task IN
  /\ At(c, "retry")
  /\ Save(c, t, co[c].obj, With(co[c].obj, NewTask), deleted \ {t}, "retried")
  /\ deleted' = deleted \ {t}
  /\ announced' = {a \in announced : a[1] # t}
  /\ UNCHANGED <<row, sink, flush, busy, process, born, acked, erased>>
  /\ Heap(With(co[c].obj, NewTask))

\* The progress stream is dropped, the sink bound again, the pipeline started.
Retried(c) ==
  LET t == co[c].task IN
  /\ At(c, "retried")
  /\ sink' = [sink EXCEPT ![t] = co[c].obj]
  /\ Log(t, co[c].obj)
  /\ Goto(c, "parse", None)
  /\ UNCHANGED <<row, store, deleted, busy, process, ghost>>
  /\ Heap(heap)

-----------------------------------------------------------------------------
\* human_review_handle and _run_video_pipeline

Ready(o, b)    == [ready |-> b, videos |-> heap[o].script.videos]
SetReady(o, b) == With(o, [status |-> heap[o].status, script |-> Ready(o, b)])

\* The user may have changed the characters, which nothing saves, and accepts or
\* not.  Accepting with an image missing only logs what is missing.
Review(c, t) ==
  LET o == store[t] IN
  /\ AskAbout(c, t)
  /\ HasScript(t)
  /\ UNCHANGED <<row, sink, deleted, busy, server, crashes, ghost>>
  /\ \/ LET h == With(o, [status |-> "generating_video", script |-> Ready(o, TRUE)])
        IN Save(c, t, o, h, deleted, "reviewed") /\ UNCHANGED flush /\ Heap(h)
     \/ UNCHANGED <<co, store>> /\ Log(t, sink[t]) /\ Heap(SetReady(o, FALSE))
     \/ UNCHANGED <<co, store, flush>> /\ \E b \in BOOLEAN : Heap(SetReady(o, b))

\* A slip: the stage is switched whatever the script.
StagedUnchecked(c) ==
  /\ At(c, "reviewed")
  /\ Save(c, co[c].task, co[c].obj, SetStatus(co[c].obj, "generating_video"), deleted, "idle")
  /\ UNCHANGED <<row, sink, flush, deleted, busy, process, ghost>>
  /\ Heap(SetStatus(co[c].obj, "generating_video"))

\* step3_after_human_review, in a task of its own.  If the script is gone by
\* then, reading its segments raises and the task fails.
Staged(c) ==
  LET t == co[c].task
      o == co[c].obj
      Go(s, then) == /\ Save(c, t, o, SetStatus(o, s), deleted, then)
                     /\ IF s = "failed" THEN UNCHANGED flush ELSE Log(t, sink[t])
                     /\ Heap(SetStatus(o, s)) IN
  /\ At(c, "reviewed")
  /\ UNCHANGED <<row, sink, deleted, busy, process, ghost>>
  /\ IF heap[o].script = None THEN Go("failed", "report") ELSE Go("generating_video", "idle")

-----------------------------------------------------------------------------
\* Images: replace_image, clear_image, regenerate of a character or a scene

\* An image is uploaded: perhaps the last one that was missing.
ReplaceImage(c, t) ==
  /\ AskAbout(c, t)
  /\ HasScript(t)
  /\ \E ready \in BOOLEAN :
       /\ Save(c, t, store[t], SetReady(store[t], ready), deleted, "edited")
       /\ Log(t, sink[t])
       /\ UNCHANGED <<row, sink, deleted, busy, server, crashes, ghost>>
       /\ Heap(SetReady(store[t], ready))

ClearImage(c, t) ==
  /\ AskAbout(c, t)
  /\ HasScript(t)
  /\ Save(c, t, store[t], SetReady(store[t], FALSE), deleted, "idle")
  /\ Log(t, sink[t])
  /\ UNCHANGED <<row, sink, deleted, busy, server, crashes, ghost>>
  /\ Heap(SetReady(store[t], FALSE))

\* update_script, update_character, update_scene, update_shot, update_audio_mode:
\* what they change is no part of the model, their save is.
Edit(c, t) ==
  /\ AskAbout(c, t)
  /\ store[t] # None
  /\ Save(c, t, store[t], heap, deleted, "report")
  /\ UNCHANGED <<row, sink, flush, deleted, busy, server, crashes, ghost>>
  /\ Heap(heap)

Regenerate(c, t, k) ==
  /\ AskAbout(c, t)
  /\ HasScript(t)
  /\ Refresh(c, t, k, IF k = "image" THEN "redraw" ELSE "segment")
  /\ UNCHANGED <<row, heap, store, sink, flush, deleted, busy, server, crashes, ghost>>

Lock(c) == busy' = busy \cup {<<co[c].task, co[c].key>>}
Unlock(c) == busy' = busy \ {<<co[c].task, co[c].key>>}
Locked(c) == <<co[c].task, co[c].key>> \in busy

Draw(c) ==
  /\ At(c, "redraw")
  /\ IF Locked(c) THEN End(c) /\ UNCHANGED busy
                  ELSE Goto(c, "drawing", None) /\ Lock(c)
  /\ UNCHANGED <<row, store, sink, flush, deleted, process, ghost>>
  /\ Heap(heap)

\* The image is there (redrawing a day image takes away the night image), or
\* the call raised, or the script is gone: the finally-block ends the request.
Drawn(c) ==
  LET t == co[c].task o == co[c].obj IN
  /\ At(c, "drawing")
  /\ \/ /\ heap[o].script # None
        /\ \E ready \in BOOLEAN :
             /\ Save(c, t, o, SetReady(o, ready), deleted, "edited")
             /\ UNCHANGED <<row, sink, deleted, busy, process, ghost>>
             /\ Log(t, sink[t])
             /\ Heap(SetReady(o, ready))
     \/ /\ End(c) /\ Unlock(c)
        /\ Log(t, sink[t])
        /\ UNCHANGED <<row, store, sink, deleted, process, ghost>>
        /\ Heap(heap)

\* A slip: the finally-block that frees the key is missing.
FinishLocked(c) == End(c) /\ UNCHANGED busy

\* The end of a request about images: a regeneration frees its key.
Finish(c) == /\ End(c)
             /\ IF co[c].key = "image" THEN Unlock(c) ELSE UNCHANGED busy

\* _maybe_advance_to_review: with all images there, the task goes to review.
Advance(c) ==
  LET t == co[c].task
      o == co[c].obj
      h == SetStatus(o, "human_review") IN
  /\ At(c, "edited")
  /\ IF /\ heap[o].status = "generating_asset"
        /\ heap[o].script # None
        /\ heap[o].script.ready
     THEN /\ Save(c, t, o, h, deleted, "advanced")
          /\ UNCHANGED <<row, sink, flush, deleted, busy, process, ghost>>
          /\ Heap(h)
     ELSE /\ Finish(c)
          /\ UNCHANGED <<row, store, sink, flush, deleted, process, ghost>>
          /\ Heap(heap)

Advanced(c) ==
  /\ At(c, "advanced")
  /\ Log(co[c].task, sink[co[c].task])
  /\ Finish(c)
  /\ UNCHANGED <<row, store, sink, deleted, process, ghost>>
  /\ Heap(heap)

-----------------------------------------------------------------------------
\* Videos: regenerate of a segment, compose_video, the dispatcher and the jobs

\* .delay() raises when the broker cannot be reached: the request fails after its
\* key was added to _busy, and nothing takes the key away before a restart.
BrokerDown == UseCelery /\ BrokerFails

\* In the Celery mode the key is given back once the job is in the queue.
LockForJob(c) == IF UseCelery THEN UNCHANGED busy ELSE Lock(c)

StartJob(c) == co' = [co EXCEPT ![c] = Await("job", co[c].task, None, None, co[c].key, "idle")]

\* A slip: the key is looked up before the channels are read, not after.
ScheduleSegmentUnchecked(c) ==
  /\ At(c, "segment")
  /\ StartJob(c) /\ LockForJob(c)
  /\ UNCHANGED <<row, store, sink, flush, deleted, process, ghost>>
  /\ Heap(heap)

ScheduleSegment(c) ==
  /\ At(c, "segment")
  /\ IF heap[co[c].obj].script = None \/ Locked(c)
     THEN End(c) /\ UNCHANGED busy
     ELSE \/ StartJob(c) /\ LockForJob(c)
          \/ BrokerDown /\ End(c) /\ Lock(c)
  /\ UNCHANGED <<row, store, sink, flush, deleted, process, ghost>>
  /\ Heap(heap)

\* The API asks for two videos, unless there is one segment only.
Compose(c, t) ==
  /\ AskAbout(c, t)
  /\ HasScript(t)
  /\ \/ Cardinality(Segment) = 1
     \/ Cardinality(heap[store[t]].script.videos) >= 2
  /\ <<t, "compose">> \notin busy
  /\ \/ /\ co' = [co EXCEPT ![c] = Await("job", t, None, None, "compose", "idle")]
        /\ IF UseCelery THEN UNCHANGED busy ELSE busy' = busy \cup {<<t, "compose">>}
     \/ BrokerDown /\ End(c) /\ busy' = busy \cup {<<t, "compose">>}
  /\ UNCHANGED <<row, heap, store, sink, flush, deleted, server, crashes, ghost>>

\* A job's messages reach the sink when it runs in the Web process.
JobLog(t) == IF UseCelery THEN UNCHANGED flush ELSE Log(t, sink[t])

\* A job that raised is over; Celery runs it once more (max_retries = 1, which the
\* model does not count).
JobRaised == {"job_end"} \cup (IF UseCelery THEN {"job"} ELSE {})

\* job_runner.load_task: a job works on a private copy of the row.
JobLoad(c) ==
  LET t == co[c].task
      found == row[t] # None /\ row[t].script # None IN
  /\ At(c, "job")
  /\ \/ /\ found
        /\ Goto(c, "job_run", row[t])
        /\ UNCHANGED flush
     \/ /\ Faults \/ ~found
        /\ \E pc \in JobRaised : Goto(c, pc, None)
        /\ JobLog(t)
  /\ UNCHANGED <<row, store, sink, deleted, busy, process, ghost>>
  /\ Heap(heap)

\* Minutes later: the video is there.  Composing all segments finishes the
\* task; there must be something to compose.
JobSucceeds(c) ==
  LET f == co[c]
      videos == f.data.script.videos IN
  /\ At(c, "job_run")
  /\ \/ /\ f.key = "compose"
        /\ videos = Segment \/ Cardinality(videos) >= 2
        /\ Goto(c, "job_persist",
                [status |-> IF videos = Segment THEN "done" ELSE f.data.status,
                 script |-> f.data.script])
     \/ /\ f.key # "compose"
        /\ Goto(c, "job_persist_ok",
                [status |-> f.data.status,
                 script |-> [ready |-> f.data.script.ready, videos |-> videos \cup {f.key}]])
  /\ UNCHANGED <<row, heap, store, sink, flush, deleted, busy, process, ghost>>

\* The provider failed: the copy is unchanged.
JobFails(c) ==
  /\ At(c, "job_run")
  /\ Goto(c, "job_persist", co[c].data)
  /\ UNCHANGED <<row, heap, store, sink, flush, deleted, busy, process, ghost>>

\* A slip: persist_task creates the row when it is missing.
JobPersistUpsert(c) ==
  /\ At(c, "job_persist") \/ At(c, "job_persist_ok")
  /\ row' = [row EXCEPT ![co[c].task] = co[c].data]
  /\ Goto(c, IF At(c, "job_persist_ok") THEN "job_ok" ELSE "job_end", None)
  /\ UNCHANGED <<heap, store, sink, flush, deleted, busy, process, ghost>>

\* persist_task: the whole copy is written over the row, if there is one.
JobPersist(c) ==
  LET t == co[c].task IN
  /\ At(c, "job_persist") \/ At(c, "job_persist_ok")
  /\ \/ /\ row' = IF row[t] = None THEN row ELSE [row EXCEPT ![t] = co[c].data]
        /\ Goto(c, IF At(c, "job_persist_ok") THEN "job_ok" ELSE "job_end", None)
        /\ UNCHANGED flush
     \/ /\ Faults
        /\ \E pc \in JobRaised : Goto(c, pc, None)
        /\ JobLog(t)
        /\ UNCHANGED row
  /\ UNCHANGED <<store, sink, deleted, busy, process, ghost>>
  /\ Heap(heap)

\* The segment's "ok" event, which tells the page to fetch the task again.
JobAnnounce(c) ==
  /\ At(c, "job_ok")
  /\ announced' = announced \cup {<<co[c].task, co[c].key>>}
  /\ Goto(c, "job_end", None)
  /\ UNCHANGED <<row, heap, store, sink, flush, deleted, busy, process, born, acked, erased>>

\* _after_job, in the local mode: the row is read ...
JobEnd(c) ==
  LET t == co[c].task IN
  /\ At(c, "job_end")
  /\ IF UseCelery THEN End(c)
     ELSE \E found \in {row[t]} \cup (IF Faults THEN {None} ELSE {}) :
            Goto(c, "job_refresh", found)
  /\ UNCHANGED <<row, heap, store, sink, flush, deleted, busy, process, ghost>>

\* ... and replaces the object in memory; the sink keeps the object it has.
JobRefresh(c) ==
  LET t == co[c].task IN
  /\ At(c, "job_refresh")
  /\ Unlock(c)
  /\ End(c)
  /\ UNCHANGED <<row, sink, flush, deleted, process, ghost>>
  /\ IF co[c].data = None
     THEN store' = [store EXCEPT ![t] = None] /\ Heap(heap)
     ELSE \E o \in Unused : /\ store' = [store EXCEPT ![t] = o]
                            /\ Heap(With(o, co[c].data))

\* A worker dies: its job is delivered again, for it is acknowledged late, or is
\* lost with the process that ran it.
WorkerDies(c) ==
  /\ UseCelery
  /\ co[c].pc \in JobPC \ {"job", "job_end"}
  /\ Goto(c, "job", None) \/ End(c)
  /\ UNCHANGED <<row, store, sink, flush, deleted, busy, process, ghost>>
  /\ Heap(heap)

-----------------------------------------------------------------------------
\* delete_task

Delete(c, t) ==
  /\ AskAbout(c, t)
  /\ store[t] # None
  /\ deleted' = deleted \cup {t}
  /\ store' = [store EXCEPT ![t] = None]
  /\ sink' = [sink EXCEPT ![t] = None]
  /\ busy' = {b \in busy : b[1] # t}
  /\ announced' = {a \in announced : a[1] # t}
  /\ erased' = erased \cup {t} \cup Episodes(t)
  /\ Start(c, t, "delete")
  /\ UNCHANGED <<row, flush, server, crashes, born, acked>>
  /\ Heap(heap)

\* The row and the rows of the series' episodes go in one transaction; if the
\* database fails, the mark is taken back.
DeleteRows(c) ==
  LET t == co[c].task IN
  /\ At(c, "delete")
  /\ \/ /\ row' = IF row[t] = None THEN row
                  ELSE [e \in Task |-> IF e \in {t} \cup Episodes(t) THEN None ELSE row[e]]
        /\ UNCHANGED deleted
     \/ Faults /\ deleted' = deleted \ {t} /\ UNCHANGED row
  /\ End(c)
  /\ UNCHANGED <<heap, store, sink, flush, busy, process, ghost>>

-----------------------------------------------------------------------------
\* Restart of the Web process: a Celery worker's jobs live on.

Crash ==
  /\ server = "up"
  /\ crashes < MaxCrashes
  /\ crashes' = crashes + 1
  /\ server' = "initialize"
  /\ store' = [t \in Task |-> None]
  /\ sink' = [t \in Task |-> None]
  /\ flush' = [t \in Task |-> {}]
  /\ deleted' = {}
  /\ busy' = {}
  /\ co' = [c \in Coroutine |-> IF UseCelery /\ co[c].pc \in JobPC THEN co[c] ELSE Idle]
  /\ heap' = [o \in Object |-> None]
  /\ UNCHANGED <<row, requests, ghost>>

Rows == {t \in Task : row[t] # None}
Injective(f) == \A s, t \in DOMAIN f : f[s] = f[t] => s = t

\* DramaAgent.initialize: every row becomes an object in memory, with a sink; a
\* row that cannot be read is skipped.
Initialize ==
  /\ server = "initialize"
  /\ server' = "reconcile"
  /\ \E loaded \in SUBSET Rows :
       /\ Faults \/ loaded = Rows
       /\ \E f \in {g \in [loaded -> Object] : Injective(g)} :
            /\ store' = [t \in Task |-> IF t \in loaded THEN f[t] ELSE None]
            /\ sink' = store'
            /\ heap' = [o \in Object |-> IF \E t \in loaded : f[t] = o
                                         THEN row[CHOOSE t \in loaded : f[t] = o] ELSE None]
  /\ UNCHANGED <<row, flush, deleted, busy, co, crashes, requests, ghost>>

\* reconcile_on_startup: what was being parsed is marked failed, in the table,
\* row by row; an error ends it, and is logged.
Reconcile ==
  /\ server = "reconcile"
  /\ server' = "up"
  /\ LET stuck == {t \in Rows : row[t].status = "pending"} IN
     \E marked \in SUBSET stuck :
       /\ Faults \/ marked = stuck
       /\ row' = [t \in Task |-> IF t \in marked
                                 THEN [status |-> "failed", script |-> row[t].script] ELSE row[t]]
  /\ UNCHANGED <<heap, store, sink, flush, deleted, busy, co, crashes, requests, ghost>>

-----------------------------------------------------------------------------
Init ==
  /\ row = [t \in Task |-> None]
  /\ heap = [o \in Object |-> None]
  /\ store = [t \in Task |-> None]
  /\ sink = [t \in Task |-> None]
  /\ flush = [t \in Task |-> {}]
  /\ deleted = {}
  /\ busy = {}
  /\ co = [c \in Coroutine |-> Idle]
  /\ server = "up"
  /\ crashes = 0 /\ requests = 0
  /\ born = {} /\ acked = {} /\ erased = {} /\ announced = {}

\* What users ask for.
UserRequest(c, t) ==
  \/ Submit(c, t) \/ Load(c, t) \/ Retry(c, t) \/ Review(c, t) \/ ReplaceImage(c, t)
  \/ ClearImage(c, t) \/ Edit(c, t) \/ \E k \in Segment \cup {"image"} : Regenerate(c, t, k)
  \/ Compose(c, t) \/ Delete(c, t)

\* What a coroutine does when its await is over.
Resume(c) ==
  \/ Commit(c) \/ SubmitSave(c) \/ SubmitRefreshed(c) \/ Resubmit(c) \/ Submitted(c)
  \/ ParseOk(c) \/ ParseFail(c) \/ Parsed(c) \/ Report(c)
  \/ LoadRead(c) \/ LoadPut(c) \/ Refreshed(c) \/ RetryReset(c) \/ Retried(c) \/ Staged(c)
  \/ Draw(c) \/ Drawn(c) \/ Advance(c) \/ Advanced(c) \/ ScheduleSegment(c)
  \/ JobLoad(c) \/ JobSucceeds(c) \/ JobFails(c) \/ JobPersist(c) \/ JobAnnounce(c)
  \/ JobEnd(c) \/ JobRefresh(c) \/ DeleteRows(c)

Restart == Crash \/ Initialize \/ Reconcile

Next == \/ \E c \in Coroutine, t \in Task : UserRequest(c, t)
        \/ \E c \in Coroutine, t \in Task, o \in Object : Flush(c, t, o)
        \/ \E c \in Coroutine : Resume(c) \/ Progress(c) \/ WorkerDies(c)
        \/ Restart

Spec == Init /\ [][Next]_vars

-----------------------------------------------------------------------------
ObjectOrNone == Object \cup {None}

\* What the frame of a coroutine holds at the await it is suspended at.
Objectless == JobPC \cup {"idle", "submit", "load", "loaded", "delete"}
FrameOK(f) ==
  /\ f.pc # "idle" => f.task \in Task
  /\ f.obj = None <=> f.pc \in Objectless
  /\ f.pc \notin {"saving", "refresh"} => f.then = "idle"
  /\ f.pc = "saving" => f.then \notin (Objectless \ {"idle"}) \cup {"saving", "refresh", "drawing"}
  /\ f.pc = "refresh" => f.then \in {"retry", "redraw", "segment"}
  /\ "segment" \in {f.pc, f.then} => f.key \in Segment
  /\ "redraw" \in {f.pc, f.then} \/ f.pc = "drawing" => f.key = "image"
  /\ f.pc \in JobPC => f.key \in Segment \cup {"compose"}
  /\ f.pc \in {"job_persist_ok", "job_ok"} => f.key \in Segment
  /\ f.pc \in {"loaded", "job_run", "job_persist", "job_persist_ok"} => f.data \in Content
  /\ f.pc \in {"job_run", "job_persist", "job_persist_ok"} => f.data.script # None

FramesOK == \A c \in Coroutine : FrameOK(co[c])

\* No reference dangles.
NoDangling == \A o \in Object : Live(o) => heap[o] # None

\* While the Web process starts, nothing is under way but the workers' jobs.
StartupQuiet == server # "up" =>
  /\ \A t \in Task : flush[t] = {}
  /\ \A c \in Coroutine : co[c].pc = "idle" \/ (UseCelery /\ co[c].pc \in JobPC)

Types ==
  /\ row \in [Task -> Content \cup {None}]
  /\ heap \in [Object -> Content \cup {None}]
  /\ store \in [Task -> ObjectOrNone] /\ sink \in [Task -> ObjectOrNone]
  /\ flush \in [Task -> SUBSET Object]
  /\ deleted \subseteq Task
  /\ busy \subseteq Task \X Key
  /\ co \in [Coroutine -> Frame]
  /\ server \in {"up", "initialize", "reconcile"}
  /\ crashes \in 0..MaxCrashes /\ requests \in 0..MaxRequests
  /\ born \subseteq Task /\ acked \subseteq Task /\ erased \subseteq Task
  /\ announced \subseteq Task \X Segment

\* Every variable has its type, every frame holds what its await needs and no
\* reference dangles, in particular while the process starts.
TypeOK == Types /\ FramesOK /\ NoDangling /\ StartupQuiet

\* A key in _busy always has a coroutine at work that will free it: no failure
\* path, early return, deletion or restart leaves a button blocked for good.  Of
\* the keys of videos and compositions this is false where the broker may fail
\* (see BrokerDown); the keys of images have holders even then.
KeysHaveHolders ==
  \A b \in busy : (BrokerDown => b[2] = "image") =>
    \E c \in Coroutine : HoldsKey(co[c]) /\ co[c].task = b[1] /\ co[c].key = b[2]

\* In the local mode a segment's video, an image or the composition is never
\* worked on twice at a time, unless the task was asked to be deleted (which
\* frees the keys of the work it leaves running).
NoDuplicateWork ==
  ~UseCelery => \A c, d \in Coroutine :
    /\ HoldsKey(co[c]) /\ HoldsKey(co[d])
    /\ co[c].task = co[d].task /\ co[c].key = co[d].key
    /\ co[c].task \notin erased
    => c = d

\* A submission that was answered survives a restart at any moment: as long as
\* the database works and nobody deletes it, the task has a row.
AckedTasksHaveRows == ~Faults => \A t \in acked \ erased : row[t] # None

\* In a stage that builds on the script there is a script, in memory, in the
\* table and in every copy under way: the handlers of these stages dereference
\* it without looking.
Staging == {"generating_asset", "human_review", "generating_video", "done"}
ScriptFor(content) == content # None /\ content.status \in Staging => content.script # None
StagesHaveScripts == /\ \A t \in Task : ScriptFor(row[t])
                     /\ \A o \in Object : ScriptFor(heap[o])
                     /\ \A c \in Coroutine : ScriptFor(co[c].data)

\* A task is dead when its row and its object in task_store are gone and nothing
\* under way can bring it back: its mark is set, or nobody in this process works
\* on it any more.  Deleting a series does not make an episode dead that is still
\* in task_store: only the root is marked and taken out, and the next save of the
\* episode, a pending log flush for one, creates its row again.
Dead(t) ==
  /\ t \in born /\ row[t] = None /\ store[t] = None
  /\ \A c \in Coroutine : co[c].task = t =>
       /\ co[c].pc \notin {"submit", "resubmit", "loaded", "retry", "delete"}
       /\ co[c].then \notin {"resubmit", "retry"}
       /\ co[c].pc \in {"saving", "job_refresh"} => co[c].data = None
  /\ \/ t \in deleted
     \/ /\ flush[t] = {} /\ sink[t] = None
        /\ \A c \in Coroutine : co[c].task = t => co[c].pc \in JobPC \cup {"load"}

\* A dead task stays dead: no pipeline, job, Celery worker, pending log flush,
\* late request or restart that outlives its deletion brings the row back.
DeadStaysDead == [][\A t \in Task : Dead(t) => Dead(t)']_vars

\* A segment video that was announced can be read from the task's row.
AnnouncedIsStored == \A a \in announced : row[a[1]] # None =>
                        row[a[1]].script # None /\ a[2] \in row[a[1]].script.videos

\* A task shown as pending is being parsed.
PendingIsParsed ==
  server = "up" => \A t \in Task :
    store[t] # None /\ heap[store[t]].status = "pending" =>
      \E c \in Coroutine : co[c].task = t /\ co[c].pc # "idle"
=============================================================================
