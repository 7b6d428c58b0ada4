-------------------------- MODULE TaskStore_proof --------------------------
(***************************************************************************)
(* Proofs about TaskStore, for every set of tasks, segments, objects and   *)
(* coroutines, every bound, both modes and with or without faults.         *)
(***************************************************************************)
EXTENDS TaskStore, TLAPS

USE NoneAssumption

-----------------------------------------------------------------------------
\* A coroutine reaches its next await, a proper frame f, and refers to nothing
\* but o and what was referred to before; h are the contents after the step.
References(o) ==
  /\ store' \in [Task -> ObjectOrNone] /\ sink' \in [Task -> ObjectOrNone]
  /\ flush' \in [Task -> SUBSET Object]
  /\ \A t \in Task : /\ store'[t] \in {store[t], None, o}
                     /\ sink'[t] \in {sink[t], None, o}
                     /\ flush'[t] \subseteq flush[t] \cup {sink[t], o}

Contents(o, h) == /\ h \in [Object -> Content \cup {None}]
                  /\ \A p \in Object : Live(p) \/ p = o => h[p] # None
                  /\ \A p \in Object : Live(p)' => heap'[p] = h[p]
                  /\ heap' \in [Object -> Content \cup {None}]

Moves(c, f, o) ==
  /\ co' = [co EXCEPT ![c] = f]
  /\ f \in Frame /\ FrameOK(f) /\ f.obj \in {None, co[c].obj, o}
  /\ server' = server
  /\ server = "up" \/ (flush' = flush /\ (f.pc = "idle" \/ (UseCelery /\ f.pc \in JobPC)))

Kept == /\ co' \in [Coroutine -> Frame]
        /\ FramesOK' /\ NoDangling' /\ StartupQuiet'

LEMMA StepKeepsTypes ==
  ASSUME TypeOK, NEW c \in Coroutine, NEW f, NEW o \in ObjectOrNone, NEW h,
         Moves(c, f, o), References(o), Contents(o, h)
  PROVE  Kept
<1>1. co' \in [Coroutine -> Frame]
  BY DEF TypeOK, Types, Moves
<1>2. FramesOK'
  BY DEF FramesOK, TypeOK, Types, Moves
<1>3. NoDangling'
  <2> SUFFICES ASSUME NEW p \in Object, Live(p)' PROVE heap'[p] # None
    BY DEF NoDangling
  <2>1. p # None
    OBVIOUS
  <2>2. ASSUME NEW t \in Task, store'[t] = p \/ sink'[t] = p \/ p \in flush'[t]
        PROVE  Live(p) \/ p = o
    BY <2>1, <2>2 DEF Live, References
  <2>3. ASSUME NEW d \in Coroutine, co'[d].obj = p
        PROVE  Live(p) \/ p = o
    BY <2>1, <2>3 DEF Live, TypeOK, Types, Moves
  <2>4. Live(p) \/ p = o
    BY <2>2, <2>3 DEF Live
  <2> QED BY <2>4 DEF Contents
<1>4. StartupQuiet'
  BY DEF StartupQuiet, TypeOK, Types, Moves
<1> QED BY <1>1, <1>2, <1>3, <1>4 DEF Kept

\* What lives has contents.
LEMMA LiveContents ==
  ASSUME TypeOK
  PROVE  /\ heap \in [Object -> Content \cup {None}]
         /\ \A o \in Object : Live(o) => heap[o] \in Content
         /\ \A t \in Task : /\ store[t] # None => store[t] \in Object /\ Live(store[t])
                            /\ sink[t] # None => sink[t] \in Object /\ Live(sink[t])
                            /\ \A o \in flush[t] : o \in Object /\ Live(o)
         /\ \A c \in Coroutine : co[c].obj # None => co[c].obj \in Object /\ Live(co[c].obj)
BY DEF TypeOK, Types, NoDangling, Live, ObjectOrNone, Frame

\* The contents are those of the heap, or the heap with one object written.
LEMMA HeapContents ==
  ASSUME TypeOK
  PROVE  /\ \A o \in ObjectOrNone : (o = None \/ Live(o)) /\ (Heap(heap) \/ heap' = heap)
                                    => Contents(o, heap)
         /\ \A o \in Object, x \in Content : Heap(With(o, x)) => Contents(o, With(o, x))
BY DEF Heap, With, Contents, TypeOK, Types, NoDangling, ObjectOrNone

\* Logging schedules at most a flush of the object in the sink.
LEMMA LogKeepsTypes ==
  ASSUME TypeOK, NEW t \in Task, NEW s \in ObjectOrNone, Log(t, s)
  PROVE  /\ flush' \in [Task -> SUBSET Object]
         /\ \A u \in Task : flush'[u] \subseteq flush[u] \cup (IF u = t THEN {s} ELSE {})
BY DEF Log, TypeOK, Types, ObjectOrNone

\* Contents are made of a status and a script.
LEMMA ContentTypes ==
  /\ NewTask \in Content
  /\ \A s \in Status, d \in Script \cup {None} : [status |-> s, script |-> d] \in Content
  /\ \A x \in Content : x.status \in Status /\ x.script \in Script \cup {None}
  /\ \A b \in BOOLEAN, v \in SUBSET Segment : [ready |-> b, videos |-> v] \in Script
  /\ \A d \in Script : d.ready \in BOOLEAN /\ d.videos \in SUBSET Segment
BY DEF NewTask, Content, Script, Status

\* A step that schedules no flush but of an object in a sink.
Flushes == /\ flush' \in [Task -> SUBSET Object]
           /\ \A u \in Task : flush'[u] \subseteq flush[u] \cup {sink[u]}

LEMMA LogFlushes ==
  ASSUME TypeOK, flush' = flush \/ \E t \in Task : Log(t, sink[t])
  PROVE  Flushes
<1>1. \A t \in Task : sink[t] \in ObjectOrNone
  BY DEF TypeOK, Types
<1>2. CASE flush' = flush
  BY <1>2 DEF Flushes, TypeOK, Types
<1>3. CASE \E t \in Task : Log(t, sink[t])
  BY <1>1, <1>3, LogKeepsTypes DEF Flushes
<1> QED BY <1>2, <1>3

\* Where a save may return to.
Returns(c, then) ==
  /\ then \in PC /\ then \notin (Objectless \ {"idle"}) \cup {"saving", "refresh", "drawing"}
  /\ then = "segment" => co[c].key \in Segment
  /\ then = "redraw" => co[c].key = "image"

\* _save_task, up to its first await: a step to a frame that waits in it.
SaveStep(c, t, o, h, marks, then) ==
  /\ Save(c, t, o, h, marks, then) /\ h[o] \in Content
  /\ Returns(c, then)
  /\ server = "up" /\ server' = server /\ sink' = sink
  /\ Flushes

LEMMA SaveKeepsTypes ==
  ASSUME TypeOK, NEW c \in Coroutine, NEW t \in Task, NEW o \in Object, NEW h, NEW marks, NEW then,
         SaveStep(c, t, o, h, marks, then)
  PROVE  \E f : Moves(c, f, o) /\ References(o)
<1> DEFINE f == Await("saving", t, o, IF t \in marks THEN None ELSE h[o], co[c].key, then)
<1>1. f \in Frame /\ f.pc = "saving" /\ f.obj = o
  BY DEF TypeOK, Types, Frame, Await, PC, JobPC, SaveStep, Returns
<1>2. FrameOK(f)
  BY DEF FrameOK, Await, Objectless, JobPC, SaveStep, Returns
<1>3. co' = [co EXCEPT ![c] = f]
  BY DEF Save, SaveStep
<1>4. References(o)
  BY DEF References, Save, SaveStep, Flushes, TypeOK, Types, ObjectOrNone
<1> HIDE DEF f
<1>5. Moves(c, f, o)
  BY <1>1, <1>2, <1>3 DEF Moves, SaveStep
<1> QED BY <1>4, <1>5

\* The variables that hold no frames and no references.
Plain ==
  /\ row \in [Task -> Content \cup {None}]
  /\ deleted \subseteq Task
  /\ busy \subseteq Task \X Key
  /\ server \in {"up", "initialize", "reconcile"}
  /\ crashes \in 0..MaxCrashes /\ requests \in 0..MaxRequests
  /\ born \subseteq Task /\ acked \subseteq Task /\ erased \subseteq Task
  /\ announced \subseteq Task \X Segment

\* A request of a user changes none of them but what it says; nor do most steps.
LEMMA PlainRequest ==
  ASSUME TypeOK, NEW c \in Coroutine, Ask(c)
  PROVE  server = "up" /\ requests' \in 0..MaxRequests
BY BoundAssumption DEF Ask, IdleUp, TypeOK, Types

LEMMA PlainStep ==
  ASSUME TypeOK, UNCHANGED <<deleted, process>>, row' = row \/ row' \in [Task -> Content \cup {None}],
         busy' = busy \/ busy' \subseteq Task \X Key, 
         born' = born, acked' = acked \/ acked' \subseteq Task, erased' = erased,
         announced' = announced \/ announced' \subseteq Task \X Segment
  PROVE  Plain'
BY DEF Plain, TypeOK, Types, process

LEMMA StepTypes ==
  ASSUME TypeOK, NEW c \in Coroutine, NEW f, NEW o \in ObjectOrNone, NEW h,
         Moves(c, f, o), References(o), Contents(o, h), Plain'
  PROVE  TypeOK'
<1>1. Kept
  BY StepKeepsTypes
<1> QED BY <1>1 DEF Kept, References, Contents, Plain, TypeOK, Types

LEMMA SaveTypes ==
  ASSUME TypeOK, NEW c \in Coroutine, NEW t \in Task, NEW o \in Object, NEW h, NEW marks, NEW then,
         SaveStep(c, t, o, h, marks, then), Contents(o, h), Plain'
  PROVE  TypeOK'
<1>1. PICK f : Moves(c, f, o) /\ References(o)
  BY SaveKeepsTypes
<1> QED BY <1>1, StepTypes DEF ObjectOrNone

\* Only Celery jobs are under way while the process starts.
LEMMA UpWhileBusy ==
  ASSUME TypeOK, NEW c \in Coroutine, co[c].pc # "idle", co[c].pc \notin JobPC \/ ~UseCelery
  PROVE  server = "up"
BY DEF TypeOK, StartupQuiet, Types

LEMMA EndMoves ==
  ASSUME TypeOK, NEW c \in Coroutine, End(c), server' = server, server = "up" \/ flush' = flush
  PROVE  Moves(c, Idle, None)
BY DEF Moves, End, Idle, Await, Frame, PC, JobPC, FrameOK, Objectless

\* Steps that leave every reference alone, or log to the object in the sink.
LEMMA SameReferences ==
  ASSUME TypeOK, store' = store, sink' = sink,
         flush' = flush \/ \E t \in Task : Log(t, sink[t])
  PROVE  References(None)
<1>1. Flushes
  BY LogFlushes
<1> QED BY <1>1 DEF Flushes, References, TypeOK, Types

LEMMA QuietStep ==
  ASSUME TypeOK, NEW c \in Coroutine, NEW f, NEW o \in ObjectOrNone, o = None \/ Live(o),
         Moves(c, f, o), store' = store, sink' = sink,
         flush' = flush \/ \E t \in Task : Log(t, sink[t]),
         heap' = heap \/ Heap(heap), Plain'
  PROVE  TypeOK'
<1>1. References(o)
  BY SameReferences DEF References
<1>2. Contents(o, heap)
  BY HeapContents DEF Contents, ObjectOrNone
<1> QED BY <1>1, <1>2, StepTypes

\* A save of an object that was just written, and of one that was not.
LEMMA SaveWritten ==
  ASSUME TypeOK, NEW c \in Coroutine, NEW t \in Task, NEW o \in Object, NEW x \in Content,
         NEW marks, NEW then, Save(c, t, o, With(o, x), marks, then), Heap(With(o, x)),
         Returns(c, then), server = "up", server' = server, sink' = sink,
         flush' = flush \/ \E u \in Task : Log(u, sink[u]), Plain'
  PROVE  TypeOK'
<1> DEFINE h == With(o, x)
<1>1. h[o] \in Content
  BY DEF With, TypeOK, Types
<1>2. Contents(o, h) /\ Flushes
  BY HeapContents, LogFlushes
<1> HIDE DEF h
<1>3. Save(c, t, o, h, marks, then)
  BY DEF h
<1> QED BY <1>1, <1>2, <1>3, SaveTypes DEF SaveStep

LEMMA SaveUnwritten ==
  ASSUME TypeOK, NEW c \in Coroutine, NEW t \in Task, NEW o \in Object, Live(o),
         NEW marks, NEW then, Save(c, t, o, heap, marks, then), Heap(heap),
         Returns(c, then), server = "up", server' = server, sink' = sink, Flushes, Plain'
  PROVE  TypeOK'
<1>1. heap[o] \in Content /\ Contents(o, heap)
  BY HeapContents, LiveContents DEF ObjectOrNone
<1> QED BY <1>1, SaveTypes DEF SaveStep

-----------------------------------------------------------------------------
\* One lemma per action: what the coroutine's next frame is, what it refers
\* to, and that the plain variables keep their types.
LEMMA CommitTypes == ASSUME TypeOK, NEW c \in Coroutine, Commit(c) PROVE TypeOK'
<1> DEFINE f == IF co[c].then \in {"idle", "flushed"} THEN Idle
                ELSE Await(co[c].then, co[c].task, co[c].obj, None, co[c].key, "idle")
<1>1. f \in Frame /\ f.obj \in {None, co[c].obj}
  BY DEF TypeOK, Types, Frame, Await, Idle, PC, JobPC
<1>2. FrameOK(f)
  BY DEF FrameOK, Await, Idle, Objectless, JobPC, TypeOK, FramesOK, Commit, At
<1>3. co' = [co EXCEPT ![c] = f]
  BY DEF Commit, End, Goto
<1>4. server = "up"
  BY DEF TypeOK, StartupQuiet, Types, Commit, At, JobPC
<1>5. row' \in [Task -> Content \cup {None}]
  BY ContentTypes DEF Commit, TypeOK, Types, Frame
<1> HIDE DEF f
<1>6. Moves(c, f, None)
  BY <1>1, <1>2, <1>3, <1>4 DEF Moves, Commit, process
<1>7. References(None)
  BY DEF References, Commit, TypeOK, Types
<1>8. Contents(None, heap)
  BY HeapContents DEF ObjectOrNone, Commit
<1>9. Kept
  BY <1>6, <1>7, <1>8, StepKeepsTypes DEF ObjectOrNone
<1> QED BY <1>5, <1>7, <1>8, <1>9 DEF Commit, TypeOK, Types, process, ghost, Kept, Contents, References

LEMMA DeleteTypes == ASSUME TypeOK, NEW c \in Coroutine, NEW t \in Task, Delete(c, t) PROVE TypeOK'
<1> DEFINE f == Await("delete", t, None, None, None, "idle")
<1>1. Moves(c, f, None)
  BY DEF Moves, Delete, Start, AskAbout, Ask, IdleUp, Await, Frame, PC, JobPC, FrameOK, Objectless
<1>2. References(None)
  BY DEF References, Delete, TypeOK, Types, ObjectOrNone
<1>3. Contents(None, heap)
  BY HeapContents DEF ObjectOrNone, Delete
<1>4. Plain'
  BY PlainRequest DEF Plain, Delete, Episodes, AskAbout, TypeOK, Types, ghost, Key
<1> HIDE DEF f
<1> QED BY <1>1, <1>2, <1>3, <1>4, StepTypes DEF ObjectOrNone

\* The requests that save nothing.
LEMMA SubmitTypes == ASSUME TypeOK, NEW c \in Coroutine, NEW t \in Task, Submit(c, t) PROVE TypeOK'
<1> DEFINE f == Await("submit", t, None, None, None, "idle")
<1>1. Moves(c, f, None)
  BY DEF Moves, Submit, Start, AskAbout, Ask, IdleUp, Await, Idle, Frame, PC, JobPC, FrameOK, Objectless
<1>2. Plain'
  BY PlainRequest DEF Plain, Submit, AskAbout, TypeOK, Types, ghost, Key
<1> HIDE DEF f
<1> QED BY <1>1, <1>2, QuietStep DEF Submit, ObjectOrNone

LEMMA LoadTypes == ASSUME TypeOK, NEW c \in Coroutine, NEW t \in Task, Load(c, t) PROVE TypeOK'
<1> DEFINE f == Await("load", t, None, None, None, "idle")
<1>1. Moves(c, f, None)
  BY DEF Moves, Load, Start, AskAbout, Ask, IdleUp, Await, Idle, Frame, PC, JobPC, FrameOK, Objectless
<1>2. Plain'
  BY PlainRequest DEF Plain, Load, AskAbout, TypeOK, Types, ghost, Key
<1> HIDE DEF f
<1> QED BY <1>1, <1>2, QuietStep DEF Load, ObjectOrNone

LEMMA ComposeTypes == ASSUME TypeOK, NEW c \in Coroutine, NEW t \in Task, Compose(c, t)
  PROVE TypeOK'
<1> DEFINE f == IF End(c) THEN Idle ELSE Await("job", t, None, None, "compose", "idle")
<1>1. Moves(c, f, None)
  BY DEF Moves, Compose, End, HasScript, Key, AskAbout, Ask, IdleUp, Await, Idle, Frame, PC, JobPC,
     FrameOK, Objectless
<1>2. Plain'
  BY PlainRequest DEF Plain, Compose, AskAbout, TypeOK, Types, ghost, Key
<1> HIDE DEF f
<1> QED BY <1>1, <1>2, QuietStep DEF Compose, ObjectOrNone

LEMMA RetryTypes == ASSUME TypeOK, NEW c \in Coroutine, NEW t \in Task, Retry(c, t) PROVE TypeOK'
<1> DEFINE f == Await("refresh", t, store[t], None, None, "retry")
<1>1. Moves(c, f, store[t])
  BY DEF Moves, Retry, Refresh, TypeOK, Types, ObjectOrNone, AskAbout, Ask, IdleUp, Await, Idle,
     Frame, PC, JobPC, FrameOK, Objectless
<1>2. Plain'
  BY PlainRequest DEF Plain, Retry, AskAbout, TypeOK, Types, ghost, Key
<1> HIDE DEF f
<1> QED BY <1>1, <1>2, QuietStep, LiveContents DEF Retry, ObjectOrNone, HasScript

LEMMA RegenerateTypes == ASSUME TypeOK, NEW c \in Coroutine, NEW t \in Task,
                                NEW k \in Segment \cup {"image"}, Regenerate(c, t, k)
  PROVE TypeOK'
<1> DEFINE f == Await("refresh", t, store[t], None, k, IF k = "image" THEN "redraw" ELSE "segment")
<1>1. Moves(c, f, store[t])
  BY DEF Moves, Regenerate, Refresh, HasScript, Key, TypeOK, Types, ObjectOrNone, AskAbout, Ask,
     IdleUp, Await, Idle, Frame, PC, JobPC, FrameOK, Objectless
<1>2. Plain'
  BY PlainRequest DEF Plain, Regenerate, AskAbout, TypeOK, Types, ghost, Key
<1> HIDE DEF f
<1> QED BY <1>1, <1>2, QuietStep, LiveContents DEF Regenerate, ObjectOrNone, HasScript

LEMMA LoadReadTypes == ASSUME TypeOK, NEW c \in Coroutine, LoadRead(c) PROVE TypeOK'
<1> DEFINE found == row[co[c].task]
           f == IF found # None /\ co' # [co EXCEPT ![c] = Idle]
                THEN Await("loaded", co[c].task, co[c].obj, found, co[c].key, "idle") ELSE Idle
<1>1. Moves(c, f, None)
  BY UpWhileBusy DEF Moves, LoadRead, Goto, End, process, At, TypeOK, Types, FramesOK, Await, Idle,
     Frame, PC, JobPC, FrameOK, Objectless
<1>2. Plain'
  BY PlainStep DEF ghost, LoadRead
<1> HIDE DEF f
<1> QED BY <1>1, <1>2, QuietStep DEF LoadRead, ObjectOrNone

LEMMA DrawTypes == ASSUME TypeOK, NEW c \in Coroutine, Draw(c) PROVE TypeOK'
<1> DEFINE f == IF Locked(c) THEN Idle
                ELSE Await("drawing", co[c].task, co[c].obj, None, co[c].key, "idle")
<1>1. Moves(c, f, None)
  BY UpWhileBusy DEF Moves, Draw, Goto, End, process, At, TypeOK, Types, FramesOK, Await, Idle,
     Frame, PC, JobPC, FrameOK, Objectless
<1>2. Plain'
  BY PlainStep DEF ghost, Draw, Lock, At, Key, TypeOK, Types, FramesOK, FrameOK
<1> HIDE DEF f
<1> QED BY <1>1, <1>2, QuietStep DEF Draw, ObjectOrNone

LEMMA ScheduleSegmentTypes == ASSUME TypeOK, NEW c \in Coroutine, ScheduleSegment(c) PROVE TypeOK'
<1> DEFINE f == IF End(c) THEN Idle ELSE Await("job", co[c].task, None, None, co[c].key, "idle")
<1>1. Moves(c, f, None)
  BY UpWhileBusy DEF Moves, ScheduleSegment, StartJob, End, process, At, TypeOK, Types, FramesOK,
     Await, Idle, Frame, PC, JobPC, FrameOK, Objectless
<1>2. Plain'
  BY PlainStep DEF ghost, ScheduleSegment, LockForJob, Lock, At, Key, TypeOK, Types, FramesOK, FrameOK
<1> HIDE DEF f
<1> QED BY <1>1, <1>2, QuietStep DEF ScheduleSegment, ObjectOrNone

\* A job goes on to its next await.
LEMMA JobMoves ==
  ASSUME TypeOK, NEW c \in Coroutine, co[c].pc \in JobPC, NEW pc \in JobPC, NEW data,
         Goto(c, pc, data), data \in Content \cup {None},
         pc \in {"job_persist_ok", "job_ok"} => co[c].key \in Segment,
         pc \in {"job_run", "job_persist", "job_persist_ok"} => data \in Content /\ data.script # None,
         server' = server, flush' = flush \/ ~UseCelery
  PROVE  \E f : Moves(c, f, None)
<1> DEFINE f == Await(pc, co[c].task, co[c].obj, data, co[c].key, "idle")
<1>1. co[c] \in Frame /\ FrameOK(co[c])
  BY DEF TypeOK, Types, FramesOK
<1>2. f \in Frame /\ f.obj = co[c].obj /\ f.pc = pc
  BY <1>1 DEF Await, Frame, PC, JobPC
<1>3. FrameOK(f)
  BY <1>1 DEF Await, FrameOK, JobPC, Objectless
<1>4. co' = [co EXCEPT ![c] = f]
  BY DEF Goto
<1>5. server = "up" \/ (flush' = flush /\ UseCelery)
  BY UpWhileBusy, ModeAssumption DEF JobPC
<1> HIDE DEF f
<1> QED BY <1>2, <1>3, <1>4, <1>5 DEF Moves

LEMMA JobTypes ==
  ASSUME TypeOK, NEW c \in Coroutine, co[c].pc \in JobPC, NEW f, Moves(c, f, None),
         UNCHANGED <<store, sink>>, flush' = flush \/ JobLog(co[c].task),
         heap' = heap \/ Heap(heap), Plain'
  PROVE  TypeOK'
<1>1. co[c].task \in Task
  BY DEF TypeOK, FramesOK, FrameOK, JobPC
<1> QED BY <1>1, QuietStep DEF JobLog, ObjectOrNone

LEMMA JobLoadTypes == ASSUME TypeOK, NEW c \in Coroutine, JobLoad(c) PROVE TypeOK'
<1>1. co[c].pc \in JobPC /\ co[c] \in Frame /\ FrameOK(co[c])
  BY DEF JobLoad, At, JobPC, TypeOK, Types, FramesOK
<1>2. PICK f : Moves(c, f, None)
  <2>1. row[co[c].task] \in Content \cup {None}
    BY <1>1 DEF FrameOK, JobPC, TypeOK, Types
  <2>2. server' = server
    BY DEF JobLoad, process
  <2>3. CASE Goto(c, "job_run", row[co[c].task]) /\ UNCHANGED flush /\ row[co[c].task] # None
             /\ row[co[c].task].script # None
    BY <1>1, <2>1, <2>2, <2>3, JobMoves DEF JobPC
  <2>4. ASSUME NEW pc \in JobRaised, Goto(c, pc, None), JobLog(co[c].task) PROVE \E f : Moves(c, f, None)
    BY <1>1, <2>2, <2>4, JobMoves DEF JobPC, JobLog, JobRaised
  <2> QED BY <2>3, <2>4 DEF JobLoad
<1>3. Plain'
  BY <1>1, PlainStep DEF JobLoad, ghost
<1> QED BY <1>1, <1>2, <1>3, JobTypes DEF JobLoad

LEMMA JobSucceedsTypes == ASSUME TypeOK, NEW c \in Coroutine, JobSucceeds(c) PROVE TypeOK'
<1>1. co[c].pc \in JobPC /\ co[c] \in Frame /\ FrameOK(co[c])
  BY DEF JobSucceeds, At, JobPC, TypeOK, Types, FramesOK
<1>2. PICK f : Moves(c, f, None)
  <2> DEFINE d == co[c].data
  <2>1. d \in Content /\ d.script \in Script /\ d.status \in Status
    BY <1>1 DEF JobSucceeds, At, FrameOK, Content
  <2>2. CASE co[c].key = "compose"
    <3> DEFINE e == [status |-> IF d.script.videos = Segment THEN "done" ELSE d.status,
                     script |-> d.script]
    <3>1. e \in Content /\ e.script # None
      BY <2>1 DEF Content, Status
    <3> HIDE DEF e
    <3> QED BY <1>1, <2>1, <2>2, <3>1, JobMoves DEF JobSucceeds, JobPC, process, e
  <2>3. CASE co[c].key # "compose"
    <3> DEFINE e == [status |-> d.status,
                     script |-> [ready |-> d.script.ready, videos |-> d.script.videos \cup {co[c].key}]]
    <3>1. co[c].key \in Segment
      BY <1>1, <2>3 DEF FrameOK
    <3>2. e \in Content /\ e.script # None
      BY <2>1, <3>1 DEF Content, Script
    <3>3. Goto(c, "job_persist_ok", e)
      BY <2>3 DEF JobSucceeds
    <3> HIDE DEF e
    <3> QED BY <1>1, <3>1, <3>2, <3>3, JobMoves DEF JobSucceeds, JobPC, process
  <2> QED BY <2>2, <2>3
<1>3. Plain'
  BY <1>1, PlainStep DEF JobSucceeds, ghost
<1> QED BY <1>1, <1>2, <1>3, JobTypes DEF JobSucceeds

LEMMA JobFailsTypes == ASSUME TypeOK, NEW c \in Coroutine, JobFails(c) PROVE TypeOK'
<1>1. co[c].pc \in JobPC /\ co[c] \in Frame /\ FrameOK(co[c])
  BY DEF JobFails, At, JobPC, TypeOK, Types, FramesOK
<1>2. PICK f : Moves(c, f, None)
  BY <1>1, JobMoves DEF JobFails, JobPC, At, FrameOK, process
<1>3. Plain'
  BY <1>1, PlainStep DEF JobFails, ghost
<1> QED BY <1>1, <1>2, <1>3, JobTypes DEF JobFails

LEMMA JobPersistTypes == ASSUME TypeOK, NEW c \in Coroutine, JobPersist(c) PROVE TypeOK'
<1>1. co[c].pc \in JobPC /\ co[c] \in Frame /\ FrameOK(co[c])
  BY DEF JobPersist, At, JobPC, TypeOK, Types, FramesOK
<1>2. PICK f : Moves(c, f, None)
  <2>1. PICK pc \in {"job", "job_ok", "job_end"} :
          /\ Goto(c, pc, None)
          /\ pc = "job_ok" => At(c, "job_persist_ok")
          /\ flush' = flush \/ ~UseCelery
    BY DEF JobPersist, JobLog, JobRaised
  <2> QED BY <1>1, <2>1, JobMoves DEF JobPersist, JobPC, At, FrameOK, process
<1>3. Plain'
  BY <1>1, PlainStep DEF JobPersist, ghost, At, FrameOK, TypeOK, Types
<1> QED BY <1>1, <1>2, <1>3, JobTypes DEF JobPersist

LEMMA JobAnnounceTypes == ASSUME TypeOK, NEW c \in Coroutine, JobAnnounce(c) PROVE TypeOK'
<1>1. co[c].pc \in JobPC /\ co[c] \in Frame /\ FrameOK(co[c])
  BY DEF JobAnnounce, At, JobPC, TypeOK, Types, FramesOK
<1>2. PICK f : Moves(c, f, None)
  BY <1>1, JobMoves DEF JobAnnounce, JobPC, process
<1>3. Plain'
  BY <1>1, PlainStep DEF JobAnnounce, ghost, At, FrameOK, JobPC, TypeOK, Types
<1> QED BY <1>1, <1>2, <1>3, JobTypes DEF JobAnnounce

LEMMA WorkerDiesTypes == ASSUME TypeOK, NEW c \in Coroutine, WorkerDies(c) PROVE TypeOK'
<1>1. co[c].pc \in JobPC /\ co[c] \in Frame /\ FrameOK(co[c])
  BY DEF WorkerDies, TypeOK, Types, FramesOK
<1>2. PICK f : Moves(c, f, None)
  <2>1. CASE Goto(c, "job", None)
    BY <1>1, <2>1, JobMoves DEF WorkerDies, JobPC, process
  <2>2. CASE End(c)
    BY <1>1, <2>2, EndMoves DEF WorkerDies, process
  <2> QED BY <2>1, <2>2 DEF WorkerDies
<1>3. Plain'
  BY <1>1, PlainStep DEF WorkerDies, ghost
<1> QED BY <1>1, <1>2, <1>3, JobTypes DEF WorkerDies

LEMMA JobEndTypes == ASSUME TypeOK, NEW c \in Coroutine, JobEnd(c) PROVE TypeOK'
<1>1. co[c].pc \in JobPC /\ co[c] \in Frame /\ FrameOK(co[c])
  BY DEF JobEnd, At, JobPC, TypeOK, Types, FramesOK
<1>2. PICK f : Moves(c, f, None)
  <2>1. row[co[c].task] \in Content \cup {None}
    BY <1>1 DEF FrameOK, JobPC, TypeOK, Types
  <2>2. server' = server /\ flush' = flush
    BY DEF JobEnd, process
  <2>3. CASE End(c)
    BY <2>2, <2>3, EndMoves
  <2>4. ASSUME NEW found \in {row[co[c].task], None}, Goto(c, "job_refresh", found)
        PROVE  \E f : Moves(c, f, None)
    BY <1>1, <2>1, <2>2, <2>4, JobMoves DEF JobPC
  <2> QED BY <2>3, <2>4 DEF JobEnd
<1>3. Plain'
  BY <1>1, PlainStep DEF JobEnd, ghost
<1> QED BY <1>1, <1>2, <1>3, JobTypes DEF JobEnd

LEMMA ReportTypes == ASSUME TypeOK, NEW c \in Coroutine, Report(c) PROVE TypeOK'
<1>1. co[c].task \in Task
  BY DEF Report, At, TypeOK, FramesOK, FrameOK
<1>2. Moves(c, Idle, None)
  BY EndMoves, UpWhileBusy DEF Report, At, JobPC, process
<1>3. Plain'
  BY <1>1, PlainStep DEF Report, ghost
<1> QED BY <1>1, <1>2, <1>3, QuietStep DEF Report, ObjectOrNone

LEMMA AdvancedTypes == ASSUME TypeOK, NEW c \in Coroutine, Advanced(c) PROVE TypeOK'
<1>1. co[c].task \in Task
  BY DEF Advanced, At, TypeOK, FramesOK, FrameOK
<1>2. Moves(c, Idle, None)
  BY EndMoves, UpWhileBusy DEF Advanced, At, JobPC, process, Finish, Unlock
<1>3. Plain'
  BY <1>1, PlainStep DEF Advanced, ghost, Finish, Unlock, TypeOK, Types
<1> QED BY <1>1, <1>2, <1>3, QuietStep DEF Advanced, ObjectOrNone

LEMMA DeleteRowsTypes == ASSUME TypeOK, NEW c \in Coroutine, DeleteRows(c) PROVE TypeOK'
<1>1. co[c].task \in Task
  BY DEF DeleteRows, At, TypeOK, FramesOK, FrameOK
<1>2. Moves(c, Idle, None)
  BY EndMoves, UpWhileBusy DEF DeleteRows, At, JobPC, process
<1>3. Plain'
  BY <1>1, PlainStep DEF DeleteRows, ghost, Plain, process, TypeOK, Types
<1> QED BY <1>1, <1>2, <1>3, QuietStep DEF DeleteRows, ObjectOrNone

\* What a coroutine suspended with an object can rely on.
LEMMA Suspended ==
  ASSUME TypeOK, NEW c \in Coroutine, co[c].pc \notin Objectless
  PROVE  /\ server = "up"
         /\ co[c].task \in Task /\ co[c].obj \in Object /\ Live(co[c].obj)
         /\ heap[co[c].obj] \in Content
         /\ FrameOK(co[c])
<1>1. co[c].obj \in Object /\ Live(co[c].obj) /\ heap[co[c].obj] \in Content
  BY LiveContents DEF TypeOK, FramesOK, FrameOK
<1>2. server = "up"
  BY UpWhileBusy DEF Objectless
<1> QED BY <1>1, <1>2 DEF TypeOK, FramesOK, FrameOK, Objectless

\* The awaits a save may return to.
LEMMA ReturnsTo ==
  /\ \A c \in Coroutine :
       /\ \A then \in {"idle", "resubmit", "submitted", "parsed", "report", "flushed", "retried", "reviewed",
                       "edited", "advanced", "retry"} : Returns(c, then)
       /\ co[c].key \in Segment => Returns(c, "segment")
       /\ co[c].key = "image" => Returns(c, "redraw")
  /\ \A pc \in {"refresh", "retry", "retried", "parse", "parsed", "resubmit", "submitted", "report", "reviewed",
                "edited", "advanced", "segment", "redraw", "drawing", "saving"} : pc \notin Objectless
BY DEF Returns, PC, JobPC, Objectless

LEMMA ParseFailTypes == ASSUME TypeOK, NEW c \in Coroutine, ParseFail(c) PROVE TypeOK'
<1> DEFINE t == co[c].task
           o == co[c].obj
<1>1. /\ server = "up" /\ t \in Task /\ o \in Object
      /\ heap[o] \in Content /\ FrameOK(co[c])
  BY Suspended, ReturnsTo DEF ParseFail, At
<1>2. Plain'
  BY <1>1, PlainStep DEF ParseFail, ghost
<1> DEFINE x(script) == [status |-> "failed", script |-> script]
<1>3. PICK script \in {heap[o].script} \cup Draft(t) :
        Save(c, t, o, With(o, x(script)), deleted, "report") /\ Heap(With(o, x(script)))
  BY DEF ParseFail
<1>4. x(script) \in Content
  BY <1>1, <1>3, ContentTypes DEF Status, Draft
<1> HIDE DEF x
<1> QED BY <1>1, <1>2, <1>3, <1>4, SaveWritten, ReturnsTo DEF ParseFail, process

LEMMA RetryResetTypes == ASSUME TypeOK, NEW c \in Coroutine, RetryReset(c) PROVE TypeOK'
<1> DEFINE t == co[c].task
           o == co[c].obj
<1>1. /\ server = "up" /\ t \in Task /\ o \in Object
      /\ heap[o] \in Content /\ FrameOK(co[c])
  BY Suspended, ReturnsTo DEF RetryReset, At
<1>2. Plain'
  BY <1>1, PlainStep DEF RetryReset, ghost, Plain, process, TypeOK, Types
<1> DEFINE x == NewTask
<1>3. x \in Content
  BY <1>1, ContentTypes
<1>4. Save(c, t, o, With(o, x), deleted \ {t}, "retried") /\ Heap(With(o, x))
  BY DEF RetryReset
<1> HIDE DEF x
<1> QED BY <1>1, <1>2, <1>3, <1>4, SaveWritten, ReturnsTo DEF RetryReset, process

LEMMA SubmitSaveTypes == ASSUME TypeOK, NEW c \in Coroutine, SubmitSave(c) PROVE TypeOK'
<1> DEFINE t == co[c].task
<1>1. server = "up" /\ t \in Task
  BY UpWhileBusy DEF SubmitSave, At, JobPC, TypeOK, FramesOK, FrameOK
<1>2. Plain'
  BY <1>1, PlainStep DEF SubmitSave, ghost, Plain, process, TypeOK, Types
<1>3. PICK o \in Object : /\ Save(c, t, o, With(o, NewTask), deleted \ {t}, "submitted")
                          /\ Heap(With(o, NewTask))
  BY DEF SubmitSave, Unused
<1> QED BY <1>1, <1>2, <1>3, SaveWritten, ReturnsTo, ContentTypes DEF SubmitSave, process

LEMMA SubmitRefreshedTypes == ASSUME TypeOK, NEW c \in Coroutine, SubmitRefreshed(c) PROVE TypeOK'
<1> DEFINE t == co[c].task
<1>1. server = "up" /\ t \in Task
  BY UpWhileBusy DEF SubmitRefreshed, At, JobPC, TypeOK, FramesOK, FrameOK
<1>2. Plain'
  BY <1>1, PlainStep DEF SubmitRefreshed, ghost
<1>3. PICK o \in Object : /\ Save(c, t, o, With(o, NewTask), deleted, "resubmit")
                          /\ Heap(With(o, NewTask))
  BY DEF SubmitRefreshed, Unused
<1> QED BY <1>1, <1>2, <1>3, SaveWritten, ReturnsTo, ContentTypes DEF SubmitRefreshed, process

LEMMA ResubmitTypes == ASSUME TypeOK, NEW c \in Coroutine, Resubmit(c) PROVE TypeOK'
<1> DEFINE t == co[c].task
           o == co[c].obj
<1>1. server = "up" /\ t \in Task /\ o \in Object /\ Live(o)
  BY Suspended, ReturnsTo DEF Resubmit, At
<1>2. Plain'
  BY <1>1, PlainStep DEF Resubmit, ghost, Plain, process, TypeOK, Types
<1> QED BY <1>1, <1>2, SaveUnwritten, LogFlushes, ReturnsTo DEF Resubmit, process

\* The sink is bound to the coroutine's object, which logs.
LEMMA BindSink ==
  ASSUME TypeOK, NEW c \in Coroutine, co[c].pc \notin Objectless, Goto(c, "parse", None),
         sink' = [sink EXCEPT ![co[c].task] = co[c].obj], UNCHANGED <<store, server>>,
         flush' = flush \/ Log(co[c].task, co[c].obj), Heap(heap), Plain'
  PROVE  TypeOK'
<1> DEFINE t == co[c].task
           o == co[c].obj
           f == Await("parse", t, o, None, co[c].key, "idle")
<1>1. /\ server = "up" /\ t \in Task /\ o \in Object /\ Live(o) /\ co[c] \in Frame /\ FrameOK(co[c])
  BY Suspended DEF TypeOK, Types
<1>2. /\ flush' \in [Task -> SUBSET Object]
      /\ \A u \in Task : flush'[u] \subseteq flush[u] \cup {sink[u], o}
  <2>1. CASE flush' = flush
    BY <2>1 DEF TypeOK, Types
  <2>2. CASE Log(t, o)
    BY <1>1, <2>2, LogKeepsTypes DEF ObjectOrNone
  <2> QED BY <2>1, <2>2
<1>3. References(o)
  BY <1>1, <1>2 DEF References, TypeOK, Types, ObjectOrNone
<1>4. Contents(o, heap)
  BY <1>1, HeapContents DEF ObjectOrNone
<1>5. f \in Frame /\ FrameOK(f) /\ f.obj = o /\ co' = [co EXCEPT ![c] = f]
  BY <1>1 DEF Await, Frame, FrameOK, PC, JobPC, Objectless, Goto
<1> HIDE DEF f
<1>6. Moves(c, f, o)
  BY <1>1, <1>5 DEF Moves
<1> QED BY <1>1, <1>3, <1>4, <1>6, StepTypes DEF ObjectOrNone

LEMMA SubmittedTypes == ASSUME TypeOK, NEW c \in Coroutine, Submitted(c) PROVE TypeOK'
<1>1. co[c].pc \notin Objectless
  BY ReturnsTo DEF Submitted, At
<1>2. Plain'
  BY <1>1, Suspended, PlainStep DEF Submitted, TypeOK, Types
<1> QED BY <1>1, <1>2, BindSink DEF Submitted, process

LEMMA RetriedTypes == ASSUME TypeOK, NEW c \in Coroutine, Retried(c) PROVE TypeOK'
<1>1. co[c].pc \notin Objectless
  BY ReturnsTo DEF Retried, At
<1>2. Plain'
  BY PlainStep DEF Retried, ghost
<1> QED BY <1>1, <1>2, BindSink DEF Retried, process

LEMMA ParseOkTypes == ASSUME TypeOK, NEW c \in Coroutine, ParseOk(c) PROVE TypeOK'
<1> DEFINE t == co[c].task
           o == co[c].obj
           x(script) == [status |-> "generating_asset", script |-> script]
<1>1. server = "up" /\ t \in Task /\ o \in Object
  BY Suspended, ReturnsTo DEF ParseOk, At
<1>2. Plain'
  BY PlainStep DEF ParseOk, ghost
<1>3. PICK script \in Draft(t) :
        Save(c, t, o, With(o, x(script)), deleted, "parsed") /\ Heap(With(o, x(script)))
  BY DEF ParseOk
<1>4. x(script) \in Content
  BY ContentTypes DEF Status, Draft
<1>5. sink' = sink /\ server' = server /\ Log(t, sink[t])
  BY DEF ParseOk, process
<1> HIDE DEF x
<1> QED BY <1>1, <1>2, <1>3, <1>4, <1>5, SaveWritten, ReturnsTo

LEMMA ParsedTypes == ASSUME TypeOK, NEW c \in Coroutine, Parsed(c) PROVE TypeOK'
<1> DEFINE t == co[c].task
           o == co[c].obj
           x == [status |-> "failed", script |-> heap[o].script]
<1>1. server = "up" /\ t \in Task /\ o \in Object /\ heap[o] \in Content
  BY Suspended, ReturnsTo DEF Parsed, At
<1>2. Plain'
  BY PlainStep DEF Parsed, ghost
<1>3. x \in Content
  BY <1>1, ContentTypes DEF Status
<1>4. sink' = sink /\ server' = server
  BY DEF Parsed, process
<1> HIDE DEF x
<1>5. CASE Log(t, sink[t]) /\ End(c) /\ store' = store /\ Heap(heap)
  BY <1>1, <1>2, <1>4, <1>5, EndMoves, QuietStep DEF ObjectOrNone
<1>6. CASE Save(c, t, o, With(o, x), deleted, "report") /\ Heap(With(o, x)) /\ flush' = flush
  BY <1>1, <1>2, <1>3, <1>4, <1>6, SaveWritten, ReturnsTo
<1> QED BY <1>5, <1>6 DEF Parsed, SetStatus, x

LEMMA StagedTypes == ASSUME TypeOK, NEW c \in Coroutine, Staged(c) PROVE TypeOK'
<1> DEFINE t == co[c].task
           o == co[c].obj
           x(s) == [status |-> s, script |-> heap[o].script]
<1>1. server = "up" /\ t \in Task /\ o \in Object /\ heap[o] \in Content
  BY Suspended, ReturnsTo DEF Staged, At
<1>2. Plain'
  BY PlainStep DEF Staged, ghost
<1>3. x("failed") \in Content /\ x("generating_video") \in Content
  BY <1>1, ContentTypes DEF Status
<1>4. sink' = sink /\ server' = server
  BY DEF Staged, process
<1> HIDE DEF x
<1>5. CASE /\ Save(c, t, o, With(o, x("failed")), deleted, "report")
           /\ Heap(With(o, x("failed"))) /\ flush' = flush
  BY <1>1, <1>2, <1>3, <1>4, <1>5, SaveWritten, ReturnsTo
<1>6. CASE /\ Save(c, t, o, With(o, x("generating_video")), deleted, "idle")
           /\ Heap(With(o, x("generating_video"))) /\ Log(t, sink[t])
  BY <1>1, <1>2, <1>3, <1>4, <1>6, SaveWritten, ReturnsTo
<1> QED BY <1>5, <1>6 DEF Staged, SetStatus, x

LEMMA ProgressTypes == ASSUME TypeOK, NEW c \in Coroutine, Progress(c) PROVE TypeOK'
<1> DEFINE f == co[c]
<1>1. server = "up" /\ f.task \in Task /\ f \in Frame /\ FrameOK(f)
  BY UpWhileBusy DEF Progress, At, JobPC, TypeOK, Types, FramesOK, FrameOK
<1>2. Plain'
  BY PlainStep DEF Progress, ghost
<1>3. co' = [co EXCEPT ![c] = f]
  BY DEF Progress, TypeOK, Types
<1> HIDE DEF f
<1>4. Moves(c, f, co[c].obj)
  BY <1>1, <1>3 DEF Moves, f, Progress, process
<1>5. co[c].obj \in ObjectOrNone /\ (co[c].obj = None \/ Live(co[c].obj))
  BY LiveContents DEF ObjectOrNone, TypeOK, Types, Frame
<1> QED BY <1>1, <1>2, <1>4, <1>5, QuietStep DEF Progress, f

LEMMA FlushTypes == ASSUME TypeOK, NEW c \in Coroutine, NEW t \in Task, NEW o \in Object, Flush(c, t, o)
                    PROVE  TypeOK'
<1>1. Live(o) /\ server = "up" /\ Flushes
  BY DEF Flush, Live, IdleUp, Flushes, TypeOK, Types
<1>2. Plain'
  BY PlainStep DEF Flush, ghost
<1> QED BY <1>1, <1>2, SaveUnwritten, ReturnsTo DEF Flush, process

LEMMA EditTypes == ASSUME TypeOK, NEW c \in Coroutine, NEW t \in Task, Edit(c, t) PROVE TypeOK'
<1>1. Plain'
  BY PlainRequest DEF Plain, Edit, AskAbout, TypeOK, Types, ghost
<1>2. store[t] \in Object /\ Live(store[t]) /\ server = "up" /\ Flushes
  BY LiveContents, LogFlushes DEF Edit, AskAbout, Ask, IdleUp
<1> QED BY <1>1, <1>2, SaveUnwritten, ReturnsTo DEF Edit

LEMMA LoadPutTypes == ASSUME TypeOK, NEW c \in Coroutine, LoadPut(c) PROVE TypeOK'
<1> DEFINE t == co[c].task
           x == co[c].data
<1>1. t \in Task /\ x \in Content
  BY DEF LoadPut, At, TypeOK, FramesOK, FrameOK
<1>2. PICK o \in Object : /\ store' = [store EXCEPT ![t] = o]
                          /\ sink' = [sink EXCEPT ![t] = o]
                          /\ End(c) /\ Heap(With(o, x))
  BY DEF LoadPut, Unused
<1>3. server = "up"
  BY UpWhileBusy DEF LoadPut, At, JobPC
<1>4. server' = server /\ flush' = flush
  BY DEF LoadPut, process
<1>5. Plain'
  BY PlainStep DEF LoadPut, ghost
<1>6. Moves(c, Idle, None)
  BY <1>2, <1>4, EndMoves
<1>7. Moves(c, Idle, o)
  BY <1>6 DEF Moves
<1>8. References(o)
  BY <1>1, <1>2, <1>4 DEF References, TypeOK, Types, ObjectOrNone
<1>9. Contents(o, With(o, x))
  BY <1>1, <1>2, HeapContents
<1> QED BY <1>5, <1>7, <1>8, <1>9, StepTypes DEF ObjectOrNone

LEMMA RefreshedTypes == ASSUME TypeOK, NEW c \in Coroutine, Refreshed(c) PROVE TypeOK'
<1> DEFINE o == co[c].obj
           next == co[c].then
           f == Await(next, co[c].task, o, None, co[c].key, "idle")
<1>1. /\ server = "up" /\ co[c].task \in Task /\ o \in Object /\ Live(o)
      /\ co[c] \in Frame /\ FrameOK(co[c])
  BY Suspended, ReturnsTo DEF Refreshed, At, TypeOK, Types
<1>2. /\ next \in {"retry", "redraw", "segment"}
      /\ next = "segment" => co[c].key \in Segment
      /\ next = "redraw" => co[c].key = "image"
  BY <1>1 DEF FrameOK, Refreshed, At
<1>3. Plain'
  BY PlainStep DEF Refreshed, ghost
<1>4. sink' = sink /\ flush' = flush /\ server' = server /\ Heap(heap)
  BY DEF Refreshed, process
<1>5. CASE Goto(c, next, None) /\ store' = store
  <2>1. f \in Frame /\ FrameOK(f) /\ f.obj = o /\ co' = [co EXCEPT ![c] = f]
    BY <1>1, <1>2, <1>5 DEF Await, Frame, FrameOK, PC, JobPC, Objectless, Goto
  <2> HIDE DEF f
  <2>2. Moves(c, f, o)
    BY <1>1, <1>4, <2>1 DEF Moves
  <2> QED BY <1>1, <1>3, <1>4, <1>5, <2>2, QuietStep DEF ObjectOrNone
<1>6. CASE Save(c, co[c].task, o, heap, deleted, next)
  <2>1. Returns(c, next) /\ Flushes
    BY <1>2, <1>4, ReturnsTo, LogFlushes
  <2> QED BY <1>1, <1>3, <1>4, <1>6, <2>1, SaveUnwritten
<1> QED BY <1>5, <1>6 DEF Refreshed

\* What a request about the images of a script writes.
LEMMA ReadyContent ==
  ASSUME TypeOK, NEW o \in Object, Live(o), heap[o].script # None, NEW b \in BOOLEAN, NEW s \in Status
  PROVE  /\ [status |-> s, script |-> Ready(o, b)] \in Content
         /\ [status |-> heap[o].status, script |-> Ready(o, b)] \in Content
BY LiveContents, ContentTypes DEF Ready

LEMMA ReviewTypes == ASSUME TypeOK, NEW c \in Coroutine, NEW t \in Task, Review(c, t) PROVE TypeOK'
<1> DEFINE o == store[t]
           x == [status |-> "generating_video", script |-> Ready(o, TRUE)]
           y == [status |-> heap[o].status, script |-> Ready(o, FALSE)]
<1>1. o \in Object /\ Live(o) /\ heap[o].script # None /\ server = "up"
  BY LiveContents DEF Review, HasScript, AskAbout, Ask, IdleUp
<1>2. x \in Content /\ y \in Content
  BY <1>1, ReadyContent DEF Status
<1>3. Plain'
  BY PlainRequest DEF Plain, Review, AskAbout, TypeOK, Types, ghost
<1>4. sink' = sink /\ server' = server
  BY DEF Review
<1> HIDE DEF x, y
<1>5. CASE Save(c, t, o, With(o, x), deleted, "reviewed") /\ flush' = flush /\ Heap(With(o, x))
  BY <1>1, <1>2, <1>3, <1>4, <1>5, SaveWritten, ReturnsTo
<1>6. CASE UNCHANGED <<co, store>> /\ Log(t, sink[t]) /\ Heap(With(o, y))
  <2>1. /\ co' = [co EXCEPT ![c] = co[c]] /\ co[c] \in Frame /\ FrameOK(co[c])
        /\ co[c].obj \in {None, co[c].obj, o}
    BY <1>6 DEF TypeOK, Types, FramesOK
  <2>2. Moves(c, co[c], o)
    BY <1>1, <1>4, <2>1 DEF Moves
  <2>3. References(o)
    BY <1>4, <1>6, SameReferences DEF References
  <2>4. Contents(o, With(o, y))
    BY <1>1, <1>2, <1>6, HeapContents
  <2> QED BY <1>1, <1>3, <2>2, <2>3, <2>4, StepTypes DEF ObjectOrNone
<1>7. ASSUME NEW b \in BOOLEAN, UNCHANGED <<co, store, flush>>, Heap(SetReady(o, b)) PROVE TypeOK'
  <2> DEFINE z == [status |-> heap[o].status, script |-> Ready(o, b)]
  <2>1. z \in Content
    BY <1>1, LiveContents, ReadyContent DEF Content
  <2> HIDE DEF z
  <2>2. Heap(With(o, z))
    BY <1>7 DEF SetReady, z
  <2>3. /\ co' = [co EXCEPT ![c] = co[c]] /\ co[c] \in Frame /\ FrameOK(co[c])
        /\ co[c].obj \in {None, co[c].obj, o}
    BY <1>7 DEF TypeOK, Types, FramesOK
  <2>4. Moves(c, co[c], o)
    BY <1>1, <1>4, <2>3 DEF Moves
  <2>5. References(o)
    BY <1>4, <1>7, SameReferences DEF References
  <2>6. Contents(o, With(o, z))
    BY <1>1, <2>1, <2>2, HeapContents
  <2> QED BY <1>1, <1>3, <2>4, <2>5, <2>6, StepTypes DEF ObjectOrNone
<1> QED BY <1>5, <1>6, <1>7 DEF Review, SetReady, x, y

LEMMA ReplaceImageTypes == ASSUME TypeOK, NEW c \in Coroutine, NEW t \in Task, ReplaceImage(c, t)
  PROVE TypeOK'
<1> DEFINE o == store[t]
           x(b) == [status |-> heap[o].status, script |-> Ready(o, b)]
<1>1. o \in Object /\ Live(o) /\ heap[o].script # None /\ server = "up"
  BY LiveContents DEF ReplaceImage, HasScript, AskAbout, Ask, IdleUp
<1>2. PICK b \in BOOLEAN : Save(c, t, o, With(o, x(b)), deleted, "edited") /\ Heap(With(o, x(b)))
  BY DEF ReplaceImage, SetReady
<1>3. x(b) \in Content
  BY <1>1, ReadyContent DEF Status
<1>4. Plain'
  BY PlainRequest DEF Plain, ReplaceImage, AskAbout, TypeOK, Types, ghost
<1>5. sink' = sink /\ server' = server /\ Log(t, sink[t])
  BY DEF ReplaceImage
<1> HIDE DEF x
<1> QED BY <1>1, <1>2, <1>3, <1>4, <1>5, SaveWritten, ReturnsTo

LEMMA ClearImageTypes == ASSUME TypeOK, NEW c \in Coroutine, NEW t \in Task, ClearImage(c, t)
  PROVE TypeOK'
<1> DEFINE o == store[t]
           x == [status |-> heap[o].status, script |-> Ready(o, FALSE)]
<1>1. o \in Object /\ Live(o) /\ heap[o].script # None /\ server = "up"
  BY LiveContents DEF ClearImage, HasScript, AskAbout, Ask, IdleUp
<1>2. Save(c, t, o, With(o, x), deleted, "idle") /\ Heap(With(o, x))
  BY DEF ClearImage, SetReady
<1>3. x \in Content
  BY <1>1, ReadyContent DEF Status
<1>4. Plain'
  BY PlainRequest DEF Plain, ClearImage, AskAbout, TypeOK, Types, ghost
<1>5. sink' = sink /\ server' = server /\ Log(t, sink[t])
  BY DEF ClearImage
<1> HIDE DEF x
<1> QED BY <1>1, <1>2, <1>3, <1>4, <1>5, SaveWritten, ReturnsTo

LEMMA DrawnTypes == ASSUME TypeOK, NEW c \in Coroutine, Drawn(c) PROVE TypeOK'
<1> DEFINE t == co[c].task
           o == co[c].obj
           x(b) == [status |-> heap[o].status, script |-> Ready(o, b)]
<1>1. server = "up" /\ t \in Task /\ o \in Object /\ Live(o)
  BY Suspended, ReturnsTo DEF Drawn, At
<1>2. Plain'
  BY PlainStep DEF Drawn, ghost, Unlock, TypeOK, Types
<1>3. sink' = sink /\ server' = server /\ Log(t, sink[t])
  BY DEF Drawn, process
<1>4. ASSUME NEW b \in BOOLEAN, heap[o].script # None,
             Save(c, t, o, With(o, x(b)), deleted, "edited"), Heap(With(o, x(b)))
      PROVE  TypeOK'
  <2>1. x(b) \in Content
    BY <1>1, <1>4, ReadyContent DEF Status
  <2> HIDE DEF x
  <2> QED BY <1>1, <1>2, <1>3, <1>4, <2>1, SaveWritten, ReturnsTo
<1>5. CASE End(c) /\ store' = store /\ Heap(heap)
  BY <1>1, <1>2, <1>3, <1>5, EndMoves, QuietStep DEF ObjectOrNone
<1> QED BY <1>4, <1>5 DEF Drawn, SetReady

LEMMA AdvanceTypes == ASSUME TypeOK, NEW c \in Coroutine, Advance(c) PROVE TypeOK'
<1> DEFINE t == co[c].task
           o == co[c].obj
           x == [status |-> "human_review", script |-> heap[o].script]
<1>1. server = "up" /\ t \in Task /\ o \in Object /\ heap[o] \in Content
  BY Suspended, ReturnsTo DEF Advance, At
<1>2. Plain'
  BY PlainStep DEF Advance, ghost, Finish, Unlock, TypeOK, Types
<1>3. x \in Content
  BY <1>1, ContentTypes DEF Status
<1>4. sink' = sink /\ server' = server /\ flush' = flush
  BY DEF Advance, process
<1> HIDE DEF x
<1>5. CASE Save(c, t, o, With(o, x), deleted, "advanced") /\ Heap(With(o, x))
  BY <1>1, <1>2, <1>3, <1>4, <1>5, SaveWritten, ReturnsTo
<1>6. CASE End(c) /\ store' = store /\ Heap(heap)
  BY <1>1, <1>2, <1>4, <1>6, EndMoves, QuietStep DEF ObjectOrNone
<1> QED BY <1>5, <1>6 DEF Advance, SetStatus, Finish, x

LEMMA JobRefreshTypes == ASSUME TypeOK, NEW c \in Coroutine, JobRefresh(c) PROVE TypeOK'
<1> DEFINE t == co[c].task
           x == co[c].data
<1>1. t \in Task /\ x \in Content \cup {None}
  BY DEF JobRefresh, At, TypeOK, Types, Frame, FramesOK, FrameOK
<1>2. server' = server /\ flush' = flush /\ sink' = sink /\ End(c)
  BY DEF JobRefresh, process
<1>3. Plain'
  BY PlainStep DEF JobRefresh, ghost, Unlock, TypeOK, Types
<1>4. Moves(c, Idle, None)
  BY <1>2, EndMoves
<1>5. CASE x = None
  <2>1. store' = [store EXCEPT ![t] = None] /\ Heap(heap)
    BY <1>5 DEF JobRefresh
  <2>2. References(None)
    BY <1>1, <1>2, <2>1 DEF References, TypeOK, Types, ObjectOrNone
  <2>3. Contents(None, heap)
    BY <2>1, HeapContents DEF ObjectOrNone
  <2> QED BY <1>3, <1>4, <2>2, <2>3, StepTypes DEF ObjectOrNone
<1>6. CASE x # None
  <2>1. PICK o \in Object : store' = [store EXCEPT ![t] = o] /\ Heap(With(o, x))
    BY <1>6 DEF JobRefresh, Unused
  <2>2. Moves(c, Idle, o)
    BY <1>4 DEF Moves
  <2>3. References(o)
    BY <1>1, <1>2, <2>1 DEF References, TypeOK, Types, ObjectOrNone
  <2>4. Contents(o, With(o, x))
    BY <1>1, <1>6, <2>1, HeapContents
  <2> QED BY <1>3, <2>2, <2>3, <2>4, StepTypes DEF ObjectOrNone
<1> QED BY <1>5, <1>6

LEMMA IdleFrame == Idle \in Frame /\ FrameOK(Idle) /\ Idle.obj = None /\ Idle.pc = "idle"
BY DEF Idle, Await, Frame, PC, JobPC, FrameOK, Objectless

LEMMA CrashTypes == ASSUME TypeOK, Crash PROVE TypeOK'
<1>1. /\ co' \in [Coroutine -> Frame]
      /\ \A c \in Coroutine : /\ FrameOK(co'[c]) /\ co'[c].obj = None
                              /\ co'[c].pc = "idle" \/ (UseCelery /\ co'[c].pc \in JobPC)
  <2>1. \A c \in Coroutine : co[c] \in Frame /\ FrameOK(co[c])
    BY DEF TypeOK, Types, FramesOK
  <2>2. \A c \in Coroutine : co[c].pc \in JobPC => co[c].obj = None
    BY <2>1 DEF FrameOK, Objectless
  <2>3. co' = [c \in Coroutine |-> IF UseCelery /\ co[c].pc \in JobPC THEN co[c] ELSE Idle]
    BY DEF Crash
  <2> HIDE DEF Idle
  <2> QED BY <2>1, <2>2, <2>3, IdleFrame
<1>2. Types'
  BY <1>1, BoundAssumption DEF Crash, TypeOK, Types, ghost, ObjectOrNone
<1>3. FramesOK' /\ StartupQuiet'
  BY <1>1 DEF FramesOK, StartupQuiet, Crash
<1>4. NoDangling'
  BY <1>1 DEF NoDangling, Live, Crash
<1> QED BY <1>2, <1>3, <1>4 DEF TypeOK

LEMMA InitializeTypes == ASSUME TypeOK, Initialize PROVE TypeOK'
<1>1. PICK loaded \in SUBSET Rows : \E f \in [loaded -> Object] :
        /\ store' = [t \in Task |-> IF t \in loaded THEN f[t] ELSE None]
        /\ sink' = store'
        /\ heap' = [o \in Object |-> IF \E t \in loaded : f[t] = o
                                     THEN row[CHOOSE t \in loaded : f[t] = o] ELSE None]
  BY DEF Initialize
<1>2. PICK f \in [loaded -> Object] :
        /\ store' = [t \in Task |-> IF t \in loaded THEN f[t] ELSE None]
        /\ sink' = store'
        /\ heap' = [o \in Object |-> IF \E t \in loaded : f[t] = o
                                     THEN row[CHOOSE t \in loaded : f[t] = o] ELSE None]
  BY <1>1
<1>3. \A t \in loaded : t \in Task /\ row[t] \in Content
  BY DEF Rows, TypeOK, Types
<1>4. \A o \in Object : (\E t \in loaded : f[t] = o) => heap'[o] \in Content
  BY <1>2, <1>3
<1>5. heap' \in [Object -> Content \cup {None}]
  BY <1>2, <1>4
<1>6. store' \in [Task -> ObjectOrNone] /\ sink' \in [Task -> ObjectOrNone]
  BY <1>2, <1>3 DEF ObjectOrNone
<1>7. /\ \A t \in Task : flush'[t] = {}
      /\ \A c \in Coroutine : co'[c].obj = None
                              /\ (co'[c].pc = "idle" \/ (UseCelery /\ co'[c].pc \in JobPC))
  BY DEF Initialize, TypeOK, StartupQuiet, FramesOK, FrameOK, Objectless
<1>8. NoDangling'
  <2> SUFFICES ASSUME NEW o \in Object, Live(o)' PROVE heap'[o] # None
    BY DEF NoDangling
  <2>1. \E t \in Task : store'[t] = o
    BY <1>2, <1>7 DEF Live
  <2>2. \E t \in loaded : f[t] = o
    BY <1>2, <2>1
  <2> QED BY <1>4, <2>2
<1>9. Types'
  BY <1>5, <1>6 DEF Initialize, TypeOK, Types, ghost
<1>10. FramesOK' /\ StartupQuiet'
  BY <1>7 DEF Initialize, TypeOK, FramesOK, StartupQuiet
<1> QED BY <1>8, <1>9, <1>10 DEF TypeOK

LEMMA ReconcileTypes == ASSUME TypeOK, Reconcile PROVE TypeOK'
<1>1. row' \in [Task -> Content \cup {None}]
  <2>1. \A t \in Rows : t \in Task /\ [status |-> "failed", script |-> row[t].script] \in Content
    BY ContentTypes DEF TypeOK, Types, Status, Rows
  <2> QED BY <2>1 DEF Reconcile, TypeOK, Types
<1>2. Types'
  BY <1>1 DEF Reconcile, TypeOK, Types, ghost
<1> QED BY <1>2 DEF Reconcile, TypeOK, FramesOK, NoDangling, Live, StartupQuiet

-----------------------------------------------------------------------------
\* TypeOK is inductive.
LEMMA InitTypes == Init => TypeOK
<1> SUFFICES ASSUME Init PROVE TypeOK
  OBVIOUS
<1>1. Types
  BY IdleFrame, BoundAssumption DEF Init, Types, ObjectOrNone
<1> QED BY <1>1, IdleFrame DEF Init, TypeOK, FramesOK, NoDangling, Live, StartupQuiet

LEMMA NextTypes == TypeOK /\ [Next]_vars => TypeOK'
<1> SUFFICES ASSUME TypeOK, [Next]_vars PROVE TypeOK'
  OBVIOUS
<1>1. ASSUME NEW c \in Coroutine, NEW t \in Task, UserRequest(c, t) PROVE TypeOK'
  BY <1>1, SubmitTypes, LoadTypes, RetryTypes, ReviewTypes, ReplaceImageTypes, ClearImageTypes,
     EditTypes, RegenerateTypes, ComposeTypes, DeleteTypes DEF UserRequest
<1>2. ASSUME NEW c \in Coroutine, NEW t \in Task, NEW o \in Object, Flush(c, t, o) PROVE TypeOK'
  BY <1>2, FlushTypes
<1>3. ASSUME NEW c \in Coroutine, Resume(c) PROVE TypeOK'
  BY <1>3, CommitTypes, SubmitSaveTypes, SubmitRefreshedTypes, ResubmitTypes, SubmittedTypes, ParseOkTypes, ParseFailTypes, ParsedTypes,
     ReportTypes, LoadReadTypes, LoadPutTypes, RefreshedTypes, RetryResetTypes, RetriedTypes,
     StagedTypes, DrawTypes, DrawnTypes, AdvanceTypes, AdvancedTypes, ScheduleSegmentTypes,
     JobLoadTypes, JobSucceedsTypes, JobFailsTypes, JobPersistTypes, JobAnnounceTypes,
     JobEndTypes, JobRefreshTypes, DeleteRowsTypes DEF Resume
<1>4. ASSUME NEW c \in Coroutine, Progress(c) PROVE TypeOK'
  BY <1>4, ProgressTypes
<1>5. ASSUME NEW c \in Coroutine, WorkerDies(c) PROVE TypeOK'
  BY <1>5, WorkerDiesTypes
<1>6. ASSUME Restart PROVE TypeOK'
  BY <1>6, CrashTypes, InitializeTypes, ReconcileTypes DEF Restart
<1>7. ASSUME UNCHANGED vars PROVE TypeOK'
  BY <1>7 DEF vars, process, ghost, TypeOK, Types, FramesOK, NoDangling, Live, StartupQuiet
<1> QED BY <1>1, <1>2, <1>3, <1>4, <1>5, <1>6, <1>7 DEF Next

\* In every reachable state every variable has its type, every suspended
\* coroutine holds the object, row or key its handler goes on to use, and no
\* reference to a DramaTask dangles, whatever the interleaving, faults and
\* restarts.
THEOREM TypeCorrect == Spec => []TypeOK
BY InitTypes, NextTypes, PTL DEF Spec

-----------------------------------------------------------------------------
\* StagesHaveScripts: a stage is entered with a script at hand, and what is
\* copied from row to object to snapshot to row is copied whole.

\* What a step of coroutine c to frame f writes: contents that are as they should.
Writes(c, f, h) == /\ co' = [co EXCEPT ![c] = f] /\ ScriptFor(f.data)
                   /\ heap' = h \/ Heap(h)
                   /\ \A o \in Object : ScriptFor(h[o])
                   /\ row' = row \/ \A t \in Task : ScriptFor(row'[t])

LEMMA WritesScripts ==
  ASSUME TypeOK, StagesHaveScripts, NEW c \in Coroutine, NEW f, NEW h, Writes(c, f, h)
  PROVE  StagesHaveScripts'
<1>1. \A t \in Task : ScriptFor(row'[t])
  BY DEF Writes, StagesHaveScripts
<1>2. \A o \in Object : ScriptFor(heap'[o])
  BY DEF Writes, Heap, ScriptFor
<1>3. \A d \in Coroutine : ScriptFor(co'[d].data)
  BY DEF Writes, StagesHaveScripts, TypeOK, Types
<1> QED BY <1>1, <1>2, <1>3 DEF StagesHaveScripts, ScriptFor

\* One object is written.
LEMMA WithScripts ==
  ASSUME TypeOK, StagesHaveScripts, NEW o \in Object, NEW x, ScriptFor(x)
  PROVE  /\ \A p \in Object : ScriptFor(With(o, x)[p])
         /\ With(o, x)[o] = x
BY DEF With, StagesHaveScripts, TypeOK, Types

LEMMA EndsWithScripts ==
  ASSUME TypeOK, StagesHaveScripts, NEW c \in Coroutine, End(c), heap' = heap \/ Heap(heap), row' = row
  PROVE  StagesHaveScripts'
<1>1. ScriptFor(Idle.data)
  BY DEF Idle, Await, ScriptFor
<1> QED BY <1>1, WritesScripts DEF Writes, End, StagesHaveScripts

LEMMA GoesWithScripts ==
  ASSUME TypeOK, StagesHaveScripts, NEW c \in Coroutine, NEW pc, NEW data, Goto(c, pc, data),
         ScriptFor(data), heap' = heap \/ Heap(heap), row' = row
  PROVE  StagesHaveScripts'
<1> DEFINE f == Await(pc, co[c].task, co[c].obj, data, co[c].key, "idle")
<1>1. ScriptFor(f.data)
  BY DEF Await
<1> HIDE DEF f
<1> QED BY <1>1, WritesScripts DEF Writes, Goto, StagesHaveScripts, f

LEMMA SavesWithScripts ==
  ASSUME TypeOK, StagesHaveScripts, NEW c \in Coroutine, NEW t, NEW o \in Object, NEW h, NEW marks,
         NEW then, Save(c, t, o, h, marks, then), Heap(h), \A p \in Object : ScriptFor(h[p]), row' = row
  PROVE  StagesHaveScripts'
<1> DEFINE f == Await("saving", t, o, IF t \in marks THEN None ELSE h[o], co[c].key, then)
<1>1. ScriptFor(f.data)
  BY DEF Await, ScriptFor
<1>2. co' = [co EXCEPT ![c] = f]
  BY DEF Save
<1> HIDE DEF f
<1> QED BY <1>1, <1>2, WritesScripts DEF Writes

LEMMA SavesOneWithScript ==
  ASSUME TypeOK, StagesHaveScripts, NEW c \in Coroutine, NEW t, NEW o \in Object, NEW x, NEW marks,
         NEW then, Save(c, t, o, With(o, x), marks, then), Heap(With(o, x)), ScriptFor(x), row' = row
  PROVE  StagesHaveScripts'
<1> DEFINE h == With(o, x)
<1>1. \A p \in Object : ScriptFor(h[p])
  BY WithScripts
<1> HIDE DEF h
<1> QED BY <1>1, SavesWithScripts DEF h

\* The contents that are written: new ones, failed ones, and ones with a script.
LEMMA Writable ==
  /\ ScriptFor(NewTask) /\ ScriptFor(None)
  /\ \A d : ScriptFor([status |-> "failed", script |-> d])
  /\ \A s, d : d # None => ScriptFor([status |-> s, script |-> d])
  /\ \A b \in BOOLEAN, v \in SUBSET Segment : [ready |-> b, videos |-> v] # None
<1>1. \A b \in BOOLEAN, v \in SUBSET Segment : [ready |-> b, videos |-> v] \in Script
  BY ContentTypes
<1> QED BY <1>1 DEF NewTask, ScriptFor, Staging

\* An object whose script is there, with other images.
LEMMA ReadyScripts ==
  ASSUME TypeOK, NEW o \in Object, heap[o] # None, heap[o].script # None, NEW b \in BOOLEAN
  PROVE  Ready(o, b) # None
<1>1. heap[o].script \in Script
  BY DEF TypeOK, Types, Content
<1> QED BY <1>1, Writable, ContentTypes DEF Ready

-----------------------------------------------------------------------------
LEMMA RequestScripts ==
  ASSUME TypeOK, StagesHaveScripts, NEW c \in Coroutine, NEW t \in Task, UserRequest(c, t)
  PROVE  StagesHaveScripts'
<1> DEFINE o == store[t]
<1>1. o # None => o \in Object /\ heap[o] # None
  BY LiveContents DEF Content
<1>2. HasScript(t) => o \in Object /\ \A b \in BOOLEAN : Ready(o, b) # None
  BY <1>1, ReadyScripts DEF HasScript
<1>3. \A p \in Object : ScriptFor(heap[p])
  BY DEF StagesHaveScripts
<1>4. ASSUME NEW pc, NEW u, NEW p, NEW k, NEW then,
             co' = [co EXCEPT ![c] = Await(pc, u, p, None, k, then)],
             heap' = heap \/ Heap(heap), row' = row
      PROVE  StagesHaveScripts'
  <2> DEFINE f == Await(pc, u, p, None, k, then)
  <2>1. ScriptFor(f.data)
    BY Writable DEF Await
  <2> HIDE DEF f
  <2> QED BY <1>3, <1>4, <2>1, WritesScripts DEF Writes, f
<1>5. CASE Submit(c, t) \/ Load(c, t) \/ Delete(c, t)
  BY <1>4, <1>5 DEF Submit, Load, Delete, Start
<1>6. CASE Retry(c, t) \/ Compose(c, t) \/ \E k \in Segment \cup {"image"} : Regenerate(c, t, k)
  BY <1>4, <1>6 DEF Retry, Compose, Regenerate, Refresh, End, Idle
<1>7. CASE Edit(c, t)
  BY <1>1, <1>3, <1>7, SavesWithScripts DEF Edit
<1>8. CASE ReplaceImage(c, t) \/ ClearImage(c, t)
  <2>1. PICK ready \in BOOLEAN, then \in {"edited", "idle"} :
          Save(c, t, o, SetReady(o, ready), deleted, then) /\ Heap(SetReady(o, ready)) /\ row' = row
    BY <1>8 DEF ReplaceImage, ClearImage
  <2>2. ScriptFor([status |-> heap[o].status, script |-> Ready(o, ready)])
    BY <1>2, <1>8, Writable DEF ReplaceImage, ClearImage
  <2> QED BY <1>2, <1>8, <2>1, <2>2, SavesOneWithScript DEF SetReady, ReplaceImage, ClearImage
<1>9. CASE Review(c, t)
  <2>1. HasScript(t) /\ row' = row
    BY <1>9 DEF Review
  <2>2. CASE co' = co
    <3>1. PICK b \in BOOLEAN : Heap(SetReady(o, b)) \/ StagesHaveScripts'
      <4>1. CASE \E b \in BOOLEAN : Heap(SetReady(o, b))
        BY <4>1
      <4>2. CASE LET h == With(o, [status |-> "generating_video", script |-> Ready(o, TRUE)])
                 IN Save(c, t, o, h, deleted, "reviewed") /\ UNCHANGED flush /\ Heap(h)
        BY <1>2, <2>1, <4>2, Writable, SavesOneWithScript
      <4> QED BY <1>9, <4>1, <4>2 DEF Review
    <3>2. ScriptFor([status |-> heap[o].status, script |-> Ready(o, b)])
      BY <1>2, <2>1, Writable
    <3>3. \A p \in Object : ScriptFor(SetReady(o, b)[p])
      BY <1>2, <2>1, <3>2, WithScripts DEF SetReady
    <3> QED BY <2>1, <2>2, <3>1, <3>3 DEF StagesHaveScripts, Heap, ScriptFor
  <2>3. CASE Save(c, t, o, With(o, [status |-> "generating_video", script |-> Ready(o, TRUE)]), deleted, "reviewed")
             /\ Heap(With(o, [status |-> "generating_video", script |-> Ready(o, TRUE)]))
    BY <1>2, <2>1, <2>3, Writable, SavesOneWithScript
  <2> QED BY <1>9, <2>2, <2>3 DEF Review
<1> QED BY <1>5, <1>6, <1>7, <1>8, <1>9 DEF UserRequest

LEMMA FlushScripts ==
  ASSUME TypeOK, StagesHaveScripts, NEW c \in Coroutine, NEW t \in Task, NEW o \in Object, Flush(c, t, o)
  PROVE  StagesHaveScripts'
BY SavesWithScripts DEF Flush, StagesHaveScripts

LEMMA CommitScripts ==
  ASSUME TypeOK, StagesHaveScripts, NEW c \in Coroutine, Commit(c)
  PROVE  StagesHaveScripts'
<1> DEFINE f == IF co[c].then \in {"idle", "flushed"} THEN Idle
                ELSE Await(co[c].then, co[c].task, co[c].obj, None, co[c].key, "idle")
<1>1. ScriptFor(f.data)
  BY Writable DEF Idle, Await
<1>2. \A t \in Task : ScriptFor(row'[t])
  BY Writable DEF Commit, StagesHaveScripts, TypeOK, Types
<1>3. co' = [co EXCEPT ![c] = f]
  BY DEF Commit, End, Goto
<1> HIDE DEF f
<1> QED BY <1>1, <1>2, <1>3, WritesScripts DEF Writes, Commit, StagesHaveScripts

\* Submission, parsing, retry: the task is new, failed, or has a draft.
LEMMA PipelineScripts ==
  ASSUME TypeOK, StagesHaveScripts, NEW c \in Coroutine,
         \/ SubmitSave(c) \/ SubmitRefreshed(c) \/ Resubmit(c) \/ Submitted(c) \/ ParseOk(c)
         \/ ParseFail(c) \/ Parsed(c) \/ Report(c) \/ RetryReset(c) \/ Retried(c) \/ Refreshed(c)
  PROVE  StagesHaveScripts'
<1>1. \A p \in Object : ScriptFor(heap[p])
  BY DEF StagesHaveScripts
<1>2. co[c].obj # None => co[c].obj \in Object
  BY LiveContents
<1>3. CASE SubmitSave(c) \/ SubmitRefreshed(c)
  BY <1>3, Writable, SavesOneWithScript DEF SubmitSave, SubmitRefreshed, Unused
<1>4. co[c].pc \notin Objectless => co[c].obj \in Object
  BY <1>2 DEF TypeOK, FramesOK, FrameOK
<1>5. \A pc \in {"resubmit", "submitted", "parse", "parsed", "retry", "retried", "refresh", "report"} :
        At(c, pc) => co[c].obj \in Object
  BY <1>4 DEF At, Objectless, JobPC
<1>6. CASE Resubmit(c)
  BY <1>1, <1>5, <1>6, SavesWithScripts DEF Resubmit
<1>7. CASE Submitted(c) \/ Retried(c)
  BY <1>7, Writable, GoesWithScripts DEF Submitted, Retried
<1>8. CASE Report(c)
  BY <1>8, EndsWithScripts DEF Report
<1>9. CASE RetryReset(c)
  BY <1>5, <1>9, Writable, SavesOneWithScript DEF RetryReset
<1>10. CASE Refreshed(c)
  BY <1>1, <1>5, <1>10, Writable, GoesWithScripts, SavesWithScripts DEF Refreshed
<1>11. CASE ParseOk(c)
  <2>1. PICK script \in Draft(co[c].task) :
          LET h == With(co[c].obj, [status |-> "generating_asset", script |-> script])
          IN Save(c, co[c].task, co[c].obj, h, deleted, "parsed") /\ Heap(h)
    BY <1>11 DEF ParseOk
  <2>2. PICK b \in BOOLEAN, v \in SUBSET Segment : script = [ready |-> b, videos |-> v]
    BY DEF Draft
  <2> QED BY <1>5, <1>11, <2>1, <2>2, Writable, SavesOneWithScript DEF ParseOk
<1>12. CASE ParseFail(c)
  BY <1>5, <1>12, Writable, SavesOneWithScript DEF ParseFail
<1>13. CASE Parsed(c)
  BY <1>5, <1>13, Writable, SavesOneWithScript, EndsWithScripts DEF Parsed, SetStatus
<1> QED BY <1>3, <1>6, <1>7, <1>8, <1>9, <1>10, <1>11, <1>12, <1>13

LEMMA LoadScripts ==
  ASSUME TypeOK, StagesHaveScripts, NEW c \in Coroutine, LoadRead(c) \/ LoadPut(c) \/ JobRefresh(c)
  PROVE  StagesHaveScripts'
<1>1. ASSUME NEW o \in Object, NEW x, ScriptFor(x), Heap(With(o, x)), End(c), row' = row
      PROVE  StagesHaveScripts'
  <2> DEFINE h == With(o, x)
  <2>1. \A p \in Object : ScriptFor(h[p])
    BY <1>1, WithScripts
  <2>2. ScriptFor(Idle.data)
    BY Writable DEF Idle, Await
  <2> HIDE DEF h
  <2> QED BY <1>1, <2>1, <2>2, WritesScripts DEF Writes, End, h
<1>2. \A t \in Task : ScriptFor(row[t])
  BY DEF StagesHaveScripts
<1>3. ScriptFor(co[c].data)
  BY DEF StagesHaveScripts
<1>4. CASE LoadRead(c)
  <2>1. co[c].task \in Task
    BY <1>4 DEF LoadRead, At, TypeOK, FramesOK, FrameOK
  <2> QED BY <1>2, <1>4, <2>1, GoesWithScripts, EndsWithScripts DEF LoadRead
<1>5. CASE LoadPut(c)
  BY <1>1, <1>3, <1>5 DEF LoadPut, Unused
<1>6. CASE JobRefresh(c)
  BY <1>1, <1>3, <1>6, EndsWithScripts DEF JobRefresh, Unused
<1> QED BY <1>4, <1>5, <1>6

\* Images and the review: the stage changes only where there is a script.
LEMMA ImageScripts ==
  ASSUME TypeOK, StagesHaveScripts, NEW c \in Coroutine,
         Staged(c) \/ Draw(c) \/ Drawn(c) \/ Advance(c) \/ Advanced(c) \/ ScheduleSegment(c)
  PROVE  StagesHaveScripts'
<1> DEFINE o == co[c].obj
<1>1. co[c].pc \in {"reviewed", "drawing", "edited"} => o \in Object /\ heap[o] # None
  BY LiveContents DEF TypeOK, FramesOK, FrameOK, Objectless, JobPC
<1>2. CASE Staged(c)
  BY <1>1, <1>2, Writable, SavesOneWithScript DEF Staged, At, SetStatus
<1>3. CASE Drawn(c)
  <2>1. CASE End(c) /\ Heap(heap)
    BY <1>3, <2>1, EndsWithScripts DEF Drawn
  <2>2. CASE /\ heap[o].script # None
             /\ \E b \in BOOLEAN : Save(c, co[c].task, o, SetReady(o, b), deleted, "edited") /\ Heap(SetReady(o, b))
    BY <1>1, <1>3, <2>2, Writable, ReadyScripts, SavesOneWithScript DEF Drawn, At, SetReady
  <2> QED BY <1>3, <2>1, <2>2 DEF Drawn
<1>4. CASE Advance(c)
  BY <1>1, <1>4, Writable, SavesOneWithScript, EndsWithScripts DEF Advance, Finish, At, SetStatus
<1>5. CASE Draw(c) \/ Advanced(c)
  BY <1>5, Writable, GoesWithScripts, EndsWithScripts DEF Draw, Advanced, Finish
<1>6. CASE ScheduleSegment(c)
  <2> DEFINE f == Await("job", co[c].task, None, None, co[c].key, "idle")
  <2>1. ScriptFor(f.data)
    BY Writable DEF Await
  <2>2. Heap(heap) /\ row' = row /\ (End(c) \/ co' = [co EXCEPT ![c] = f])
    BY <1>6 DEF ScheduleSegment, StartJob
  <2> HIDE DEF f
  <2> QED BY <2>1, <2>2, EndsWithScripts, WritesScripts DEF Writes, StagesHaveScripts
<1> QED BY <1>2, <1>3, <1>4, <1>5, <1>6

\* A job's copy has a script, and is written over the row whole.
LEMMA JobScripts ==
  ASSUME TypeOK, StagesHaveScripts, NEW c \in Coroutine,
         \/ JobLoad(c) \/ JobSucceeds(c) \/ JobFails(c) \/ JobPersist(c) \/ JobAnnounce(c)
         \/ JobEnd(c) \/ WorkerDies(c)
  PROVE  StagesHaveScripts'
<1>1. ScriptFor(co[c].data) /\ \A t \in Task : ScriptFor(row[t])
  BY DEF StagesHaveScripts
<1>2. co[c].pc \in JobPC => co[c].task \in Task
  BY DEF TypeOK, FramesOK, FrameOK, JobPC
<1>3. CASE JobLoad(c) \/ JobEnd(c)
  BY <1>1, <1>2, <1>3, Writable, GoesWithScripts, EndsWithScripts DEF JobLoad, JobEnd, At, JobPC
<1>4. CASE JobFails(c) \/ JobAnnounce(c) \/ WorkerDies(c)
  BY <1>1, <1>4, Writable, GoesWithScripts, EndsWithScripts DEF JobFails, JobAnnounce, WorkerDies
<1>5. CASE JobSucceeds(c)
  <2>1. co[c].data \in Content /\ co[c].data.script # None
    BY <1>5 DEF JobSucceeds, At, TypeOK, FramesOK, FrameOK
  <2>2. co[c].data.script \in Script
    BY <2>1 DEF Content
  <2>3. co[c].key # "compose" =>
          [ready |-> co[c].data.script.ready, videos |-> co[c].data.script.videos \cup {co[c].key}] # None
    <3>1. co[c].key # "compose" => co[c].key \in Segment
      BY <1>5 DEF JobSucceeds, At, TypeOK, FramesOK, FrameOK, JobPC
    <3> QED BY <2>2, <3>1, ContentTypes, Writable
  <2> QED BY <1>5, <2>1, <2>3, Writable, GoesWithScripts DEF JobSucceeds
<1>6. CASE JobPersist(c)
  <2>1. PICK pc : Goto(c, pc, None)
    BY <1>6 DEF JobPersist
  <2>2. \A t \in Task : ScriptFor(row'[t])
    BY <1>1, <1>6 DEF JobPersist, TypeOK, Types
  <2> DEFINE f == Await(pc, co[c].task, co[c].obj, None, co[c].key, "idle")
  <2>3. ScriptFor(f.data) /\ co' = [co EXCEPT ![c] = f]
    BY <2>1, Writable DEF Await, Goto
  <2> HIDE DEF f
  <2> QED BY <1>6, <2>2, <2>3, WritesScripts DEF Writes, StagesHaveScripts, JobPersist
<1> QED BY <1>3, <1>4, <1>5, <1>6

LEMMA DeleteRowsScripts ==
  ASSUME TypeOK, StagesHaveScripts, NEW c \in Coroutine, DeleteRows(c)
  PROVE  StagesHaveScripts'
<1>1. \A t \in Task : ScriptFor(row'[t])
  BY Writable DEF DeleteRows, StagesHaveScripts
<1>2. ScriptFor(Idle.data)
  BY Writable DEF Idle, Await
<1> QED BY <1>1, <1>2, WritesScripts DEF Writes, DeleteRows, End, StagesHaveScripts

LEMMA RestartScripts ==
  ASSUME TypeOK, StagesHaveScripts, Restart
  PROVE  StagesHaveScripts'
<1>1. CASE Crash
  <2>1. ScriptFor(Idle.data)
    BY Writable DEF Idle, Await
  <2>2. \A c \in Coroutine : co'[c] \in {co[c], Idle}
    BY <1>1 DEF Crash
  <2> HIDE DEF Idle
  <2> QED BY <1>1, <2>1, <2>2, Writable DEF Crash, StagesHaveScripts, ScriptFor
<1>2. CASE Initialize
  <2>1. PICK loaded \in SUBSET Rows : \E f \in [loaded -> Object] :
          heap' = [o \in Object |-> IF \E t \in loaded : f[t] = o
                                    THEN row[CHOOSE t \in loaded : f[t] = o] ELSE None]
    BY <1>2 DEF Initialize
  <2>2. PICK f \in [loaded -> Object] :
          heap' = [o \in Object |-> IF \E t \in loaded : f[t] = o
                                    THEN row[CHOOSE t \in loaded : f[t] = o] ELSE None]
    BY <2>1
  <2>3. \A t \in loaded : ScriptFor(row[t])
    BY DEF Rows, StagesHaveScripts
  <2>4. \A o \in Object : ScriptFor(heap'[o])
    BY <2>2, <2>3, Writable
  <2> QED BY <1>2, <2>4 DEF Initialize, StagesHaveScripts, ScriptFor
<1>3. CASE Reconcile
  <2>1. \A t \in Task : ScriptFor(row'[t])
    BY <1>3, Writable DEF Reconcile, StagesHaveScripts
  <2> QED BY <1>3, <2>1 DEF Reconcile, StagesHaveScripts, ScriptFor
<1> QED BY <1>1, <1>2, <1>3 DEF Restart

LEMMA NextScripts == TypeOK /\ StagesHaveScripts /\ [Next]_vars => StagesHaveScripts'
<1> SUFFICES ASSUME TypeOK, StagesHaveScripts, [Next]_vars PROVE StagesHaveScripts'
  OBVIOUS
<1>1. ASSUME NEW c \in Coroutine, Resume(c) \/ Progress(c) \/ WorkerDies(c) PROVE StagesHaveScripts'
  <2>1. CASE Progress(c)
    BY <2>1 DEF Progress, Heap, StagesHaveScripts, ScriptFor
  <2> QED BY <1>1, <2>1, CommitScripts, PipelineScripts, LoadScripts, ImageScripts, JobScripts,
             DeleteRowsScripts DEF Resume
<1>2. CASE UNCHANGED vars
  BY <1>2 DEF vars, StagesHaveScripts, ScriptFor
<1> QED BY <1>1, <1>2, RequestScripts, FlushScripts, RestartScripts DEF Next

LEMMA InitScripts == Init => StagesHaveScripts
BY Writable DEF Init, StagesHaveScripts, Idle, Await

\* Wherever a handler finds a stage that builds on the script, the script is
\* there: no interleaving of a retry, a late job, an old object, a restart or a
\* failed write leaves a row, object or snapshot with the stage alone.
THEOREM ScriptsFollowStages == Spec => []StagesHaveScripts
<1>1. TypeOK /\ StagesHaveScripts /\ [Next]_vars => StagesHaveScripts'
  BY NextScripts
<1> QED BY <1>1, InitScripts, TypeCorrect, PTL DEF Spec

-----------------------------------------------------------------------------
(***************************************************************************)
(* The keys of _busy have a holder, and no two coroutines hold the same    *)
(* key.                                                                    *)
(*                                                                         *)
(* Neither is inductive.  A coroutine that frees its key might free that   *)
(* of another one, unless no two hold it; a coroutine that takes a free    *)
(* key might meet one that holds it, unless holders' keys are in _busy; and*)
(* a Celery job, which ends without freeing, must not own a key.           *)
(***************************************************************************)
HoldersLocked == ~UseCelery => \A c \in Coroutine :
  HoldsKey(co[c]) /\ co[c].task \notin erased => <<co[c].task, co[c].key>> \in busy
QueueKeysFree == UseCelery /\ ~BrokerDown => \A b \in busy : b[2] = "image"

KeyInv == KeysHaveHolders /\ NoDuplicateWork /\ HoldersLocked /\ QueueKeysFree

-----------------------------------------------------------------------------
\* What a step of coroutine c to the frame f does about the key: nothing, take
\* it, free it, or (with Celery) pass a job through the queue without one.
SameKey(f, g) == f.task = g.task /\ f.key = g.key
Keeps(c, f)  == /\ busy' = busy
                /\ HoldsKey(f) <=> HoldsKey(co[c])
                /\ HoldsKey(f) => SameKey(f, co[c])
Takes(c, f)  == /\ busy' = busy \cup {<<f.task, f.key>>} /\ <<f.task, f.key>> \notin busy
                /\ HoldsKey(f) /\ ~HoldsKey(co[c])
                /\ UseCelery => f.key = "image"
Frees(c, f)  == /\ busy' = busy \ {<<co[c].task, co[c].key>>}
                /\ ~HoldsKey(f) /\ HoldsKey(co[c])
Queues(c, f) == /\ UseCelery /\ busy' = busy
                /\ HoldsKey(f) => f.key # "image"
                /\ HoldsKey(co[c]) => co[c].key # "image"

\* ... or leave it behind, when the broker cannot be reached.
Leaves(c, f) == /\ BrokerDown
                /\ \E b : busy' = busy \cup {b} /\ b[2] # "image"
                /\ ~HoldsKey(f) /\ ~HoldsKey(co[c])

KeyStep(c, f) == /\ co' = [co EXCEPT ![c] = f] /\ erased' = erased
                 /\ Keeps(c, f) \/ Takes(c, f) \/ Frees(c, f) \/ Queues(c, f) \/ Leaves(c, f)

LEMMA KeyStepInv ==
  ASSUME TypeOK, KeyInv, NEW c \in Coroutine, NEW f, KeyStep(c, f)
  PROVE  KeyInv'
<1>1. co'[c] = f /\ \A d \in Coroutine : d # c => co'[d] = co[d]
  BY DEF KeyStep, TypeOK, Types
<1>2. erased' = erased /\ busy \subseteq Task \X Key
  BY DEF KeyStep, TypeOK, Types
<1>3. CASE Keeps(c, f)
  <2>1. \A d \in Coroutine : /\ HoldsKey(co'[d]) <=> HoldsKey(co[d])
                             /\ HoldsKey(co[d]) => SameKey(co'[d], co[d])
    BY <1>1, <1>3 DEF Keeps, SameKey
  <2>2. busy' = busy
    BY <1>3 DEF Keeps
  <2> QED BY <1>2, <2>1, <2>2
        DEF KeyInv, KeysHaveHolders, NoDuplicateWork, HoldersLocked, QueueKeysFree, SameKey, HoldsKey
<1>4. CASE Takes(c, f)
  <2> DEFINE b == <<f.task, f.key>>
  <2>1. busy' = busy \cup {b} /\ b \notin busy /\ HoldsKey(f) /\ ~HoldsKey(co[c])
    BY <1>4 DEF Takes
  <2>2. KeysHaveHolders'
    BY <1>1, <2>1 DEF KeyInv, KeysHaveHolders, HoldsKey
  <2>3. HoldersLocked'
    BY <1>1, <1>2, <2>1 DEF KeyInv, HoldersLocked, HoldsKey
  <2>4. NoDuplicateWork'
    <3>1. \A d \in Coroutine : ~UseCelery /\ d # c /\ HoldsKey(co[d]) /\ co[d].task \notin erased
            => <<co[d].task, co[d].key>> # b
      BY <2>1 DEF KeyInv, HoldersLocked
    <3> QED BY <1>1, <1>2, <3>1 DEF KeyInv, NoDuplicateWork, HoldsKey
  <2>5. QueueKeysFree'
    BY <1>4, <2>1 DEF KeyInv, QueueKeysFree, Takes
  <2> QED BY <2>2, <2>3, <2>4, <2>5 DEF KeyInv
<1>5. CASE Frees(c, f)
  <2> DEFINE b == <<co[c].task, co[c].key>>
  <2>1. busy' = busy \ {b} /\ ~HoldsKey(f) /\ HoldsKey(co[c])
    BY <1>5 DEF Frees
  <2>2. KeysHaveHolders'
    <3> SUFFICES ASSUME NEW k \in busy, k # b
                 PROVE  (BrokerDown => k[2] = "image") =>
                          \E d \in Coroutine : HoldsKey(co'[d]) /\ co'[d].task = k[1] /\ co'[d].key = k[2]
      BY <2>1 DEF KeysHaveHolders, HoldsKey
    <3> HAVE BrokerDown => k[2] = "image"
    <3>1. PICK d \in Coroutine : HoldsKey(co[d]) /\ co[d].task = k[1] /\ co[d].key = k[2]
      BY DEF KeyInv, KeysHaveHolders
    <3>2. d # c
      BY <1>2, <3>1
    <3> QED BY <1>1, <3>1, <3>2
  <2>3. NoDuplicateWork'
    BY <1>1, <1>2, <2>1 DEF KeyInv, NoDuplicateWork, HoldsKey
  <2>4. HoldersLocked'
    <3> SUFFICES ASSUME ~UseCelery, NEW d \in Coroutine, HoldsKey(co'[d]), co'[d].task \notin erased
                 PROVE  <<co'[d].task, co'[d].key>> \in busy'
      BY <1>2 DEF HoldersLocked, HoldsKey
    <3>1. d # c /\ co'[d] = co[d]
      BY <1>1, <2>1
    <3>2. <<co[d].task, co[d].key>> # b
      BY <2>1, <3>1 DEF KeyInv, NoDuplicateWork
    <3> QED BY <2>1, <3>1, <3>2 DEF KeyInv, HoldersLocked
  <2>5. QueueKeysFree'
    BY <2>1 DEF KeyInv, QueueKeysFree
  <2> QED BY <2>2, <2>3, <2>4, <2>5 DEF KeyInv
<1>6. CASE Queues(c, f)
  <2>1. KeysHaveHolders'
    <3> SUFFICES ASSUME NEW k \in busy
                 PROVE  (BrokerDown => k[2] = "image") =>
                          \E d \in Coroutine : HoldsKey(co'[d]) /\ co'[d].task = k[1] /\ co'[d].key = k[2]
      BY <1>6 DEF KeysHaveHolders, HoldsKey, Queues
    <3> HAVE BrokerDown => k[2] = "image"
    <3>1. PICK d \in Coroutine : HoldsKey(co[d]) /\ co[d].task = k[1] /\ co[d].key = k[2]
      BY DEF KeyInv, KeysHaveHolders
    <3>2. d # c
      BY <1>6, <3>1 DEF KeyInv, QueueKeysFree, Queues
    <3> QED BY <1>1, <3>1, <3>2
  <2> QED BY <1>6, <2>1 DEF KeyInv, Queues, NoDuplicateWork, HoldersLocked, QueueKeysFree
<1>7. CASE Leaves(c, f)
  <2>1. KeysHaveHolders'
    <3> SUFFICES ASSUME NEW k \in busy, k[2] = "image"
                 PROVE  \E d \in Coroutine : HoldsKey(co'[d]) /\ co'[d].task = k[1] /\ co'[d].key = k[2]
      BY <1>7 DEF KeysHaveHolders, HoldsKey, Leaves
    <3>1. PICK d \in Coroutine : HoldsKey(co[d]) /\ co[d].task = k[1] /\ co[d].key = k[2]
      BY DEF KeyInv, KeysHaveHolders
    <3>2. d # c
      BY <1>7, <3>1 DEF Leaves
    <3> QED BY <1>1, <3>1, <3>2
  <2> QED BY <1>7, <2>1 DEF KeyInv, Leaves, BrokerDown, NoDuplicateWork, HoldersLocked, QueueKeysFree
<1> QED BY <1>3, <1>4, <1>5, <1>6, <1>7 DEF KeyStep

-----------------------------------------------------------------------------
\* Who holds a key.
LEMMA HoldsMeans ==
  ASSUME NEW f
  PROVE  HoldsKey(f) <=> \/ f.pc \in JobPC \cup {"drawing"}
                         \/ f.key = "image" /\ f.pc \in {"edited", "advanced"}
                         \/ f.key = "image" /\ f.then \in {"edited", "advanced"}
BY DEF HoldsKey

LEMMA Unheld ==
  ASSUME TypeOK, NEW c \in Coroutine,
         co[c].pc \notin JobPC \cup {"drawing", "edited", "advanced", "saving"}
  PROVE  ~HoldsKey(co[c])
<1>1. FrameOK(co[c])
  BY DEF TypeOK, FramesOK
<1> QED BY <1>1, HoldsMeans DEF FrameOK

\* A coroutine without a key goes on without one.
LEMMA StaysUnheld ==
  ASSUME TypeOK, KeyInv, NEW c \in Coroutine, ~HoldsKey(co[c]),
         NEW pc, NEW t, NEW o, NEW data, NEW k, NEW then,
         co' = [co EXCEPT ![c] = Await(pc, t, o, data, k, then)],
         pc \notin JobPC \cup {"drawing", "edited", "advanced"},
         k # "image" \/ then \notin {"edited", "advanced"},
         UNCHANGED <<busy, erased>>
  PROVE  KeyInv'
<1> DEFINE f == Await(pc, t, o, data, k, then)
<1>1. ~HoldsKey(f)
  BY HoldsMeans DEF Await
<1> HIDE DEF f
<1> QED BY <1>1, KeyStepInv DEF KeyStep, Keeps, f

LEMMA EndsUnheld ==
  ASSUME TypeOK, KeyInv, NEW c \in Coroutine, ~HoldsKey(co[c]), End(c), UNCHANGED <<busy, erased>>
  PROVE  KeyInv'
BY StaysUnheld DEF End, Idle, JobPC

LEMMA SavesUnheld ==
  ASSUME TypeOK, KeyInv, NEW c \in Coroutine, ~HoldsKey(co[c]),
         NEW t, NEW o, NEW h, NEW marks, NEW then, Save(c, t, o, h, marks, then),
         co[c].key # "image" \/ then \notin {"edited", "advanced"}, UNCHANGED <<busy, erased>>
  PROVE  KeyInv'
<1> DEFINE data == IF t \in marks THEN None ELSE h[o]
<1>1. co' = [co EXCEPT ![c] = Await("saving", t, o, data, co[c].key, then)]
  BY DEF Save
<1>2. "saving" \notin JobPC \cup {"drawing", "edited", "advanced"}
  BY DEF JobPC
<1> HIDE DEF data
<1> QED BY <1>1, <1>2, StaysUnheld

LEMMA GoesUnheld ==
  ASSUME TypeOK, KeyInv, NEW c \in Coroutine, ~HoldsKey(co[c]), NEW pc, NEW data, Goto(c, pc, data),
         pc \notin JobPC \cup {"drawing", "edited", "advanced"}, UNCHANGED <<busy, erased>>
  PROVE  KeyInv'
<1>1. co' = [co EXCEPT ![c] = Await(pc, co[c].task, co[c].obj, data, co[c].key, "idle")]
  BY DEF Goto
<1>2. "idle" \notin {"edited", "advanced"}
  OBVIOUS
<1> QED BY <1>1, <1>2, StaysUnheld

LEMMA IdleUnheld ==
  ASSUME NEW c \in Coroutine, Ask(c) \/ IdleUp(c)
  PROVE  ~HoldsKey(co[c]) /\ co[c].key # "image"
BY HoldsMeans, KeyAssumption DEF Ask, IdleUp, Idle, Await, JobPC

\* Neither keys nor frames change.
LEMMA SameKeys == KeyInv /\ UNCHANGED <<co, busy, erased>> => KeyInv'
BY DEF KeyInv, KeysHaveHolders, NoDuplicateWork, HoldersLocked, QueueKeysFree, HoldsKey

-----------------------------------------------------------------------------
LEMMA RequestKeys ==
  ASSUME TypeOK, KeyInv, NEW c \in Coroutine, NEW t \in Task, UserRequest(c, t)
  PROVE  KeyInv'
<1>1. Ask(c)
  BY DEF UserRequest, Submit, Load, Retry, Review, ReplaceImage, ClearImage, Edit, Regenerate,
         Compose, Delete, AskAbout
<1>2. ~HoldsKey(co[c]) /\ co[c].key # "image" /\ co[c] = Idle
  BY <1>1, IdleUnheld DEF Ask, IdleUp
<1>3. ASSUME NEW f, co' = [co EXCEPT ![c] = f], ~HoldsKey(f), UNCHANGED <<busy, erased>>
      PROVE  KeyInv'
  BY <1>2, <1>3, KeyStepInv DEF KeyStep, Keeps
<1>4. CASE Submit(c, t) \/ Load(c, t)
  <2> DEFINE f(pc) == Await(pc, t, None, None, None, "idle")
  <2>1. ~HoldsKey(f("submit")) /\ ~HoldsKey(f("load"))
    BY HoldsMeans DEF Await, JobPC
  <2>2. co' = [co EXCEPT ![c] = f("submit")] \/ co' = [co EXCEPT ![c] = f("load")]
    BY <1>4 DEF Submit, Load, Start
  <2> HIDE DEF f
  <2> QED BY <1>3, <1>4, <2>1, <2>2 DEF Submit, Load, ghost
<1>5. CASE Retry(c, t)
  <2> DEFINE f == Await("refresh", t, store[t], None, None, "retry")
  <2>1. ~HoldsKey(f)
    BY HoldsMeans DEF Await, JobPC
  <2>2. co' = [co EXCEPT ![c] = f]
    BY <1>5 DEF Retry, Refresh
  <2> HIDE DEF f
  <2> QED BY <1>3, <1>5, <2>1, <2>2 DEF Retry, ghost
<1>6. CASE Review(c, t)
  BY <1>2, <1>6, SavesUnheld, SameKeys DEF Review, ghost
<1>7. CASE ReplaceImage(c, t)
  BY <1>2, <1>7, SavesUnheld DEF ReplaceImage, ghost
<1>8. CASE ClearImage(c, t)
  BY <1>2, <1>8, SavesUnheld DEF ClearImage, ghost
<1>9. CASE Edit(c, t)
  BY <1>2, <1>9, SavesUnheld DEF Edit, ghost
<1>10. ASSUME NEW k \in Segment \cup {"image"}, Regenerate(c, t, k) PROVE KeyInv'
  <2> DEFINE then == IF k = "image" THEN "redraw" ELSE "segment"
  <2>1. then \notin {"edited", "advanced"} /\ co' = [co EXCEPT ![c] = Await("refresh", t, store[t], None, k, then)]
    BY <1>10 DEF Regenerate, Refresh
  <2> HIDE DEF then
  <2> QED BY <1>2, <1>10, <2>1, StaysUnheld DEF Regenerate, JobPC, ghost
<1>11. CASE Compose(c, t)
  <2> DEFINE f == Await("job", t, None, None, "compose", "idle")
  <2>1. erased' = erased
    BY <1>11 DEF Compose, ghost
  <2>2. HoldsKey(f) /\ f.task = t /\ f.key = "compose"
    BY HoldsMeans DEF Await, JobPC
  <2>3. ~HoldsKey(Idle) /\ <<t, "compose">>[2] # "image"
    BY HoldsMeans DEF Idle, Await, JobPC
  <2>4. CASE co' = [co EXCEPT ![c] = f] /\ UseCelery /\ busy' = busy
    <3>1. Queues(c, f)
      BY <1>2, <2>2, <2>4 DEF Queues
    <3> HIDE DEF f
    <3> QED BY <2>1, <2>4, <3>1, KeyStepInv DEF KeyStep
  <2>5. CASE co' = [co EXCEPT ![c] = f] /\ ~UseCelery /\ busy' = busy \cup {<<t, "compose">>}
    <3>1. Takes(c, f)
      BY <1>2, <1>11, <2>2, <2>5 DEF Compose, Takes
    <3> HIDE DEF f
    <3> QED BY <2>1, <2>5, <3>1, KeyStepInv DEF KeyStep
  <2>6. CASE BrokerDown /\ End(c) /\ busy' = busy \cup {<<t, "compose">>}
    <3>1. Leaves(c, Idle)
      BY <1>2, <2>3, <2>6 DEF Leaves
    <3> HIDE DEF Idle
    <3> QED BY <2>1, <2>6, <3>1, KeyStepInv DEF KeyStep, End
  <2> QED BY <1>11, <2>4, <2>5, <2>6 DEF Compose
<1>12. CASE Delete(c, t)
  <2> DEFINE f == Await("delete", t, None, None, None, "idle")
  <2>1. /\ co' = [co EXCEPT ![c] = f] /\ busy' = {b \in busy : b[1] # t}
        /\ erased \subseteq erased' /\ t \in erased'
    BY <1>12 DEF Delete, Start
  <2>2. ~HoldsKey(f)
    BY HoldsMeans DEF Await, JobPC
  <2> HIDE DEF f
  <2>3. \A d \in Coroutine : IF d = c THEN ~HoldsKey(co'[d]) ELSE co'[d] = co[d]
    BY <2>1, <2>2 DEF TypeOK, Types
  <2>4. KeysHaveHolders'
    <3> SUFFICES ASSUME NEW k \in busy, k[1] # t
                 PROVE  (BrokerDown => k[2] = "image") =>
                          \E d \in Coroutine : HoldsKey(co'[d]) /\ co'[d].task = k[1] /\ co'[d].key = k[2]
      BY <2>1 DEF KeysHaveHolders, HoldsKey
    <3> HAVE BrokerDown => k[2] = "image"
    <3>1. PICK d \in Coroutine : HoldsKey(co[d]) /\ co[d].task = k[1] /\ co[d].key = k[2]
      BY DEF KeyInv, KeysHaveHolders
    <3> QED BY <1>2, <2>3, <3>1
  <2>5. NoDuplicateWork'
    BY <2>1, <2>3 DEF KeyInv, NoDuplicateWork, HoldsKey
  <2>6. HoldersLocked'
    <3> SUFFICES ASSUME ~UseCelery, NEW d \in Coroutine, HoldsKey(co'[d]), co'[d].task \notin erased'
                 PROVE  <<co'[d].task, co'[d].key>> \in busy'
      BY DEF HoldersLocked, HoldsKey
    <3>1. co'[d] = co[d] /\ co[d].task # t /\ co[d].task \notin erased
      BY <2>1, <2>3
    <3>2. <<co[d].task, co[d].key>> \in busy
      BY <3>1 DEF KeyInv, HoldersLocked
    <3> QED BY <2>1, <3>1, <3>2
  <2>7. QueueKeysFree'
    BY <2>1 DEF KeyInv, QueueKeysFree
  <2> QED BY <2>4, <2>5, <2>6, <2>7 DEF KeyInv
<1> QED BY <1>4, <1>5, <1>6, <1>7, <1>8, <1>9, <1>10, <1>11, <1>12 DEF UserRequest

\* The pipelines, loads and saves that have nothing to do with keys.
LEMMA PipelineKeys ==
  ASSUME TypeOK, KeyInv, NEW c \in Coroutine,
         \/ SubmitSave(c) \/ SubmitRefreshed(c) \/ Resubmit(c) \/ Submitted(c) \/ ParseOk(c) \/ ParseFail(c) \/ Parsed(c) \/ Report(c)
         \/ LoadRead(c) \/ LoadPut(c) \/ Refreshed(c) \/ RetryReset(c) \/ Retried(c) \/ Staged(c)
         \/ DeleteRows(c)
  PROVE  KeyInv'
<1>1. ~HoldsKey(co[c])
  BY Unheld DEF SubmitSave, SubmitRefreshed, Resubmit, Submitted, ParseOk, ParseFail, Parsed, Report, LoadRead, LoadPut,
     Refreshed, RetryReset, Retried, Staged, DeleteRows, At, JobPC
<1>2. UNCHANGED <<busy, erased>>
  BY DEF SubmitSave, SubmitRefreshed, Resubmit, Submitted, ParseOk, ParseFail, Parsed, Report, LoadRead, LoadPut,
     Refreshed, RetryReset, Retried, Staged, DeleteRows, ghost
<1>3. \/ End(c)
      \/ \E pc \in {"parse", "loaded", "retry", "redraw", "segment"} : \E data : Goto(c, pc, data)
      \/ \E t, o, h, marks : \E then \in {"resubmit", "submitted", "parsed", "report", "retried", "idle", "retry",
                                          "redraw", "segment"} : Save(c, t, o, h, marks, then)
  <2>1. CASE SubmitSave(c) \/ SubmitRefreshed(c) \/ Resubmit(c) \/ ParseOk(c) \/ ParseFail(c) \/ RetryReset(c) \/ Staged(c)
    BY <2>1 DEF SubmitSave, SubmitRefreshed, Resubmit, ParseOk, ParseFail, RetryReset, Staged
  <2>2. CASE Submitted(c) \/ Retried(c) \/ Report(c) \/ LoadRead(c) \/ LoadPut(c) \/ DeleteRows(c)
    BY <2>2 DEF Submitted, Retried, Report, LoadRead, LoadPut, DeleteRows
  <2>3. CASE Parsed(c)
    BY <2>3 DEF Parsed
  <2>4. CASE Refreshed(c)
    <3>1. co[c].then \in {"retry", "redraw", "segment"}
      BY <2>4 DEF Refreshed, At, TypeOK, FramesOK, FrameOK
    <3> QED BY <2>4, <3>1 DEF Refreshed
  <2> QED BY <2>1, <2>2, <2>3, <2>4
<1>4. CASE End(c)
  BY <1>1, <1>2, <1>4, EndsUnheld
<1>5. ASSUME NEW pc \in {"parse", "loaded", "retry", "redraw", "segment"}, NEW data, Goto(c, pc, data)
      PROVE  KeyInv'
  BY <1>1, <1>2, <1>5, GoesUnheld DEF JobPC
<1>6. ASSUME NEW t, NEW o, NEW h, NEW marks,
             NEW then \in {"resubmit", "submitted", "parsed", "report", "retried", "idle", "retry", "redraw", "segment"},
             Save(c, t, o, h, marks, then)
      PROVE  KeyInv'
  BY <1>1, <1>2, <1>6, SavesUnheld
<1> QED BY <1>3, <1>4, <1>5, <1>6

LEMMA CommitKeys == ASSUME TypeOK, KeyInv, NEW c \in Coroutine, Commit(c) PROVE KeyInv'
<1>1. co[c].pc = "saving" /\ FrameOK(co[c]) /\ UNCHANGED <<busy, erased>>
  BY DEF Commit, At, TypeOK, FramesOK, ghost
<1>2. CASE co[c].then \in {"idle", "flushed"}
  <2>1. ~HoldsKey(co[c]) /\ End(c)
    BY <1>1, <1>2, HoldsMeans DEF JobPC, Commit
  <2> QED BY <1>1, <2>1, EndsUnheld
<1>3. CASE co[c].then \notin {"idle", "flushed"}
  <2> DEFINE f == Await(co[c].then, co[c].task, co[c].obj, None, co[c].key, "idle")
  <2>1. co' = [co EXCEPT ![c] = f]
    BY <1>3 DEF Commit, Goto
  <2>2. HoldsKey(f) <=> HoldsKey(co[c])
    BY <1>1, <1>3, HoldsMeans DEF Await, FrameOK, JobPC, Objectless
  <2>3. SameKey(f, co[c])
    BY DEF SameKey, Await
  <2> HIDE DEF f
  <2> QED BY <1>1, <2>1, <2>2, <2>3, KeyStepInv DEF KeyStep, Keeps
<1> QED BY <1>2, <1>3

\* The images: a key is taken, kept while the image is saved and the task
\* perhaps moved on, and freed on each way out.
LEMMA DrawKeys == ASSUME TypeOK, KeyInv, NEW c \in Coroutine, Draw(c) PROVE KeyInv'
<1>1. ~HoldsKey(co[c]) /\ co[c].key = "image" /\ erased' = erased
  BY Unheld DEF Draw, At, JobPC, TypeOK, FramesOK, FrameOK, ghost
<1>2. CASE Locked(c)
  BY <1>1, <1>2, EndsUnheld DEF Draw
<1>3. CASE ~Locked(c)
  <2> DEFINE f == Await("drawing", co[c].task, co[c].obj, None, co[c].key, "idle")
  <2>1. co' = [co EXCEPT ![c] = f]
    BY <1>3 DEF Draw, Goto
  <2>2. HoldsKey(f) /\ f.task = co[c].task /\ f.key = co[c].key
    BY HoldsMeans DEF Await
  <2> HIDE DEF f
  <2>3. Takes(c, f)
    BY <1>1, <1>3, <2>2 DEF Draw, Takes, Lock, Locked
  <2> QED BY <1>1, <2>1, <2>3, KeyStepInv DEF KeyStep
<1> QED BY <1>2, <1>3

\* A holder that ends frees its key; one that saves keeps it.
LEMMA EndFrees ==
  ASSUME TypeOK, KeyInv, NEW c \in Coroutine, HoldsKey(co[c]), End(c), Unlock(c), UNCHANGED erased
  PROVE  KeyInv'
<1>1. ~HoldsKey(Idle)
  BY HoldsMeans DEF Idle, Await, JobPC
<1> QED BY <1>1, KeyStepInv DEF KeyStep, Frees, End, Unlock

LEMMA SaveKeeps ==
  ASSUME TypeOK, KeyInv, NEW c \in Coroutine, HoldsKey(co[c]), co[c].key = "image",
         NEW o, NEW h, NEW marks, NEW then \in {"edited", "advanced"},
         Save(c, co[c].task, o, h, marks, then), UNCHANGED <<busy, erased>>
  PROVE  KeyInv'
<1> DEFINE f == Await("saving", co[c].task, o, IF co[c].task \in marks THEN None ELSE h[o],
                      co[c].key, then)
<1>1. co' = [co EXCEPT ![c] = f]
  BY DEF Save
<1>2. HoldsKey(f) /\ SameKey(f, co[c])
  BY HoldsMeans DEF Await, SameKey
<1> HIDE DEF f
<1> QED BY <1>1, <1>2, KeyStepInv DEF KeyStep, Keeps

LEMMA ImageKeys ==
  ASSUME TypeOK, KeyInv, NEW c \in Coroutine, Drawn(c) \/ Advance(c) \/ Advanced(c)
  PROVE  KeyInv'
<1>1. erased' = erased
  BY DEF Drawn, Advance, Advanced, ghost
<1>2. CASE Drawn(c)
  <2>1. HoldsKey(co[c]) /\ co[c].key = "image"
    BY <1>2, HoldsMeans DEF Drawn, At, TypeOK, FramesOK, FrameOK
  <2> QED BY <1>1, <1>2, <2>1, EndFrees, SaveKeeps DEF Drawn
<1>3. CASE (Advance(c) \/ Advanced(c)) /\ co[c].key = "image"
  <2>1. HoldsKey(co[c])
    BY <1>3, HoldsMeans DEF Advance, Advanced, At
  <2> QED BY <1>1, <1>3, <2>1, EndFrees, SaveKeeps DEF Advance, Advanced, Finish
<1>4. CASE (Advance(c) \/ Advanced(c)) /\ co[c].key # "image"
  <2>1. ~HoldsKey(co[c])
    BY <1>4, HoldsMeans DEF Advance, Advanced, At, JobPC
  <2> QED BY <1>1, <1>4, <2>1, EndsUnheld, SavesUnheld DEF Advance, Advanced, Finish
<1> QED BY <1>2, <1>3, <1>4

\* The jobs: a key from the scheduling to the refresh, but none in the queue.
LEMMA ScheduleKeys == ASSUME TypeOK, KeyInv, NEW c \in Coroutine, ScheduleSegment(c) PROVE KeyInv'
<1>1. ~HoldsKey(co[c]) /\ co[c].key # "image" /\ erased' = erased
  BY Unheld, KeyAssumption DEF ScheduleSegment, At, JobPC, TypeOK, FramesOK, FrameOK, ghost
<1>2. CASE End(c) /\ UNCHANGED busy
  BY <1>1, <1>2, EndsUnheld
<1>3. CASE ~Locked(c) /\ StartJob(c) /\ LockForJob(c)
  <2> DEFINE f == Await("job", co[c].task, None, None, co[c].key, "idle")
  <2>1. co' = [co EXCEPT ![c] = f]
    BY <1>3 DEF StartJob
  <2>2. HoldsKey(f) /\ f.task = co[c].task /\ f.key = co[c].key
    BY HoldsMeans DEF Await, JobPC
  <2> HIDE DEF f
  <2>3. Takes(c, f) \/ Queues(c, f)
    BY <1>1, <1>3, <2>2, ModeAssumption DEF Takes, Queues, Lock, Locked, LockForJob
  <2> QED BY <1>1, <2>1, <2>3, KeyStepInv DEF KeyStep
<1>4. CASE BrokerDown /\ End(c) /\ Lock(c)
  <2>1. ~HoldsKey(Idle)
    BY HoldsMeans DEF Idle, Await, JobPC
  <2>2. <<co[c].task, co[c].key>>[2] # "image"
    BY <1>1
  <2>3. Leaves(c, Idle)
    BY <1>1, <1>4, <2>1, <2>2 DEF Leaves, Lock
  <2> HIDE DEF Idle
  <2> QED BY <1>1, <1>4, <2>3, KeyStepInv DEF KeyStep, End
<1> QED BY <1>2, <1>3, <1>4 DEF ScheduleSegment

LEMMA JobKeys ==
  ASSUME TypeOK, KeyInv, NEW c \in Coroutine,
         \/ JobLoad(c) \/ JobSucceeds(c) \/ JobFails(c) \/ JobPersist(c) \/ JobAnnounce(c)
         \/ JobEnd(c) \/ JobRefresh(c) \/ WorkerDies(c)
  PROVE  KeyInv'
<1>1. co[c].pc \in JobPC /\ HoldsKey(co[c]) /\ co[c].key # "image" /\ erased' = erased
  <2>1. co[c].pc \in JobPC /\ erased' = erased
    BY DEF JobLoad, JobSucceeds, JobFails, JobPersist, JobAnnounce, JobEnd, JobRefresh, WorkerDies,
           At, JobPC, ghost
  <2> QED BY <2>1, HoldsMeans, KeyAssumption DEF TypeOK, FramesOK, FrameOK
<1>2. CASE JobRefresh(c)
  BY <1>1, <1>2, EndFrees DEF JobRefresh
<1>3. CASE UseCelery /\ End(c) /\ UNCHANGED busy
  <2>1. ~HoldsKey(Idle)
    BY HoldsMeans DEF Idle, Await, JobPC
  <2> QED BY <1>1, <1>3, <2>1, KeyStepInv DEF KeyStep, Queues, End
<1>4. ASSUME NEW pc \in JobPC, NEW data, Goto(c, pc, data), UNCHANGED busy PROVE KeyInv'
  <2> DEFINE f == Await(pc, co[c].task, co[c].obj, data, co[c].key, "idle")
  <2>1. co' = [co EXCEPT ![c] = f]
    BY <1>4 DEF Goto
  <2>2. HoldsKey(f) /\ SameKey(f, co[c])
    BY HoldsMeans DEF Await, SameKey
  <2> HIDE DEF f
  <2> QED BY <1>1, <1>4, <2>1, <2>2, KeyStepInv DEF KeyStep, Keeps
<1>5. CASE JobSucceeds(c)
  BY <1>4, <1>5 DEF JobSucceeds, JobPC
<1>6. CASE JobLoad(c) \/ JobFails(c) \/ JobPersist(c) \/ JobAnnounce(c)
  BY <1>4, <1>6 DEF JobLoad, JobFails, JobPersist, JobAnnounce, JobRaised, JobPC
<1>7. CASE JobEnd(c)
  BY <1>3, <1>4, <1>7 DEF JobEnd, JobPC
<1>8. CASE WorkerDies(c)
  BY <1>3, <1>4, <1>8 DEF WorkerDies, JobPC
<1> QED BY <1>2, <1>5, <1>6, <1>7, <1>8

\* A restart empties _busy; with Celery the jobs in the queue live on.
LEMMA RestartKeys == ASSUME TypeOK, KeyInv, Restart PROVE KeyInv'
<1>1. CASE Crash
  <2>1. ~HoldsKey(Idle)
    BY HoldsMeans DEF Idle, Await, JobPC
  <2>2. busy' = {} /\ (~UseCelery => \A c \in Coroutine : co'[c] = Idle)
    BY <1>1 DEF Crash
  <2> HIDE DEF Idle
  <2> QED BY <2>1, <2>2
        DEF KeyInv, KeysHaveHolders, NoDuplicateWork, HoldersLocked, QueueKeysFree, HoldsKey
<1>2. CASE Initialize \/ Reconcile
  BY <1>2, SameKeys DEF Initialize, Reconcile, ghost
<1> QED BY <1>1, <1>2 DEF Restart

LEMMA InitKeys == Init => KeyInv
<1>1. ~HoldsKey(Idle)
  BY HoldsMeans DEF Idle, Await, JobPC
<1> HIDE DEF Idle
<1> QED BY <1>1 DEF Init, KeyInv, KeysHaveHolders, NoDuplicateWork, HoldersLocked, QueueKeysFree

LEMMA NextKeys == TypeOK /\ KeyInv /\ [Next]_vars => KeyInv'
<1> SUFFICES ASSUME TypeOK, KeyInv, [Next]_vars PROVE KeyInv'
  OBVIOUS
<1>1. ASSUME NEW c \in Coroutine, Resume(c) PROVE KeyInv'
  BY <1>1, PipelineKeys, CommitKeys, DrawKeys, ImageKeys, ScheduleKeys, JobKeys DEF Resume
<1>2. ASSUME NEW c \in Coroutine, NEW t \in Task, NEW o \in Object, Flush(c, t, o) PROVE KeyInv'
  BY <1>2, IdleUnheld, SavesUnheld DEF Flush, ghost
<1>3. ASSUME NEW c \in Coroutine, Progress(c) PROVE KeyInv'
  BY <1>3, SameKeys DEF Progress, ghost
<1>4. CASE UNCHANGED vars
  BY <1>4, SameKeys DEF vars, ghost
<1> QED BY <1>1, <1>2, <1>3, <1>4, JobKeys, RequestKeys, RestartKeys DEF Next

LEMMA KeyInvariant == Spec => []KeyInv
BY InitKeys, NextKeys, TypeCorrect, PTL DEF Spec

\* Every key in _busy has a coroutine at work that frees it when it ends: no
\* early return, failure, deletion or restart leaves a key behind.  Where jobs
\* go through a broker that may fail this is so of the keys of images only.
THEOREM NoKeyLeaks == Spec => []KeysHaveHolders
BY KeyInvariant, PTL DEF KeyInv

\* Without Celery no image, segment video or composition of a task is worked
\* on twice at a time, as long as nobody asked to delete the task.
THEOREM WorkIsExclusive == Spec => []NoDuplicateWork
BY KeyInvariant, PTL DEF KeyInv

-----------------------------------------------------------------------------
(***************************************************************************)
(* The rows: once a task is dead it stays dead, and a task whose           *)
(* submission was answered keeps its row until somebody deletes it.        *)
(* Dead(t) is preserved by every step from a state that satisfies TypeOK,  *)
(* so nothing else is needed to strengthen it; that the answered tasks     *)
(* have rows needs AckInv.                                                 *)
(***************************************************************************)
\* What Dead(t) asks of a coroutine's frame, marked or not.
Harmless(f, t) == f.task = t =>
  /\ f.pc \notin {"submit", "resubmit", "loaded", "retry", "delete"}
  /\ f.then \notin {"resubmit", "retry"}
  /\ f.pc \in {"saving", "job_refresh"} => f.data = None
Foreign(f, t) == f.task = t => f.pc \in JobPC \cup {"load"}

\* The task is gone and its mark is set, or only foreign work is left of it.
Gone(t)  == t \in born /\ row[t] = None /\ store[t] = None
Quiet(t) == flush[t] = {} /\ sink[t] = None

LEMMA DeadMeans ==
  ASSUME NEW t \in Task
  PROVE  Dead(t) <=> /\ Gone(t)
                     /\ \A c \in Coroutine : Harmless(co[c], t)
                     /\ \/ t \in deleted
                        \/ Quiet(t) /\ \A c \in Coroutine : Foreign(co[c], t)
BY DEF Dead, Gone, Quiet, Harmless, Foreign

\* A coroutine goes on to frame f and leaves the dead task as it is.
Spares(c, f, t) ==
  /\ co' = [co EXCEPT ![c] = f]
  /\ Harmless(f, t)
  /\ t \in born' /\ row'[t] = row[t] /\ store'[t] = store[t]
  /\ t \in deleted => t \in deleted'
  /\ t \notin deleted => flush'[t] = flush[t] /\ sink'[t] = sink[t] /\ Foreign(f, t)

LEMMA SparedStaysDead ==
  ASSUME TypeOK, NEW t \in Task, Dead(t), NEW c \in Coroutine, NEW f, Spares(c, f, t)
  PROVE  Dead(t)'
<1>1. \A d \in Coroutine : Harmless(co[d], t)' /\ Gone(t)'
  BY DeadMeans DEF Spares, TypeOK, Types, Harmless, Gone
<1>2. CASE t \in deleted
  BY <1>1, <1>2 DEF Spares, Dead, Harmless, Gone
<1>3. CASE t \notin deleted
  <2>1. Quiet(t) /\ \A d \in Coroutine : Foreign(co[d], t)
    BY <1>3, DeadMeans
  <2>2. Quiet(t)' /\ \A d \in Coroutine : Foreign(co[d], t)'
    BY <1>3, <2>1 DEF Spares, Quiet, Foreign, TypeOK, Types
  <2> QED BY <1>1, <2>2 DEF Dead, Harmless, Gone, Quiet, Foreign
<1> QED BY <1>2, <1>3

\* Facts about a dead task used throughout.
LEMMA OfDead ==
  ASSUME TypeOK, NEW t \in Task, Dead(t)
  PROVE  /\ t \in born /\ row[t] = None /\ store[t] = None
         /\ ~HasScript(t)
         /\ \A c \in Coroutine : Harmless(co[c], t)
         /\ t \notin deleted => /\ Quiet(t)
                                /\ \A c \in Coroutine : Foreign(co[c], t)
BY DeadMeans DEF Gone, HasScript

\* A message of the task's own goes nowhere, one of another task elsewhere.
LEMMA LogSpares ==
  ASSUME TypeOK, NEW t \in Task, Dead(t), NEW u \in Task, NEW s, Log(u, s),
         u = t => s = sink[t]
  PROVE  t \notin deleted => flush'[t] = flush[t]
BY OfDead DEF Log, Quiet, TypeOK, Types

\* A save does not touch a dead task, a marked one included.
LEMMA SaveSpares ==
  ASSUME TypeOK, NEW t \in Task, Dead(t), NEW c \in Coroutine, NEW u \in Task, NEW o, NEW h,
         NEW marks, NEW then, Save(c, u, o, h, marks, then),
         u = t => t \in deleted /\ t \in marks /\ then \notin {"resubmit", "retry"},
         born' = born, row' = row, t \in deleted => t \in deleted',
         t \notin deleted => flush'[t] = flush[t] /\ sink'[t] = sink[t]
  PROVE  Dead(t)'
<1> DEFINE f == Await("saving", u, o, IF u \in marks THEN None ELSE h[o], co[c].key, then)
<1>1. co' = [co EXCEPT ![c] = f] /\ store'[t] = store[t]
  BY OfDead DEF Save, TypeOK, Types
<1>2. Harmless(f, t) /\ (t \notin deleted => Foreign(f, t))
  BY DEF Await, Harmless, Foreign
<1> HIDE DEF f
<1> QED BY <1>1, <1>2, OfDead, SparedStaysDead DEF Spares

\* A coroutine suspended with an object of the dead task: the mark is set.
LEMMA MarkedWhileSuspended ==
  ASSUME TypeOK, NEW t \in Task, Dead(t), NEW c \in Coroutine, co[c].pc \notin Objectless
  PROVE  co[c].task = t => t \in deleted
BY OfDead DEF Foreign, Objectless

\* A coroutine with an object saves it, ends, or goes on.
LEMMA SaveBySuspended ==
  ASSUME TypeOK, NEW t \in Task, Dead(t), NEW c \in Coroutine, co[c].pc \notin Objectless,
         NEW o, NEW h, NEW then, Save(c, co[c].task, o, h, deleted, then),
         co[c].task = t => then \notin {"resubmit", "retry"},
         UNCHANGED <<row, sink, deleted, born>>,
         flush' = flush \/ Log(co[c].task, sink[co[c].task])
  PROVE  Dead(t)'
<1>1. co[c].task = t => t \in deleted
  BY MarkedWhileSuspended
<1>2. co[c].task \in Task
  BY Suspended
<1>3. t \notin deleted => flush'[t] = flush[t]
  BY <1>2, LogSpares
<1> QED BY <1>1, <1>2, <1>3, SaveSpares

LEMMA EndSpares ==
  ASSUME TypeOK, NEW t \in Task, Dead(t), NEW c \in Coroutine, End(c), UNCHANGED <<store, sink, born>>,
         row'[t] = row[t], t \in deleted => t \in deleted',
         t \notin deleted => flush'[t] = flush[t]
  PROVE  Dead(t)'
<1>1. Idle.task # t /\ co' = [co EXCEPT ![c] = Idle]
  BY NoneAssumption DEF Idle, Await, End
<1>2. Harmless(Idle, t) /\ Foreign(Idle, t)
  BY <1>1 DEF Harmless, Foreign
<1> QED BY <1>1, <1>2, OfDead, SparedStaysDead DEF Spares

LEMMA GotoSpares ==
  ASSUME TypeOK, NEW t \in Task, Dead(t), NEW c \in Coroutine, NEW pc, NEW data, Goto(c, pc, data),
         co[c].task = t => /\ pc \notin {"submit", "resubmit", "loaded", "retry", "delete"}
                           /\ pc \in {"saving", "job_refresh"} => data = None
                           /\ t \in deleted \/ (sink'[t] = sink[t] /\ pc \in JobPC \cup {"load"}),
         UNCHANGED <<row, store, deleted, born>>,
         \A u \in Task : u # co[c].task => sink'[u] = sink[u],
         t \notin deleted => flush'[t] = flush[t]
  PROVE  Dead(t)'
<1> DEFINE f == Await(pc, co[c].task, co[c].obj, data, co[c].key, "idle")
<1>1. co' = [co EXCEPT ![c] = f]
  BY DEF Goto
<1>2. Harmless(f, t) /\ (t \notin deleted => Foreign(f, t))
  BY DEF Harmless, Foreign, Await
<1> HIDE DEF f
<1> QED BY <1>1, <1>2, OfDead, SparedStaysDead DEF Spares

\* A request that saves nothing asks for another task, or loads this one.
LEMMA RequestSpares ==
  ASSUME TypeOK, NEW t \in Task, Dead(t), NEW c \in Coroutine, NEW u, NEW pc, NEW o, NEW k, NEW then,
         co' = [co EXCEPT ![c] = Await(pc, u, o, None, k, then)],
         u = t => pc = "load" /\ then = "idle",
         UNCHANGED <<row, flush>>, born \subseteq born', deleted \subseteq deleted',
         store'[t] = store[t], sink'[t] = sink[t]
  PROVE  Dead(t)'
<1> DEFINE f == Await(pc, u, o, None, k, then)
<1>1. Harmless(f, t) /\ Foreign(f, t)
  BY DEF Harmless, Foreign, Await
<1> HIDE DEF f
<1> QED BY <1>1, OfDead, SparedStaysDead DEF Spares, f

-----------------------------------------------------------------------------
\* The requests.
LEMMA RequestKeepsDead ==
  ASSUME TypeOK, NEW t \in Task, Dead(t), NEW c \in Coroutine, NEW u \in Task, UserRequest(c, u)
  PROVE  Dead(t)'
<1>1. CASE Submit(c, u)
  BY <1>1, OfDead, RequestSpares DEF Submit, Start
<1>2. CASE Load(c, u)
  BY <1>2, RequestSpares DEF Load, Start, ghost
<1>3. CASE Retry(c, u)
  BY <1>3, OfDead, RequestSpares DEF Retry, Refresh, ghost
<1>4. CASE Review(c, u)
  <2>1. u # t
    BY <1>4, OfDead DEF Review
  <2>2. UNCHANGED <<row, sink, deleted, born>>
    BY <1>4 DEF Review, ghost
  <2>3. CASE \E h : Save(c, u, store[u], h, deleted, "reviewed") /\ UNCHANGED flush
    BY <2>1, <2>2, <2>3, SaveSpares
  <2>4. CASE UNCHANGED <<co, store>> /\ Log(u, sink[u])
    <3>1. t \notin deleted => flush'[t] = flush[t]
      BY <2>4, LogSpares
    <3> QED BY <2>2, <2>4, <3>1 DEF Dead
  <2>5. CASE UNCHANGED <<co, store, flush>>
    BY <2>2, <2>5 DEF Dead
  <2> QED BY <1>4, <2>3, <2>4, <2>5 DEF Review
<1>5. CASE ReplaceImage(c, u)
  <2>1. u # t
    BY <1>5, OfDead DEF ReplaceImage
  <2>2. t \notin deleted => flush'[t] = flush[t]
    BY <1>5, <2>1, LogSpares DEF ReplaceImage
  <2> QED BY <1>5, <2>1, <2>2, SaveSpares DEF ReplaceImage, ghost
<1>6. CASE ClearImage(c, u)
  <2>1. u # t
    BY <1>6, OfDead DEF ClearImage
  <2>2. t \notin deleted => flush'[t] = flush[t]
    BY <1>6, <2>1, LogSpares DEF ClearImage
  <2> QED BY <1>6, <2>1, <2>2, SaveSpares DEF ClearImage, ghost
<1>7. CASE Edit(c, u)
  BY <1>7, OfDead, SaveSpares DEF Edit, ghost
<1>8. ASSUME NEW k \in Segment \cup {"image"}, Regenerate(c, u, k) PROVE Dead(t)'
  BY <1>8, OfDead, RequestSpares DEF Regenerate, Refresh, ghost
<1>9. CASE Compose(c, u)
  BY <1>9, OfDead, RequestSpares, EndSpares DEF Compose, ghost
<1>10. CASE Delete(c, u)
  <2>1. u # t
    BY <1>10, OfDead DEF Delete
  <2> QED BY <1>10, <2>1, RequestSpares DEF Delete, Start, TypeOK, Types
<1> QED BY <1>1, <1>2, <1>3, <1>4, <1>5, <1>6, <1>7, <1>8, <1>9, <1>10 DEF UserRequest

LEMMA FlushKeepsDead ==
  ASSUME TypeOK, NEW t \in Task, Dead(t), NEW c \in Coroutine, NEW u \in Task, NEW o \in Object,
         Flush(c, u, o)
  PROVE  Dead(t)'
<1>1. u = t => t \in deleted
  BY OfDead DEF Flush, Quiet
<1>2. t \notin deleted => flush'[t] = flush[t]
  BY <1>1 DEF Flush, TypeOK, Types
<1> QED BY <1>1, <1>2, SaveSpares DEF Flush, ghost

-----------------------------------------------------------------------------
\* The coroutines.
LEMMA CommitKeepsDead ==
  ASSUME TypeOK, NEW t \in Task, Dead(t), NEW c \in Coroutine, Commit(c)
  PROVE  Dead(t)'
<1>1. /\ co[c].pc \notin Objectless /\ FrameOK(co[c]) /\ co[c].task \in Task
      /\ co[c].task = t => t \in deleted /\ co[c].data = None /\ co[c].then \notin {"resubmit", "retry"}
  BY MarkedWhileSuspended, Suspended, ReturnsTo, OfDead DEF Commit, At, Harmless
<1>2. row'[t] = row[t]
  BY <1>1 DEF Commit, TypeOK, Types
<1>3. /\ UNCHANGED <<store, sink, deleted, born, flush>>
      /\ End(c) \/ (Goto(c, co[c].then, None) /\ co[c].then # "idle")
  BY DEF Commit, ghost
<1>4. CASE End(c)
  BY <1>2, <1>3, <1>4, EndSpares
<1>5. CASE Goto(c, co[c].then, None) /\ co[c].then # "idle"
  <2> DEFINE f == Await(co[c].then, co[c].task, co[c].obj, None, co[c].key, "idle")
  <2>1. co[c].then \notin {"submit", "resubmit", "loaded", "retry", "delete"} \/ co[c].task # t
    BY <1>1, <1>5 DEF FrameOK, Commit, At, Objectless
  <2>2. Harmless(f, t) /\ (t \notin deleted => Foreign(f, t))
    BY <1>1, <2>1 DEF Harmless, Foreign, Await
  <2>3. co' = [co EXCEPT ![c] = f]
    BY <1>5 DEF Goto
  <2> HIDE DEF f
  <2> QED BY <1>2, <1>3, <2>2, <2>3, OfDead, SparedStaysDead DEF Spares
<1> QED BY <1>3, <1>4, <1>5

LEMMA SubmitSaveKeepsDead ==
  ASSUME TypeOK, NEW t \in Task, Dead(t), NEW c \in Coroutine,
         SubmitSave(c) \/ SubmitRefreshed(c) \/ Resubmit(c)
  PROVE  Dead(t)'
<1>1. co[c].task # t /\ co[c].task \in Task
  BY OfDead DEF SubmitSave, SubmitRefreshed, Resubmit, At, Harmless, TypeOK, FramesOK, FrameOK
<1>2. CASE SubmitSave(c)
  BY <1>1, <1>2, SaveSpares DEF SubmitSave, ghost
<1>3. CASE SubmitRefreshed(c)
  BY <1>1, <1>3, SaveSpares DEF SubmitRefreshed, ghost
<1>4. CASE Resubmit(c)
  BY <1>1, <1>4, SaveSpares DEF Resubmit, ghost
<1> QED BY <1>2, <1>3, <1>4

LEMMA RetryResetKeepsDead ==
  ASSUME TypeOK, NEW t \in Task, Dead(t), NEW c \in Coroutine, RetryReset(c)
  PROVE  Dead(t)'
<1>1. co[c].task # t /\ co[c].task \in Task
  BY OfDead DEF RetryReset, At, Harmless, TypeOK, FramesOK, FrameOK
<1> QED BY <1>1, SaveSpares DEF RetryReset

\* Those that log and go on to the pipeline.
LEMMA BindKeepsDead ==
  ASSUME TypeOK, NEW t \in Task, Dead(t), NEW c \in Coroutine, Submitted(c) \/ Retried(c)
  PROVE  Dead(t)'
<1> DEFINE u == co[c].task
<1>1. u \in Task /\ (u = t => t \in deleted)
  BY MarkedWhileSuspended, Suspended, ReturnsTo DEF Submitted, Retried, At
<1>2. /\ Goto(c, "parse", None) /\ UNCHANGED <<row, store, deleted, born>>
      /\ sink' = [sink EXCEPT ![u] = co[c].obj]
      /\ flush' = flush \/ Log(u, co[c].obj)
  BY DEF Submitted, Retried, ghost
<1>3. \A v \in Task : v # u => sink'[v] = sink[v]
  BY <1>2 DEF TypeOK, Types
<1>4. t \notin deleted => flush'[t] = flush[t]
  BY <1>1, <1>2, LogSpares
<1> QED BY <1>1, <1>2, <1>3, <1>4, GotoSpares

\* Those that only save, or end, with or without a message.
LEMMA PipelineKeepsDead ==
  ASSUME TypeOK, NEW t \in Task, Dead(t), NEW c \in Coroutine,
         \/ ParseOk(c) \/ ParseFail(c) \/ Parsed(c) \/ Report(c) \/ Staged(c)
         \/ Drawn(c) \/ Advance(c) \/ Advanced(c)
  PROVE  Dead(t)'
<1> DEFINE u == co[c].task
<1>1. /\ co[c].pc \notin Objectless
      /\ UNCHANGED <<row, sink, deleted, born>>
      /\ flush' = flush \/ Log(u, sink[u])
      /\ \/ \E h : \E then \in {"parsed", "report", "idle", "edited", "advanced"} :
              Save(c, u, co[c].obj, h, deleted, then)
         \/ End(c) /\ store' = store
  <2>1. CASE ParseOk(c)
    BY <2>1, ReturnsTo DEF ParseOk, At, ghost
  <2>2. CASE ParseFail(c)
    BY <2>2, ReturnsTo DEF ParseFail, At, ghost
  <2>3. CASE Parsed(c)
    BY <2>3, ReturnsTo DEF Parsed, At, ghost
  <2>4. CASE Report(c)
    BY <2>4, ReturnsTo DEF Report, At, ghost
  <2>5. CASE Staged(c)
    BY <2>5, ReturnsTo DEF Staged, At, ghost
  <2>6. CASE Drawn(c)
    BY <2>6, ReturnsTo DEF Drawn, At, ghost
  <2>7. CASE Advance(c)
    BY <2>7, ReturnsTo DEF Advance, At, ghost, Finish
  <2>8. CASE Advanced(c)
    BY <2>8, ReturnsTo DEF Advanced, At, ghost, Finish
  <2> QED BY <2>1, <2>2, <2>3, <2>4, <2>5, <2>6, <2>7, <2>8
<1>2. t \notin deleted => flush'[t] = flush[t]
  BY <1>1, Suspended, LogSpares
<1>3. CASE End(c) /\ store' = store
  BY <1>1, <1>2, <1>3, EndSpares
<1>4. ASSUME NEW h, NEW then \in {"parsed", "report", "idle", "edited", "advanced"},
             Save(c, u, co[c].obj, h, deleted, then)
      PROVE  Dead(t)'
  BY <1>1, <1>4, SaveBySuspended
<1> QED BY <1>1, <1>3, <1>4

LEMMA ProgressKeepsDead ==
  ASSUME TypeOK, NEW t \in Task, Dead(t), NEW c \in Coroutine, Progress(c)
  PROVE  Dead(t)'
<1>1. co[c].task \in Task
  BY DEF Progress, At, TypeOK, FramesOK, FrameOK
<1>2. t \notin deleted => flush'[t] = flush[t]
  BY <1>1, LogSpares DEF Progress
<1> QED BY <1>2 DEF Progress, Dead, ghost

LEMMA LoadKeepsDead ==
  ASSUME TypeOK, NEW t \in Task, Dead(t), NEW c \in Coroutine, LoadRead(c) \/ LoadPut(c)
  PROVE  Dead(t)'
<1>1. CASE LoadRead(c)
  BY <1>1, OfDead, EndSpares, GotoSpares DEF LoadRead, ghost
<1>2. CASE LoadPut(c)
  <2>1. co[c].task # t
    BY <1>2, OfDead DEF LoadPut, At, Harmless
  <2>2. Idle.task # t /\ co' = [co EXCEPT ![c] = Idle]
    BY <1>2, NoneAssumption DEF LoadPut, Idle, Await, End
  <2>3. Harmless(Idle, t) /\ Foreign(Idle, t)
    BY <2>2 DEF Harmless, Foreign
  <2>4. store'[t] = store[t] /\ sink'[t] = sink[t]
    BY <1>2, <2>1 DEF LoadPut, TypeOK, Types
  <2> QED BY <1>2, <2>2, <2>3, <2>4, OfDead, SparedStaysDead DEF Spares, LoadPut, ghost
<1> QED BY <1>1, <1>2

LEMMA RefreshedKeepsDead ==
  ASSUME TypeOK, NEW t \in Task, Dead(t), NEW c \in Coroutine, Refreshed(c)
  PROVE  Dead(t)'
<1>1. /\ co[c].pc \notin Objectless
      /\ co[c].task = t => co[c].then # "retry"
      /\ co[c].then \in {"retry", "redraw", "segment"}
  BY OfDead, ReturnsTo DEF Refreshed, At, Harmless, TypeOK, FramesOK, FrameOK
<1>2. co[c].task = t => t \in deleted
  BY <1>1, MarkedWhileSuspended
<1>3. UNCHANGED <<row, sink, flush, deleted, born>>
  BY DEF Refreshed, ghost
<1>4. CASE Goto(c, co[c].then, None) /\ UNCHANGED store
  BY <1>1, <1>2, <1>3, <1>4, GotoSpares
<1>5. CASE Save(c, co[c].task, co[c].obj, heap, deleted, co[c].then)
  BY <1>1, <1>3, <1>5, SaveBySuspended
<1> QED BY <1>4, <1>5 DEF Refreshed

LEMMA LocksKeepDead ==
  ASSUME TypeOK, NEW t \in Task, Dead(t), NEW c \in Coroutine, Draw(c) \/ ScheduleSegment(c)
  PROVE  Dead(t)'
<1>1. co[c].pc \notin Objectless
  BY ReturnsTo DEF Draw, ScheduleSegment, At
<1>2. co[c].task = t => t \in deleted
  BY <1>1, MarkedWhileSuspended
<1>3. UNCHANGED <<row, store, sink, flush, deleted, born>>
  BY DEF Draw, ScheduleSegment, ghost
<1>4. CASE End(c)
  BY <1>3, <1>4, EndSpares
<1>5. CASE Goto(c, "drawing", None)
  BY <1>2, <1>3, <1>5, GotoSpares
<1>6. CASE StartJob(c)
  <2> DEFINE f == Await("job", co[c].task, None, None, co[c].key, "idle")
  <2>1. Harmless(f, t) /\ Foreign(f, t)
    BY DEF Harmless, Foreign, Await, JobPC
  <2>2. co' = [co EXCEPT ![c] = f]
    BY <1>6 DEF StartJob
  <2> HIDE DEF f
  <2> QED BY <1>3, <2>1, <2>2, OfDead, SparedStaysDead DEF Spares
<1> QED BY <1>4, <1>5, <1>6 DEF Draw, ScheduleSegment

\* The jobs: there is no row for them to load, to write or to read back.
LEMMA JobKeepsDead ==
  ASSUME TypeOK, NEW t \in Task, Dead(t), NEW c \in Coroutine,
         \/ JobLoad(c) \/ JobSucceeds(c) \/ JobFails(c) \/ JobPersist(c) \/ JobAnnounce(c) \/ JobEnd(c)
         \/ WorkerDies(c)
  PROVE  Dead(t)'
<1> DEFINE u == co[c].task
<1>1. u \in Task
  BY DEF JobLoad, JobSucceeds, JobFails, JobPersist, JobAnnounce, JobEnd, WorkerDies, JobPC, At,
         TypeOK, FramesOK, FrameOK
<1>2. /\ UNCHANGED <<store, sink, deleted, born>>
      /\ flush' = flush \/ Log(u, sink[u])
  BY DEF JobLoad, JobSucceeds, JobFails, JobPersist, JobAnnounce, JobEnd, WorkerDies, JobLog, ghost
<1>3. row'[t] = row[t]
  BY <1>1, OfDead DEF JobLoad, JobSucceeds, JobFails, JobPersist, JobAnnounce, JobEnd, WorkerDies,
                      TypeOK, Types
<1>4. \/ End(c)
      \/ \E pc \in JobPC : \E data : Goto(c, pc, data) /\ (u = t /\ pc = "job_refresh" => data = None)
  <2>1. CASE JobEnd(c)
    BY <2>1, OfDead DEF JobEnd, JobPC
  <2>2. CASE JobSucceeds(c)
    BY <2>2 DEF JobSucceeds, JobPC
  <2>3. CASE JobLoad(c) \/ JobFails(c) \/ JobPersist(c) \/ JobAnnounce(c) \/ WorkerDies(c)
    BY <2>3 DEF JobLoad, JobFails, JobPersist, JobAnnounce, WorkerDies, JobRaised, JobPC
  <2> QED BY <2>1, <2>2, <2>3
<1>5. t \notin deleted => flush'[t] = flush[t]
  BY <1>1, <1>2, LogSpares
<1>6. CASE End(c)
  BY <1>2, <1>3, <1>5, <1>6, EndSpares
<1>7. ASSUME NEW pc \in JobPC, NEW data, Goto(c, pc, data), u = t /\ pc = "job_refresh" => data = None
      PROVE  Dead(t)'
  <2> DEFINE f == Await(pc, u, co[c].obj, data, co[c].key, "idle")
  <2>1. Harmless(f, t) /\ Foreign(f, t)
    BY <1>7 DEF Harmless, Foreign, Await, JobPC
  <2>2. co' = [co EXCEPT ![c] = f]
    BY <1>7 DEF Goto
  <2> HIDE DEF f
  <2> QED BY <1>2, <1>3, <1>5, <2>1, <2>2, OfDead, SparedStaysDead DEF Spares
<1> QED BY <1>4, <1>6, <1>7

LEMMA JobRefreshKeepsDead ==
  ASSUME TypeOK, NEW t \in Task, Dead(t), NEW c \in Coroutine, JobRefresh(c)
  PROVE  Dead(t)'
<1>1. co[c].task \in Task /\ (co[c].task = t => co[c].data = None)
  BY OfDead DEF JobRefresh, At, Harmless, TypeOK, FramesOK, FrameOK
<1>2. store'[t] = store[t]
  BY <1>1, OfDead DEF JobRefresh, TypeOK, Types
<1>3. Idle.task # t /\ co' = [co EXCEPT ![c] = Idle]
  BY NoneAssumption DEF JobRefresh, Idle, Await, End
<1>4. Harmless(Idle, t) /\ Foreign(Idle, t)
  BY <1>3 DEF Harmless, Foreign
<1> QED BY <1>2, <1>3, <1>4, OfDead, SparedStaysDead DEF Spares, JobRefresh, ghost

LEMMA DeleteRowsKeepsDead ==
  ASSUME TypeOK, NEW t \in Task, Dead(t), NEW c \in Coroutine, DeleteRows(c)
  PROVE  Dead(t)'
<1>1. co[c].task # t
  BY OfDead DEF DeleteRows, At, Harmless
<1>2. row'[t] = row[t] /\ (t \in deleted => t \in deleted')
  BY <1>1, OfDead DEF DeleteRows
<1> QED BY <1>2, EndSpares DEF DeleteRows, ghost

-----------------------------------------------------------------------------
\* A restart forgets the marks, and all the coroutines that needed them.
LEMMA RestartKeepsDead ==
  ASSUME TypeOK, NEW t \in Task, Dead(t), Restart
  PROVE  Dead(t)'
<1>1. CASE Crash
  <2>1. \A c \in Coroutine : Harmless(co[c], t)' /\ Foreign(co[c], t)'
    <3>1. Idle.task # t
      BY NoneAssumption DEF Idle, Await
    <3>2. \A c \in Coroutine : co'[c] = Idle \/ (co'[c] = co[c] /\ co[c].pc \in JobPC)
      BY <1>1 DEF Crash
    <3> HIDE DEF Idle
    <3> QED BY <3>1, <3>2, OfDead DEF Harmless, Foreign
  <2>2. Gone(t)' /\ Quiet(t)'
    BY <1>1, OfDead DEF Gone, Quiet, Crash, ghost
  <2> QED BY <2>1, <2>2 DEF Dead, Gone, Quiet, Harmless, Foreign
<1>2. CASE Initialize
  <2>1. store'[t] = None /\ sink'[t] = None
    BY <1>2, OfDead DEF Initialize, Rows
  <2> QED BY <1>2, <2>1 DEF Initialize, Dead, ghost
<1>3. CASE Reconcile
  <2>1. row'[t] = None
    BY <1>3, OfDead DEF Reconcile, Rows
  <2> QED BY <1>3, <2>1 DEF Reconcile, Dead, ghost
<1> QED BY <1>1, <1>2, <1>3 DEF Restart

LEMMA NextKeepsDead ==
  ASSUME TypeOK, [Next]_vars, NEW t \in Task, Dead(t)
  PROVE  Dead(t)'
<1>1. ASSUME NEW c \in Coroutine, Resume(c) PROVE Dead(t)'
  BY <1>1, CommitKeepsDead, SubmitSaveKeepsDead, RetryResetKeepsDead, BindKeepsDead,
     PipelineKeepsDead, LoadKeepsDead, RefreshedKeepsDead, LocksKeepDead, JobKeepsDead,
     JobRefreshKeepsDead, DeleteRowsKeepsDead DEF Resume
<1>2. CASE UNCHANGED vars
  BY <1>2 DEF vars, ghost, Dead
<1> QED BY <1>1, <1>2, JobKeepsDead, RequestKeepsDead, FlushKeepsDead, ProgressKeepsDead, RestartKeepsDead DEF Next

\* No step of any pipeline, job, worker, flush, request or restart brings a
\* dead task back: its row, once gone with nothing left that could write it,
\* is gone for good.
THEOREM DeletionIsFinal == Spec => DeadStaysDead
<1>1. TypeOK /\ [Next]_vars => (\A t \in Task : Dead(t) => Dead(t)')
  BY NextKeepsDead
<1> QED BY <1>1, TypeCorrect, PTL DEF Spec, DeadStaysDead

-----------------------------------------------------------------------------
\* AckedTasksHaveRows: a submission is answered after its save, which has
\* something to write and, as long as the database works, writes it; and only
\* a deletion takes rows away, of tasks it has noted first.
DeletesErased == \A c \in Coroutine :
  co[c].pc = "delete" => {co[c].task} \cup Episodes(co[c].task) \subseteq erased
SubmissionsSave == \A c \in Coroutine :
  co[c].pc = "saving" /\ co[c].then = "submitted" => co[c].data # None
SubmittedHaveRows == ~Faults => \A c \in Coroutine :
  co[c].pc = "submitted" /\ co[c].task \notin erased => row[co[c].task] # None

AckInv == DeletesErased /\ SubmissionsSave /\ SubmittedHaveRows /\ AckedTasksHaveRows

\* A step of coroutine c to frame f that neither takes rows away nor answers.
RowsStay == /\ acked' = acked /\ erased \subseteq erased'
            /\ \A t \in Task \ erased : row[t] # None => row'[t] # None
Fits(f)  == /\ f.pc = "delete" => {f.task} \cup Episodes(f.task) \subseteq erased'
            /\ f.pc = "saving" /\ f.then = "submitted" => f.data # None
            /\ ~Faults /\ f.pc = "submitted" => f.task \in erased \/ row'[f.task] # None

LEMMA RowsStayInv ==
  ASSUME TypeOK, AckInv, NEW c \in Coroutine, NEW f, co' = [co EXCEPT ![c] = f], Fits(f), RowsStay
  PROVE  AckInv'
<1>1. co'[c] = f /\ \A d \in Coroutine : d # c => co'[d] = co[d]
  BY DEF TypeOK, Types
<1>2. \A d \in Coroutine : co[d].pc = "submitted" => co[d].task \in Task
  BY DEF TypeOK, FramesOK, FrameOK
<1>3. DeletesErased'
  BY <1>1 DEF AckInv, DeletesErased, Fits, RowsStay, Episodes
<1>4. SubmissionsSave'
  BY <1>1 DEF AckInv, SubmissionsSave, Fits
<1>5. SubmittedHaveRows'
  BY <1>1, <1>2 DEF AckInv, SubmittedHaveRows, Fits, RowsStay
<1>6. AckedTasksHaveRows'
  BY DEF AckInv, AckedTasksHaveRows, RowsStay, TypeOK, Types
<1> QED BY <1>3, <1>4, <1>5, <1>6 DEF AckInv

LEMMA AwaitKeepsAcked ==
  ASSUME TypeOK, AckInv, NEW c \in Coroutine, NEW pc, NEW t, NEW o, NEW data, NEW k, NEW then,
         co' = [co EXCEPT ![c] = Await(pc, t, o, data, k, then)],
         pc \notin {"delete", "submitted"}, pc = "saving" /\ then = "submitted" => data # None, RowsStay
  PROVE  AckInv'
<1> DEFINE f == Await(pc, t, o, data, k, then)
<1>1. Fits(f)
  BY DEF Fits, Await
<1> HIDE DEF f
<1> QED BY <1>1, RowsStayInv DEF f

LEMMA EndKeepsAcked ==
  ASSUME TypeOK, AckInv, NEW c \in Coroutine, End(c), RowsStay
  PROVE  AckInv'
<1>1. co' = [co EXCEPT ![c] = Await("idle", None, None, None, None, "idle")]
  BY DEF End, Idle
<1>2. "idle" \notin {"delete", "submitted", "saving"}
  OBVIOUS
<1> QED BY <1>1, <1>2, AwaitKeepsAcked

LEMMA GotoKeepsAcked ==
  ASSUME TypeOK, AckInv, NEW c \in Coroutine, NEW pc, NEW data, Goto(c, pc, data),
         pc \notin {"delete", "submitted"}, RowsStay
  PROVE  AckInv'
BY AwaitKeepsAcked DEF Goto

LEMMA SaveKeepsAcked ==
  ASSUME TypeOK, AckInv, NEW c \in Coroutine, NEW t, NEW o, NEW h, NEW marks, NEW then,
         Save(c, t, o, h, marks, then), then = "submitted" => t \notin marks /\ h[o] # None, RowsStay
  PROVE  AckInv'
<1> DEFINE data == IF t \in marks THEN None ELSE h[o]
<1>1. co' = [co EXCEPT ![c] = Await("saving", t, o, data, co[c].key, then)]
  BY DEF Save
<1>2. then = "submitted" => data # None
  OBVIOUS
<1>3. "saving" \notin {"delete", "submitted"}
  OBVIOUS
<1> HIDE DEF data
<1> QED BY <1>1, <1>2, <1>3, AwaitKeepsAcked

\* No coroutine goes on; at most some are cut off.
LEMMA SameKeepsAcked ==
  ASSUME TypeOK, AckInv, \A d \in Coroutine : co'[d] = co[d] \/ co'[d] = Idle, RowsStay, erased' = erased
  PROVE  AckInv'
<1>1. Idle.pc = "idle"
  BY IdleFrame
<1>2. \A d \in Coroutine : co[d].pc = "submitted" => co[d].task \in Task
  BY DEF TypeOK, FramesOK, FrameOK
<1> HIDE DEF Idle
<1>3. DeletesErased' /\ SubmissionsSave'
  BY <1>1 DEF AckInv, DeletesErased, SubmissionsSave, Episodes
<1>4. SubmittedHaveRows'
  BY <1>1, <1>2 DEF AckInv, SubmittedHaveRows, RowsStay
<1>5. AckedTasksHaveRows'
  BY DEF AckInv, AckedTasksHaveRows, RowsStay, TypeOK, Types
<1> QED BY <1>3, <1>4, <1>5 DEF AckInv

-----------------------------------------------------------------------------
LEMMA RequestKeepsAcked ==
  ASSUME TypeOK, AckInv, NEW c \in Coroutine, NEW t \in Task, UserRequest(c, t)
  PROVE  AckInv'
<1>1. CASE Submit(c, t) \/ Load(c, t)
  BY <1>1, AwaitKeepsAcked DEF Submit, Load, Start, RowsStay, ghost
<1>2. CASE Retry(c, t) \/ \E k \in Segment \cup {"image"} : Regenerate(c, t, k)
  BY <1>2, AwaitKeepsAcked DEF Retry, Regenerate, Refresh, RowsStay, ghost
<1>3. CASE Compose(c, t)
  <2>1. co' = [co EXCEPT ![c] = Await("job", t, None, None, "compose", "idle")] \/ End(c)
    BY <1>3 DEF Compose
  <2>2. RowsStay
    BY <1>3 DEF Compose, RowsStay, ghost
  <2>3. "job" \notin {"delete", "submitted", "saving"}
    OBVIOUS
  <2>4. erased' = erased
    BY <1>3 DEF Compose, ghost
  <2> QED BY <2>1, <2>2, <2>3, <2>4, AwaitKeepsAcked, EndKeepsAcked
<1>4. CASE ReplaceImage(c, t) \/ ClearImage(c, t) \/ Edit(c, t)
  BY <1>4, SaveKeepsAcked DEF ReplaceImage, ClearImage, Edit, RowsStay, ghost
<1>5. CASE Review(c, t)
  <2>1. RowsStay /\ erased' = erased /\ row' = row
    BY <1>5 DEF Review, RowsStay, ghost
  <2>2. CASE co' = co
    BY <2>1, <2>2, SameKeepsAcked
  <2>3. CASE \E h : Save(c, t, store[t], h, deleted, "reviewed")
    BY <2>1, <2>3, SaveKeepsAcked
  <2> QED BY <1>5, <2>2, <2>3 DEF Review
<1>6. CASE Delete(c, t)
  <2> DEFINE f == Await("delete", t, None, None, None, "idle")
  <2>1. Fits(f)
    BY <1>6 DEF Delete, Fits, Await
  <2>2. co' = [co EXCEPT ![c] = f] /\ RowsStay
    BY <1>6 DEF Delete, Start, RowsStay
  <2> HIDE DEF f
  <2> QED BY <2>1, <2>2, RowsStayInv
<1> QED BY <1>1, <1>2, <1>3, <1>4, <1>5, <1>6 DEF UserRequest

\* A save writes: a row, and that of a submission unless the database fails.
LEMMA CommitKeepsAcked ==
  ASSUME TypeOK, AckInv, NEW c \in Coroutine, Commit(c)
  PROVE  AckInv'
<1>1. co[c].task \in Task /\ co[c].pc = "saving"
  BY DEF Commit, At, TypeOK, FramesOK, FrameOK
<1>2. RowsStay
  <2>1. NewTask # None
    BY NoneAssumption, ContentTypes
  <2> QED BY <1>1, <2>1 DEF Commit, RowsStay, ghost, TypeOK, Types
<1>3. CASE co[c].then = "submitted"
  <2> DEFINE f == Await("submitted", co[c].task, co[c].obj, None, co[c].key, "idle")
  <2>1. co[c].data # None
    BY <1>1, <1>3 DEF AckInv, SubmissionsSave
  <2>2. ~Faults => row'[co[c].task] # None
    BY <1>1, <1>3, <2>1 DEF Commit, TypeOK, Types
  <2>3. Fits(f) /\ co' = [co EXCEPT ![c] = f]
    BY <1>3, <2>2 DEF Fits, Await, Commit, Goto
  <2> HIDE DEF f
  <2> QED BY <1>2, <2>3, RowsStayInv
<1>4. CASE co[c].then # "submitted"
  <2>1. co[c].then # "delete"
    BY <1>1 DEF TypeOK, FramesOK, FrameOK, Objectless
  <2> QED BY <1>2, <1>4, <2>1, EndKeepsAcked, GotoKeepsAcked DEF Commit
<1> QED BY <1>3, <1>4

LEMMA PipelineKeepsAcked ==
  ASSUME TypeOK, AckInv, NEW c \in Coroutine,
         \/ SubmitSave(c) \/ SubmitRefreshed(c) \/ Resubmit(c) \/ ParseOk(c)
         \/ ParseFail(c) \/ Parsed(c) \/ Report(c) \/ RetryReset(c) \/ Retried(c) \/ Refreshed(c)
  PROVE  AckInv'
<1>1. RowsStay
  BY DEF RowsStay, SubmitSave, SubmitRefreshed, Resubmit, ParseOk, ParseFail, Parsed, Report,
         RetryReset, Retried, Refreshed, ghost
<1>2. CASE SubmitSave(c)
  <2>1. \A o \in Object : With(o, NewTask)[o] # None
    BY NoneAssumption, ContentTypes DEF With, TypeOK, Types
  <2> QED BY <1>1, <1>2, <2>1, SaveKeepsAcked DEF SubmitSave, Unused
<1>3. CASE Resubmit(c)
  <2>1. heap[co[c].obj] # None
    BY NoneAssumption, <1>3, LiveContents DEF Resubmit, At, TypeOK, FramesOK, FrameOK, Objectless, JobPC
  <2> QED BY <1>1, <1>3, <2>1, SaveKeepsAcked DEF Resubmit
<1>4. CASE SubmitRefreshed(c) \/ ParseOk(c) \/ ParseFail(c) \/ RetryReset(c)
  BY <1>1, <1>4, SaveKeepsAcked DEF SubmitRefreshed, ParseOk, ParseFail, RetryReset
<1>5. CASE Parsed(c) \/ Report(c) \/ Retried(c)
  BY <1>1, <1>5, SaveKeepsAcked, EndKeepsAcked, GotoKeepsAcked DEF Parsed, Report, Retried
<1>6. CASE Refreshed(c)
  <2>1. co[c].then \in {"retry", "redraw", "segment"}
    BY <1>6 DEF Refreshed, At, TypeOK, FramesOK, FrameOK
  <2> QED BY <1>1, <1>6, <2>1, SaveKeepsAcked, GotoKeepsAcked DEF Refreshed
<1> QED BY <1>2, <1>3, <1>4, <1>5, <1>6

\* The answer to a submission.
LEMMA SubmittedKeepsAcked ==
  ASSUME TypeOK, AckInv, NEW c \in Coroutine, Submitted(c)
  PROVE  AckInv'
<1> DEFINE f == Await("parse", co[c].task, co[c].obj, None, co[c].key, "idle")
<1>1. co' = [co EXCEPT ![c] = f] /\ f.pc = "parse"
  BY DEF Submitted, Goto, Await
<1>2. row' = row /\ erased' = erased /\ acked' = acked \cup {co[c].task}
  BY DEF Submitted
<1>3. ~Faults /\ co[c].task \notin erased => row[co[c].task] # None
  BY DEF AckInv, SubmittedHaveRows, Submitted, At
<1> HIDE DEF f
<1>4. \A d \in Coroutine : co'[d] = co[d] \/ co'[d].pc = "parse"
  BY <1>1 DEF TypeOK, Types
<1> QED BY <1>2, <1>3, <1>4 DEF AckInv, DeletesErased, SubmissionsSave, SubmittedHaveRows,
                                AckedTasksHaveRows, Episodes

LEMMA OthersKeepAcked ==
  ASSUME TypeOK, AckInv, NEW c \in Coroutine,
         \/ LoadRead(c) \/ LoadPut(c) \/ Staged(c) \/ Draw(c) \/ Drawn(c) \/ Advance(c) \/ Advanced(c)
         \/ ScheduleSegment(c)
  PROVE  AckInv'
<1>1. RowsStay
  BY DEF RowsStay, LoadRead, LoadPut, Staged, Draw, Drawn, Advance, Advanced, ScheduleSegment, ghost
<1>2. CASE LoadRead(c) \/ LoadPut(c) \/ Draw(c) \/ Advanced(c)
  BY <1>1, <1>2, EndKeepsAcked, GotoKeepsAcked DEF LoadRead, LoadPut, Draw, Advanced, Finish
<1>3. CASE Staged(c) \/ Drawn(c) \/ Advance(c)
  BY <1>1, <1>3, EndKeepsAcked, SaveKeepsAcked DEF Staged, Drawn, Advance, Finish
<1>4. CASE ScheduleSegment(c)
  BY <1>1, <1>4, EndKeepsAcked, AwaitKeepsAcked DEF ScheduleSegment, StartJob
<1> QED BY <1>2, <1>3, <1>4

\* A job writes its copy over a row.
LEMMA JobKeepsAcked ==
  ASSUME TypeOK, AckInv, NEW c \in Coroutine,
         \/ JobLoad(c) \/ JobSucceeds(c) \/ JobFails(c) \/ JobPersist(c) \/ JobAnnounce(c)
         \/ JobEnd(c) \/ JobRefresh(c) \/ WorkerDies(c)
  PROVE  AckInv'
<1>1. RowsStay
  <2>1. CASE JobPersist(c)
    <3>1. co[c].data # None
      BY NoneAssumption, <2>1 DEF JobPersist, At, TypeOK, FramesOK, FrameOK
    <3> QED BY <2>1, <3>1 DEF JobPersist, RowsStay, ghost, TypeOK, Types
  <2> QED BY <2>1 DEF RowsStay, JobLoad, JobSucceeds, JobFails, JobAnnounce, JobEnd, JobRefresh, WorkerDies, ghost
<1>2. \E data : \E pc \in {"job", "job_run", "job_persist", "job_persist_ok", "job_ok", "job_end", "job_refresh"} :
        Goto(c, pc, data) \/ End(c)
  BY DEF JobLoad, JobSucceeds, JobFails, JobPersist, JobAnnounce, JobEnd, JobRefresh, WorkerDies, JobRaised
<1> QED BY <1>1, <1>2, EndKeepsAcked, GotoKeepsAcked

\* A deletion takes away rows of tasks it has noted.
LEMMA DeleteRowsKeepsAcked ==
  ASSUME TypeOK, AckInv, NEW c \in Coroutine, DeleteRows(c)
  PROVE  AckInv'
<1>1. {co[c].task} \cup Episodes(co[c].task) \subseteq erased
  BY DEF AckInv, DeletesErased, DeleteRows, At
<1>2. RowsStay
  BY <1>1 DEF DeleteRows, RowsStay, ghost
<1> QED BY <1>2, EndKeepsAcked DEF DeleteRows

LEMMA RestartKeepsAcked ==
  ASSUME TypeOK, AckInv, Restart
  PROVE  AckInv'
<1>1. \A t \in Task : row[t] # None => row'[t] # None
  <2>1. CASE Reconcile
    <3>1. \A t \in Rows : row[t] \in Content
      BY DEF Rows, TypeOK, Types
    <3>2. "failed" \in Status
      BY DEF Status
    <3>3. \A t \in Rows : [status |-> "failed", script |-> row[t].script] \in Content
      BY <3>1, <3>2, ContentTypes
    <3> QED BY NoneAssumption, <2>1, <3>3 DEF Reconcile, Rows
  <2> QED BY <2>1 DEF Restart, Crash, Initialize
<1>2. RowsStay /\ erased' = erased
  BY <1>1 DEF RowsStay, Restart, Crash, Initialize, Reconcile, ghost
<1>3. \A d \in Coroutine : co'[d] = co[d] \/ co'[d] = Idle
  BY DEF Restart, Crash, Initialize, Reconcile
<1> QED BY <1>2, <1>3, SameKeepsAcked

LEMMA NextKeepsAcked == TypeOK /\ AckInv /\ [Next]_vars => AckInv'
<1> SUFFICES ASSUME TypeOK, AckInv, [Next]_vars PROVE AckInv'
  OBVIOUS
<1>1. ASSUME NEW c \in Coroutine, Resume(c) PROVE AckInv'
  BY <1>1, CommitKeepsAcked, PipelineKeepsAcked, SubmittedKeepsAcked, OthersKeepAcked, JobKeepsAcked,
     DeleteRowsKeepsAcked DEF Resume
<1>2. ASSUME NEW c \in Coroutine, Progress(c) PROVE AckInv'
  BY <1>2, SameKeepsAcked DEF Progress, RowsStay, ghost
<1>3. ASSUME NEW c \in Coroutine, NEW t \in Task, NEW o \in Object, Flush(c, t, o) PROVE AckInv'
  BY <1>3, SaveKeepsAcked DEF Flush, RowsStay, ghost
<1>4. CASE UNCHANGED vars
  BY <1>4, SameKeepsAcked DEF vars, ghost, RowsStay
<1> QED BY <1>1, <1>2, <1>3, <1>4, JobKeepsAcked, RequestKeepsAcked, RestartKeepsAcked DEF Next

LEMMA InitAcked == Init => AckInv
BY IdleFrame DEF Init, AckInv, DeletesErased, SubmissionsSave, SubmittedHaveRows, AckedTasksHaveRows

\* A submission that was answered is in the table until somebody deletes it,
\* across any restarts and whatever is under way, as long as the database works.
THEOREM SubmissionsSurvive == Spec => []AckedTasksHaveRows
<1>1. TypeOK /\ AckInv /\ [Next]_vars => AckInv'
  BY NextKeepsAcked
<1>2. AckInv => AckedTasksHaveRows
  BY DEF AckInv
<1> QED BY <1>1, <1>2, InitAcked, TypeCorrect, PTL DEF Spec

=============================================================================
