-------------------------------- MODULE Film --------------------------------
(***************************************************************************)
(* The videos of segments and the films made of them: what                 *)
(* DramaMakeSkill._generate_segment_video and compose_final_video ask of   *)
(* the tools of the video server, and what these do to the files.          *)
(*                                                                         *)
(* A coroutine generates one segment's video: it submits a job to the      *)
(* provider, polls it, downloads the result over the segment's file, and   *)
(* has the sound mixed in.  Another one composes a task's film: it looks   *)
(* which videos are there and has their clips normalised and joined.  All  *)
(* these calls of one process wait in the queue of its one video channel,  *)
(* which executes the head and attempts a call that raises again.  The     *)
(* files, the work files of a composition among them, are shared by all    *)
(* processes and tasks, and nothing keeps two processes from working on    *)
(* one segment or task: _busy is a process's own, and with Celery the key  *)
(* is given back when the job is queued.  The server that executes a call  *)
(* is a process of its own, which may outlive the one that asked it.       *)
(***************************************************************************)
EXTENDS Naturals, Sequences, FiniteSets

CONSTANTS Task,
          Segments,  \* segments of every task
          Wanted,    \* bound: the segments whose video is asked for
          Process,   \* the Web processes, or the workers
          Orphan,    \* bound: video servers at work that have lost their process
          None,      \* no file
          Broken,    \* a file that is a piece of a video
          Retries,   \* attempts of a call after the first one
          Requests,  \* bound: requests of the users
          Crashes    \* bound: deaths of processes

ASSUME SegmentsAssumption == Segments \in Nat \ {0}
ASSUME RetriesAssumption == Retries \in Nat
ASSUME WantedAssumption == Wanted \subseteq 1..Segments
ASSUME BoundsAssumption == Requests \in Nat /\ Crashes \in Nat
ASSUME OrphanAssumption == Orphan \cap Process = {}

\* A coroutine <<m, p>> works on the video or the film m in the process p.
Video     == Task \X (1..Segments)
Maker     == (Task \X Wanted) \X Process
Composer  == Task \X Process
Coroutine == Maker \cup Composer
Server    == Process \cup Orphan

VARIABLES pc,        \* pc[c]: the call coroutine c waits for
          queue,     \* queue[s]: the calls at s; the head is under way
          job,       \* job[c]: the provider's job that c submitted
          file,      \* file[v]: the segment's file
          url,       \* url[v]: has the segment a video_url?
          norm,      \* norm[i]: _norm_<i>.mp4, the i-th normalised clip
          listed,    \* _concat_list.txt: which of them are joined
          film,      \* film[t]: the task's film, "own" if it shows what it should
          asked,     \* requests so far
          crashes,   \* deaths of processes so far
          met        \* met[c]: has another server worked on c's files meanwhile?

calls == <<pc, queue>>
work  == <<norm, listed>>
users == <<asked, crashes>>
vars  == <<calls, job, file, url, work, film, users, met>>

Whole == {"raw", "mixed"}

\* A call: who made it, how far it has come, the attempts before this one; of
\* a composition its clips, how many were tried and which are normalised.
Call(c, label, clips, tries) ==
  [by |-> c, label |-> label, clips |-> clips, tries |-> tries,
   step |-> "start", tried |-> 0, list |-> <<>>]

\* The call at s, if it is a `label' that has come to `step'.
Now(s)     == Head(queue[s])
Caller(s)  == Now(s).by
Subject(s) == Caller(s)[1]
Runs(s, label)     == queue[s] # <<>> /\ Now(s).label = label
At(s, label, step) == Runs(s, label) /\ Now(s).step = step

\* The call is answered, and its coroutine goes on to `label'; either it has no
\* call to make then, or its next one joins the queue.  An orphan's answer
\* reaches nobody.
Answer(s, label) ==
  /\ pc' = IF s \in Process THEN [pc EXCEPT ![Caller(s)] = label] ELSE pc
  /\ queue' = [queue EXCEPT ![s] = Tail(@)]

AnswerAndCall(s, label) ==
  IF s \in Process
  THEN /\ pc' = [pc EXCEPT ![Caller(s)] = label]
       /\ queue' = [queue EXCEPT ![s] = Append(Tail(@), Call(Caller(s), label, <<>>, 0))]
  ELSE Answer(s, label)

Replace(s, call) == /\ queue' = [queue EXCEPT ![s] = <<call>> \o Tail(@)]
                    /\ UNCHANGED pc

Progress(s, step) == Replace(s, [Now(s) EXCEPT !.step = step])

Again(s) == Call(Caller(s), Now(s).label, Now(s).clips, Now(s).tries + 1)

\* A slip: after the last attempt the call stays where it is.
RaiseKeepsCall(s) ==
  IF s \in Process /\ Now(s).tries < Retries THEN Replace(s, Again(s))
  ELSE /\ pc' = IF s \in Process THEN [pc EXCEPT ![Caller(s)] = "idle"] ELSE pc
       /\ UNCHANGED queue

\* The attempt raises: another one is made, or the coroutine is told.
Raise(s) == IF s \in Process /\ Now(s).tries < Retries THEN Replace(s, Again(s))
            ELSE Answer(s, "idle")

Request(c, label, clips) ==
  /\ asked < Requests
  /\ asked' = asked + 1
  /\ pc[c] = "idle"
  /\ pc' = [pc EXCEPT ![c] = label]
  /\ queue' = [queue EXCEPT ![c[2]] = Append(@, Call(c, label, clips, 0))]

-----------------------------------------------------------------------------
\* Earlier runs have left the videos of some tasks, and no work files.
Init == /\ pc = [c \in Coroutine |-> "idle"]
        /\ queue = [s \in Server |-> <<>>]
        /\ job = [c \in Maker |-> "none"]
        /\ \E old \in SUBSET Task : url = [v \in Video |-> v[1] \in old]
        /\ file = [v \in Video |-> IF url[v] THEN "mixed" ELSE None]
        /\ norm = [i \in 1..Segments |-> None] /\ listed = <<>>
        /\ film = [t \in Task |-> None]
        /\ asked = 0 /\ crashes = 0
        /\ met = [c \in Coroutine |-> FALSE]

\* The generation of a segment's video is requested; the busy key admits one at
\* a time and process.
Generate(c) == /\ Request(c, "submit", <<>>)
               /\ job' = [job EXCEPT ![c] = "none"]
               /\ UNCHANGED <<file, url, work, film, crashes>>

\* submit_video: the provider has accepted the job and named it.
Submitted(s) == /\ At(s, "submit", "start")
                /\ job' = [job EXCEPT ![Caller(s)] = "running"]
                /\ AnswerAndCall(s, "poll")
                /\ UNCHANGED <<file, url, work, film, users>>

\* The provider's work.
JobEnds(c, result) == /\ job[c] = "running"
                      /\ job' = [job EXCEPT ![c] = result]
                      /\ UNCHANGED <<calls, file, url, work, film, users>>

\* A slip: every end of the loop is taken for a success.
PolledAny(s) == /\ At(s, "poll", "start")
                /\ AnswerAndCall(s, "download")
                /\ UNCHANGED <<job, file, url, work, film, users>>

\* query_video_result: the loop sees the success and returns the address, ...
Polled(s) == /\ At(s, "poll", "start")
             /\ job[Caller(s)] = "succeeded"
             /\ AnswerAndCall(s, "download")
             /\ UNCHANGED <<job, file, url, work, film, users>>

\* A slip: the time is not looked at.
PollGivesUpOnFailure(s) ==
  /\ At(s, "poll", "start")
  /\ job[Caller(s)] = "failed"
  /\ Answer(s, "idle")
  /\ UNCHANGED <<job, file, url, work, film, users>>

\* ... it sees a failure it recognises, or the time is over: the request ends.
PollGivesUp(s) == /\ At(s, "poll", "start")
                  /\ Answer(s, "idle")
                  /\ UNCHANGED <<job, file, url, work, film, users>>

-----------------------------------------------------------------------------
\* Another server writes the segment's file or has it mixed.
Shared(s) == \E o \in Server \ {s} : /\ At(o, "download", "open") \/ Runs(o, "mix")
                                     /\ Subject(o) = Subject(s)

\* download_video: the file is opened in place, which empties it, ...
DownloadOpens(s) ==
  /\ At(s, "download", "start")
  /\ Progress(s, "open")
  /\ file' = [file EXCEPT ![Subject(s)] = IF Shared(s) THEN "garbled" ELSE "partial"]
  /\ UNCHANGED <<job, url, work, film, users>>

\* ... and then written.  A native sound track is kept, else one is mixed in.
DownloadEnds(s) ==
  /\ At(s, "download", "open")
  /\ file' = [file EXCEPT ![Subject(s)] = IF @ = "garbled" THEN @ ELSE "raw"]
  /\ Answer(s, "probe") \/ AnswerAndCall(s, "mix")
  /\ UNCHANGED <<job, url, work, film, users>>

\* mix_segment_audio, finalize_shot_video: a temporary file, whose name is made
\* of the video's, replaces the video, or the video stays as it is.
Mixed(s) ==
  /\ At(s, "mix", "start")
  /\ \E f \in {file[Subject(s)]}
              \cup (IF file[Subject(s)] \in Whole THEN {"mixed"} ELSE {"garbled"})
              \cup (IF Shared(s) THEN {"garbled"} ELSE {}) :
       file' = [file EXCEPT ![Subject(s)] = f]
  /\ Answer(s, "probe")
  /\ UNCHANGED <<job, url, work, film, users>>

\* After the quality probe the segment gets its address.
Published(c) == /\ pc[c] = "probe"
                /\ pc' = [pc EXCEPT ![c] = "idle"]
                /\ url' = [url EXCEPT ![c[1]] = TRUE]
                /\ UNCHANGED <<queue, job, file, work, film, users>>

\* Whatever is executed may raise, where it stands.
CallRaises(s) == /\ queue[s] # <<>>
                 /\ Raise(s)
                 /\ UNCHANGED <<job, file, url, work, film, users>>

-----------------------------------------------------------------------------
\* compose_final_video: the videos that are there, in the order of the
\* segments, if they are enough.
Present(t) ==
  LET upTo[i \in 0..Segments] ==
        IF i = 0 THEN <<>>
        ELSE IF url[<<t, i>>] /\ file[<<t, i>>] # None THEN Append(upTo[i - 1], i)
        ELSE upTo[i - 1]
  IN  upTo[Segments]

Enough(t) == Len(Present(t)) >= 2 \/ Len(Present(t)) = Segments

Compose(c) == /\ Enough(c[1])
              /\ Request(c, "compose", Present(c[1]))
              /\ UNCHANGED <<job, file, url, work, film, crashes>>

Clip(s) == Now(s).tried + 1              \* the clip compose_videos turns to
Source(s) == <<Subject(s), Now(s).clips[Clip(s)]>>
ClipsLeft(s) == At(s, "compose", "start") /\ Clip(s) <= Len(Now(s).clips)

\* Another server composes too, in the same directory.
Crowded(s) == \E o \in Server \ {s} : Runs(o, "compose")

\* compose_videos: the next video is normalised into a work file, which another
\* server may be writing, too, ...
Normalised(s) ==
  /\ ClipsLeft(s)
  /\ file[Source(s)] # None
  /\ \E clip \in {Source(s)} \cup (IF Crowded(s) THEN {Broken} ELSE {}) :
       norm' = [norm EXCEPT ![Clip(s)] = clip]
  /\ Replace(s, [Now(s) EXCEPT !.tried = @ + 1, !.list = Append(@, Clip(s))])
  /\ UNCHANGED <<job, file, url, listed, film, users>>

\* A slip: that the work file exists is taken for a success of ffmpeg.
SkippedIfMissing(s) ==
  /\ ClipsLeft(s)
  /\ Replace(s, [Now(s) EXCEPT !.tried = @ + 1,
                               !.list = IF norm[Clip(s)] = None THEN @ ELSE Append(@, Clip(s))])
  /\ UNCHANGED <<job, file, url, work, film, users>>

\* ... or ffmpeg fails: the loop goes on without the clip, and the work file is
\* what it was, or spoilt.
Skipped(s) ==
  /\ ClipsLeft(s)
  /\ norm' \in {norm, [norm EXCEPT ![Clip(s)] = Broken]}
  /\ Replace(s, [Now(s) EXCEPT !.tried = @ + 1])
  /\ UNCHANGED <<job, file, url, listed, film, users>>

\* None could be normalised: that raises.
NothingToJoin(s) == /\ At(s, "compose", "start") /\ ~ClipsLeft(s)
                    /\ Now(s).list = <<>>
                    /\ Raise(s)
                    /\ UNCHANGED <<job, file, url, work, film, users>>

\* The list of the clips is written, if there are any.
ListWritten(s) == /\ At(s, "compose", "start") /\ ~ClipsLeft(s)
                  /\ Now(s).list # <<>>
                  /\ listed' = Now(s).list
                  /\ Progress(s, "concat")
                  /\ UNCHANGED <<job, file, url, norm, film, users>>

\* A task's own clips, each at most once and in the order of the segments.
OwnClips(t, clips) ==
  \A i \in DOMAIN clips :
    /\ clips[i] \in {t} \X (1..Segments)
    /\ \A j \in DOMAIN clips : j < i => clips[j][2] < clips[i][2]

Readable == listed # <<>> /\ \A i \in DOMAIN listed : norm[listed[i]] \notin {None, Broken}

\* ffmpeg joins the clips the list names, over the film that was there, ...
Joined(s) == /\ At(s, "compose", "concat")
             /\ Readable
             /\ film' = [film EXCEPT ![Subject(s)] =
                          IF OwnClips(Subject(s), [i \in DOMAIN listed |-> norm[listed[i]]])
                          THEN "own" ELSE "wrong"]
             /\ Progress(s, "clean")
             /\ UNCHANGED <<job, file, url, work, users>>

\* ... or leaves a piece of it; the work files stay.
JoinBreaks(s) == /\ At(s, "compose", "concat")
                 /\ film' = [film EXCEPT ![Subject(s)] = "wrong"]
                 /\ Raise(s)
                 /\ UNCHANGED <<job, file, url, work, users>>

\* The work files are removed, and the task has its film.
Composed(s) ==
  LET made == {Now(s).list[i] : i \in DOMAIN Now(s).list}
  IN  /\ At(s, "compose", "clean")
      /\ norm' = [i \in 1..Segments |-> IF i \in made THEN None ELSE norm[i]]
      /\ listed' = <<>>
      /\ Answer(s, "idle")
      /\ UNCHANGED <<job, file, url, film, users>>

\* A process dies with its coroutines; what was being written stays as it is.
\* Its server ends when its input is closed, but a download, a mixing or a
\* composition it has begun goes on to its end, unless the server dies too.
Crash(p) ==
  /\ crashes < Crashes
  /\ crashes' = crashes + 1
  /\ pc' = [c \in Coroutine |-> IF c[2] = p THEN "idle" ELSE pc[c]]
  /\ \/ queue' = [queue EXCEPT ![p] = <<>>]
     \/ /\ Runs(p, "download") \/ Runs(p, "mix") \/ Runs(p, "compose")
        /\ \E o \in Orphan : /\ queue[o] = <<>>
                              /\ queue' = [queue EXCEPT ![p] = <<>>, ![o] = <<Now(p)>>]
  /\ UNCHANGED <<job, file, url, work, film, asked>>

Channel(s) == \/ Submitted(s) \/ Polled(s) \/ PollGivesUp(s)
              \/ DownloadOpens(s) \/ DownloadEnds(s) \/ Mixed(s)
              \/ Normalised(s) \/ Skipped(s) \/ NothingToJoin(s) \/ ListWritten(s)
              \/ Joined(s) \/ JoinBreaks(s) \/ Composed(s)

Step == \/ \E c \in Maker : Generate(c) \/ Published(c)
        \/ \E c \in Composer : Compose(c)
        \/ \E c \in Maker, result \in {"succeeded", "failed"} : JobEnds(c, result)
        \/ \E s \in Server : Channel(s) \/ CallRaises(s)
        \/ \E p \in Process : Crash(p)

\* For the properties: from its download to its publication a video is exposed to
\* the other servers that download or mix the segment, and a film, while it is
\* composed, to all that compose.  Whatever step is taken, met remembers it.
Exposed(c) == \/ pc[c] \in {"mix", "probe"}
              \/ pc[c] \in {"download", "compose"} /\ queue[c[2]] # <<>> /\ Caller(c[2]) = c
Disturbs(s, c) == IF pc[c] = "compose" THEN Runs(s, "compose")
                  ELSE (Runs(s, "download") \/ Runs(s, "mix")) /\ Subject(s) = c[1]
Disturbed(c) == Exposed(c) /\ \E s \in Server \ {c[2]} : Disturbs(s, c)

Remember == met' = [c \in Coroutine |-> Exposed(c)' /\ (met[c] \/ Disturbed(c)')]

Next == Step /\ Remember

Spec == Init /\ [][Next]_vars

\* The owner of a channel goes on with the call it executes (every tool call
\* has a timeout), and a coroutine that was answered is resumed.
FairSpec == /\ Spec
            /\ \A p \in Process : WF_vars(Channel(p) /\ Remember)
            /\ \A c \in Maker : WF_vars(Published(c) /\ Remember)

-----------------------------------------------------------------------------
Clips == Video \cup {None, Broken}

CallOK(call) == /\ call.tries \in 0..Retries
                /\ call.step \in {"start", "open", "concat", "clean"}

\* The calls in a process's queue are those its coroutines wait for; an orphan
\* has one call at most.
TypeOK ==
  /\ pc \in [Coroutine -> {"idle", "submit", "poll", "download", "mix", "probe", "compose"}]
  /\ DOMAIN queue = Server
  /\ \A s \in Server : \A i \in DOMAIN queue[s] : CallOK(queue[s][i])
  /\ \A p \in Process : \A i \in DOMAIN queue[p] :
       LET call == queue[p][i]
       IN call.by[2] = p /\ pc[call.by] = call.label /\ call.label \notin {"idle", "probe"}
  /\ \A o \in Orphan : Len(queue[o]) <= 1
  /\ job \in [Maker -> {"none", "running", "succeeded", "failed"}]
  /\ file \in [Video -> {None, "partial", "garbled"} \cup Whole]
  /\ url \in [Video -> BOOLEAN]
  /\ norm \in [1..Segments -> Clips]
  /\ film \in [Task -> {None, "own", "wrong"}]
  /\ asked \in 0..Requests /\ crashes \in 0..Crashes
  /\ met \in [Coroutine -> BOOLEAN]

\* The film a composition is about to report shows the task's own clips, each at
\* most once and in the order of the segments, whatever earlier, broken or cut
\* off compositions of any process have left in the shared work files, unless
\* another server composed at the same time (compose_videos).
FilmIsOwn ==
  \A p \in Process : At(p, "compose", "clean") /\ ~met[Caller(p)] =>
    film[Subject(p)] = "own"

\* A segment that is given its address has the whole video of a job that
\* succeeded, although calls are attempted again, other requests are served
\* between two of its own, processes die and their servers go on, unless another
\* server worked on the segment meanwhile (_generate_segment_video).
DeliveredVideosPlay ==
  [][\A c \in Maker : pc[c] = "probe" /\ pc'[c] = "idle" /\ crashes' = crashes /\ ~met[c]
       => file[c[1]] \in Whole /\ job[c] = "succeeded"]_vars

\* Every request for a video or a film comes to an end, whatever the provider
\* and ffmpeg do (query_video_result's timeout, the channel's retries): as the
\* users ask a bounded number of times, no coroutine waits in the end.
EveryRequestEnds == <>[](\A c \in Coroutine : pc[c] = "idle")

=============================================================================
