# A TLA+ verification of drama_agent

drama_agent turns a prompt into a short drama: a language model writes the script, an image
model draws characters and scenes, a person reviews them, a video model produces one video
per segment, and ffmpeg joins the segments. The Web process is a FastAPI application on one
asyncio event loop; long jobs run in that loop (local mode) or on Celery workers. What can go
wrong is less in any single handler than between them: every handler suspends at database and
provider calls, all of them share objects by reference, and the table of tasks is written from
at least five places. The models are about that.

## 1. Inventory

| part | code | state it keeps | operations | hard behaviour | what makes it correct |
|---|---|---|---|---|---|
| task records | `agent/drama_agent.py` | `task_store`, `_busy`, `_deleted_ids`, `_log_flush_tasks`; the `tasks` table | submit, retry, delete, load, review, regenerate, edit, images, compose, startup | handlers interleave at every await; several objects of one task; debounced saves of old objects | no job done twice, no key left behind, no answered task lost, a deleted task does not come back, status and script agree |
| jobs | `tasks/job_runner.py`, `dispatcher.py`, `celery_*.py` | a private copy of the row for minutes | segment video, composing | overwrite of newer rows; redelivery and worker death | a job never creates a row; a video is stored before it is announced |
| startup | `main.py`, `tasks/reconcile.py` | - | `initialize`, then `reconcile_on_startup` | order of the two; unreadable rows | no task stays pending for ever |
| progress hub, event stream | `agent/progress_hub.py`, `api/task_stream.py` | `_subscribers`, `_history`, `_seq`, a queue per stream | publish, subscribe, unsubscribe, drop | streams come and go while events are published; tasks are retried under open streams | each stream sees the log without gaps or repetitions |
| video slots | `skill/drama_make_skill.py` | `_VIDEO_SLOT`, the default thread pool | acquire, probe, mix, release | blocking acquire in a shared thread pool; early returns | permits conserved, every request ends |
| pipeline | `skill/drama_make_skill.py` | the task object it works on | parse, stage, regenerate, videos, compose | minutes between reading and writing | see task records |
| segmentation | `skill/drama_make_skill.py:256-545` | durations, scenes and segment of each shot | `_assign_segments`, `_compress_durations`, `_enforce_segment_duration`, `_self_check_script` | repeated compression, rounding, two passes that must agree | every shot in one segment, in order; limits kept; no needless cut |
| films | `skill/drama_make_skill.py:1106-1409`, `tools/video_tool.py` | a file per segment, shared work files, the film | submit, poll, download, mix, compose | files written in place and shared by processes, calls attempted again, a process that dies before its server does | a film shows its own clips in order; a delivered video is whole; both only while no other server works on the same files |
| scene pictures | `skill/drama_make_skill.py:804-859` | day and night URL of a scene | redraw day or night | night is drawn from a day picture read before an await | night matches day |
| MCP client | `mcp_client/agent_mcp_client.py` | a pool of channels; of each a queue, an owner task, a connection | call, connect, retry, give up, close, next job | failing servers, abandoned calls, closing with calls under way, queues that outlive their event loop | every call is answered, closing leaves no server |
| assets | `tasks/asset_store.py`, `asset_gc.py` | files, `assets` table | save, upload, delete, collect, back-fill, count | collections race with saves and each other; crashes amidst one | no file of a settled task removed, new and foreign files spared, a start settles everything |
| rate limiter | `core/ratelimit.py` | hits per address | `is_allowed` | window edges | at most n hits in a window |
| task page | `frontend/src/stores/task.js` | current task, stream, high-water marks | select, apply event, reload | answers out of order, replayed history | the page shows the selected task, each log line once |
| channel settings | `api/channels.py`, `schema/channel_schema.py`, `tools/media_channel.py` | a profile per user, a snapshot per task | read masked, merge, save, refresh, submit, poll | two pages save at once; settings change under running jobs; providers with words of their own | no mask becomes a key, what is kept is complete, a job stays with its account and ends |
| accounts, tokens | `auth/`, `api/auth.py`, `core/crypto.py` | rows | request-local | - | - |
| other tools, configuration, metrics | `mcp_server/`, `core/` | none of interest | I/O | - | - |

The parts interact by function calls on one event loop (API -> DramaAgent -> pipeline -> hub), by
the shared objects in `task_store`, by the log sink the agent registers with the hub, by
`on_finish` callbacks of local jobs, and through the `tasks` table and the Celery queue with the
workers. `PROJECT.json` lists every part with its status, and under `hazards` what is hard to test,
with the properties that would catch it.

## 2. Modules

| module | models |
|---|---|
| `TaskStore` | DramaAgent with the API in front of it, the jobs, the dispatcher, the task rows and the startup |
| `MCTaskStore` | the instances of `TaskStore` for TLC (a lone task, a series; symmetry) |
| `TaskStore_proof` | theorems about `TaskStore`: types, stages, keys, deletion |
| `EventFeed` | abstract: what a page may expect of its event stream |
| `ProgressHub`, `ProgressHub_proof` | the hub and the streams' `event_gen`; it implements `EventFeed` |
| `VideoSlots`, `VideoSlots_proof` | the video semaphore and the executor threads |
| `McpChannels`, `McpChannels_proof` | the MCP client's channels and their pool |
| `Segmentation`, `Segmentation_proof` | from the durations in the model's answer to checked segments |
| `Film`, `Film_proof` | the videos of segments and the films made of them, as files |
| `ChannelProfiles`, `ChannelProfiles_proof` | a user's channel settings and the provider's jobs under them |
| `Assets`, `Assets_proof` | files, their registry, the references, and the collection of orphans |

### TaskStore

An asyncio coroutine runs undisturbed between two awaits, so **an action is the code between two
awaits**, and a coroutine's frame (`co[c]`) names the await it is suspended at, the task and object
it holds, the data it carries and where it continues. A DramaTask is shared by reference, so
`heap` holds the objects, and `store` (= `task_store`), `sink` (the object the log sink's closure is
bound to), `flush` (debounced saves under way) and the frames refer to them. An object is
freed when nothing refers to it. `deleted` and `busy` are `_deleted_ids` and `_busy`; `row` is the
table. `server` orders the startup. The variables `born`, `acked`, `erased` and `announced` are
history, used by properties and to know which tasks a user may name.

| code | actions |
|---|---|
| `submit_new_task` | `Submit`, `SubmitRefreshed`, `Resubmit`, `SubmitSave`, `Submitted` |
| `_run_initial_pipeline`, `step1_parse_script` | `ParseOk`, `ParseFail`, `Parsed`, `Report` |
| `_save_task` | `Save` (to its first await), `Commit` (the database's answer) |
| `_bind_log_sink`, `_flush` | `Log`, `Progress`, `Flush` |
| `load_task` | `Load`, `LoadRead`, `LoadPut` |
| `_refresh_media_profile` | `Refresh`, `Refreshed` |
| `retry_task` | `Retry`, `RetryReset`, `Retried` |
| `human_review_handle`, `_run_video_pipeline` | `Review`, `Staged` |
| `replace_image`, `clear_image`, `update_*` | `ReplaceImage`, `ClearImage`, `Edit` |
| `regenerate` of a picture, `_maybe_advance_to_review` | `Regenerate`, `Draw`, `Drawn`, `Advance`, `Advanced` |
| `regenerate` of a video, dispatcher | `Regenerate`, `ScheduleSegment` |
| `compose_video` | `Compose` |
| job_runner, `_after_job` | `JobLoad` ... `JobAnnounce`, `JobEnd`, `JobRefresh`, `WorkerDies` |
| `delete_task` | `Delete`, `DeleteRows` |
| `initialize`, `reconcile_on_startup`, a process exit | `Initialize`, `Reconcile`, `Crash` |

What is abstracted:

* of a script: whether every picture is there (`ready`; one key, "image", for all of them) and which
  segments have a video. Every parse yields the same segments; that a job does not find its segment
  is among the failures `JobLoad` can have. Texts, titles, logs, `final_video_url` are left out, and with
  them the rows that mix two moments of an object (status and script are taken together).
* a save's existence check and statement are one step (`Commit`): what a concurrent creation of the
  same row would do is not looked at. Faults = TRUE lets each statement fail, a created row keep its
  defaults, the startup skip rows.
* Celery's one retry is not counted. `BrokerFails` lets putting a job into the queue raise (`BrokerDown`), which leaves its key in `busy`;
  `KeysHaveHolders` is then stated of the keys of pictures.
* the load of a series' root that is not in memory is left to `Load`; `list_user_tasks` changes nothing;
  `_legacy_shot_regen` (tasks without segments) is not modelled.

`DeadStaysDead` speaks of a task whose row and object in `task_store` are gone (`Dead`). Two things are outside it, and happen: a save that had passed
the look at `_deleted_ids` before the deletion, and an episode that is still in `task_store` when its series is deleted, as only the root is marked
and popped; both bring rows back (section 4).

Bounds: `Object` and `Coroutine` limit how many objects and coroutines exist at once (a step that
needs another one waits), `MaxRequests` and `MaxCrashes` the users' requests and the restarts.

### ProgressHub

One task's entries in the hub. `Publish`, `Subscribe`, `Disconnect` and `Drop` are the methods, none
of which suspends; `Replay` and `Relay` are `event_gen` sending the snapshot of the history and then the
stream's queue; `Restart` empties the process and continues the numbers from the persisted logs
(which may lack the last ones). `clock` numbers all events of the task's life; `position` and `seen`
record what a stream was sent last. `EventFeed` has no history, snapshots or queues: a stream opens at
a position at most `MaxHistory` events back and advances by one event at a time.

The Redis bridge is not part of the model, because the process that serves streams never
attaches it: `attach_redis` is only called by `job_runner._ensure_infra`, on the workers.
A client that is gone before `event_gen` took its first step leaves a registered queue that nobody reads (its `finally` never runs); to the hub and
to the other streams this is a stream that is never sent its next event and never disconnects.

### VideoSlots

A request for a segment's video, from `_VIDEO_SLOT.acquire(blocking=False)` to `release()`. The quick
acquire, the queued one (`asyncio.to_thread`, which takes a thread of the default executor until
a permit is free), the ffprobe and ffmpeg calls of a permit holder (the same executor), the early
return and the release are actions; the executor starts calls in the order they were queued.

### McpChannels

A pool of channels. `call[c]` is where the coroutine stands that makes call c (`_ChannelPool.call` and
`_submit`: `Wait`, `Enter`, `GiveUp`), `queue[ch]` and `owner[ch]` are a channel's `_cmds` and its owner task, whose
steps are those of `_run` (`Take`, `TakeStop`, `Park`, `Die`, `Connect`, `Succeed`, `Fail`, `FailForGood`). An owner's record
holds the local variables of `_run`: the call, the attempt, and whether there is a connection.
`close()` and `aclose` are `CloseBegins` ... `CloseCancels`, with the place reached in `closer` and `at`.
`celery`, chosen at the start, tells the two processes apart: the Web process closes once, with calls
under way and new ones coming, a worker after each job (`_run_then_cleanup`), when its calls have
returned; `NextJob` then gives it a new event loop. An `asyncio.Queue` belongs to the loop in which `get()`
first had to wait (`bound`); a `get()` that has to wait in another loop raises (Python 3.11, the version of
the Dockerfile). `orphans` counts servers whose connection no task holds any more.

Abstracted: what is called and answered; the pause before a retry is part of `Fail`; which of the calls that
wait for a permit comes first is left open. The pool's semaphore would be bound to an event loop as the queues are, once a call has
to wait for it; a worker's jobs make one call at a time, on the video channel, and never do, so that its binding matters in the Web process only, which has one loop. The lone channels (LLM, video, speech) are pools of size
one whose limit is never met. `list_tools`, which only tests call, and the facade's conversions are left out.

### Segmentation

The part of `step1_parse_script` that decides which shots become one video. `ReadShot` reads one shot of the
answer (`key`, `given`, `dur`: its scene and duration, brought into the range); `Join`, `Compress`, `Trim`, `Merge`, `Split` and
`FinishAssign` are `_assign_segments` meeting shot `n`, with the loop of `_compress_durations` one second at a time;
`EnforceShot`, `EnforceNext`, `EnforceEnd` are `_enforce_segment_duration`, and `SelfCheck` is the check that may fail the task.
`old` keeps the first pass's segments beside the second's (`segs`), `part` is each shot's `segment_id`. Ids
are numbers in the order they are drawn. A shot without a scene gets a key of its own (`OwnKey`).
`shot_by_id` is keyed by ids the model may give itself (line 257): they are taken to be unique. The product with 1.34 is
computed in integers.

### Film

A coroutine `<<m, p>>` generates segment `m`'s video, or composes task `m`'s film, in process `p`, and stands at the call it waits for (`pc`).
The calls of a process wait in `queue[p]`, the video channel's, whose head is executed in steps, so that a call can break off between two of its
effects: `DownloadOpens` has emptied the file `DownloadEnds` fills, `compose_videos` has normalised some clips into
`norm` or written the list `listed`. `CallRaises`, `NothingToJoin` and `JoinBreaks` make the channel attempt the call again
(`Raise`). `Skipped` is a clip whose ffmpeg fails, with what was in its work file or a piece.

`_busy` belongs to one process, and with Celery a key is given back when the job is queued (`drama_agent.py:709`), so **any number of processes may work
on one segment or one task**. The video server that executes a call is a process of its own: when the one that asked dies (`Crash`), a download, mixing or
composition may go on to its end in an `Orphan`, whose answer reaches nobody. Where two servers write one file the model takes the worst: a download
over another's is `garbled`, a clip of two compositions `Broken` or the other task's. `met[c]` remembers whether, since c's download or composition began, another
server was at work on the same segment, or composed (`Exposed`, `Disturbs`): what the properties say holds where `met` is false, and does not where it is
true (section 4). With one process and no orphan it never is.

`McpChannels` has the channel's inside and `VideoSlots` the semaphore; here the first is a queue
and the second is left out, since it only lowers the number of requests at work.

### ChannelProfiles

One segment, "video", of a user's configuration. `PutReads` and `PutWrites` are the two halves of the PUT handler, between which
another page's may run; `Masked`, `Merged`, `Deactivated` and `Valid` are the functions of `channel_schema.py`. `Submit` gives the first episode of a series its
snapshot, `Continue` the next one's, which it inherits; `Regenerate` is
`_refresh_media_profile` before a job is scheduled, `Load` the job's own read of the row. Two jobs may be of one task. `SubmitWaits` ... `PollTimesOut` are
`submit_video_task` and `query_video_result` under each channel. `account` remembers whom the job was submitted to, `answer` is the word the
provider would say. A time-out is told as a failure, as the code does. The default channel of `.env` is `volc_cv`.

Keys are encrypted at rest, and `decrypt_str` returns "" for what it cannot decrypt, so each reading of the table, or of a snapshot that was read from it, finds the profile or **the same
profile with blank keys** (`Readings`): still custom, and not `NoProfile`, which is for the default and for a table that cannot be read. A blank key is replaced by `.env`'s when a request is made (`_p`):
`Account` keeps the channel and the profile's own keys. All keys of a row are lost together, as they are encrypted with one secret.

Left out: the ciphers, model names, addresses (of a form only whether they are filled in, `rest`), presets, a job that is attempted again.

### Assets

The name of a task also stands for its video and film, which are removed with it; pictures have fresh names
(`img_<uuid>`) and are shared by the episodes that inherit them; uploads are never collected; `Foreign` files were never registered. `row` is what the table
says a task refers to, `held` what its object in memory does, and `marked` is `_deleted_ids`. An episode inherits from its parent's object (`Submit`) and has no row until its first
`Save`, which is `_save_task`: a row that is missing is created, first without references, unless the task is marked. So the episodes of a deleted series, which are not marked, come back. `Delete`, `RemoveTaskAssets`, `Read`, `Sweep` and `CommitCollection` are
the handler of a deletion, one action per stretch between two awaits; `Sweep` is the walk over the disk, which never suspends.
A second request for the same task, whose ownership was looked up before the first one's deletion, finds no row, but removes and collects as well.
`Crash` may come in the midst of it; `Backfill` and `Count` are the start, whose collection uses the same actions with `Boot` in the
deletion's place. `saved`, `written` and `fresh` are history, for the properties.

The database is MySQL with repeatable reads, as deployed: the two reads of a collection see one snapshot and are one action. With
DRAMA_DB=sqlite there is no such snapshot, and a file saved between the reads would be removed: that is the slip
`OrphansOfLateRead`, which violates `NewAndForeignFilesStay`. Jobs run in the same process. Neither
`sync_task_assets` nor the removal of a file fails. A row refers to a file once: the code counts a picture two scenes of a task share twice, the model once, which
no property but the equality of `ref_count` and its own count depends on. A file is new or not by its name: a video that is downloaded again
under its old name counts as the old file in `NewAndForeignFilesStay`.

What is deliberately *not* a property: that every referenced file exists. TLC refutes it. A file that only memory refers to (an inherited picture before the
episode's first save, a job's old copy of the script) can be collected and saved as a reference afterwards
(`asset_gc.py:100`); `SettledFilesStay` says what remains true.

## 3. Runs

| run | instance | shows |
|---|---|---|
| `TaskStore` | local mode, one task, one segment, 3 objects, 2 coroutines, 4 requests, 1 restart, faults; 1.5 million states | `TypeOK`, `KeysHaveHolders`, `NoDuplicateWork`, `StagesHaveScripts`, `DeadStaysDead` |
| `TaskStoreSeries` | Celery mode, a root task and an episode, 4 requests, 1 restart, a broker that may fail, no other faults; 5.4 million states | `AckedTasksHaveRows`, `KeysHaveHolders`, `DeadStaysDead` |
| `TaskStorePending` | 1 request, 1 restart | violates `PendingIsParsed` |
| `TaskStoreAnnounced` | 1 coroutine, 2 requests | violates `AnnouncedIsStored` |
| `ProgressHub` | 2 streams, history of 2, 4 events; 56,000 states | `TypeOK`, `SeqRises`, `FeedSpec` (refinement), `EventsArrive` (liveness) |
| `VideoSlots` | 4 requests, 2 permits, 3 threads; 9,080 states | `TypeOK`, `PermitsConserved`, `EveryRequestEnds` (liveness) |
| `VideoSlotsStarved` | 4 requests, 2 permits, 2 threads | violates `EveryRequestEnds` |
| `McpChannels` | 3 calls, 2 channels, 2 permits, 1 retry, Web process or 2 jobs of a worker; 575,000 states | `TypeOK`, `LimitKept`, `CallsAreHeld`, `ShutdownLeavesNothing`, `EveryCallAnswered`, `ShutdownEnds` (liveness) |
| `Segmentation` | up to 4 shots, durations 3..13 from 5 answers, limits of 12 s and 3 shots; 578,000 states | `TypeOK`, `Partition`, `WithinLimits`, `NothingLeftToCut`, `MergedFirst`, `EveryScriptDecided` (liveness) |
| `Film` | 2 tasks of 2 segments, of which the first may be asked for, 2 processes, 1 orphan, 1 retry, 2 requests, 1 death; 1.4 million states | `TypeOK`, `FilmIsOwn`, `DeliveredVideosPlay`, `EveryRequestEnds` (liveness) |
| `ChannelProfiles` | 2 pages, 2 tasks, 2 jobs, 1 custom channel, 2 keys, 2 forms, 1 poll, 1 wait; 2.0 million states | `TypeOK`, `SavedIsUsable`, `RoundTrip`, `PolledWhereSubmitted`, `EveryJobEnds` (liveness) |
| `Assets` | 3 tasks, 2 pictures, an upload, a foreign file, 2 deletions, 6 requests or crashes; 4.9 million states | `TypeOK`, `NewAndForeignFilesStay`, `SettledFilesStay`, `StartSettles` |

Why the bounds are enough to be interesting: two coroutines interleave any two handlers (or a
handler with a job, a flush, a pipeline or another request of its own kind), and four requests
allow submit, a second operation, a deletion or retry, and one more that meets what the others left.
Three objects are the object in memory, the one the sink holds and one being built. A series of two
tasks exercises the cascade of a deletion and a job that outlives the Web process. In the hub, four
events overflow a history of two twice over, and two streams are enough for one to be registered and
another dropped. Three calls on two channels make one call queue behind
another, be abandoned there, and meet a stop command; two jobs are enough for a queue to outlive its
loop. In `Segmentation` the longest scripts open a third segment after a compressed one, a compression follows a
compression, rounding up to the minimum makes `Trim` necessary, and a single shot exceeds the limit (13 > 12). In `Film` two
requests make two compositions of different tasks, one after the other in a process or side by side in two, a generation beside one, or two generations of one segment; a death
lets an orphan work beside any of them. In `ChannelProfiles` the custom channel is `generic_http`, with words of its
own and a key of its own, and the default `volc_cv`, with the concurrency limit; two keys tell an old one from its correction, two forms are enough for one page to write over the other's, two tasks for
one to inherit, and two jobs of one task for a refresh beside a poll. A profile with some of its keys only is found by the theorems alone, which are of all channels. In `Assets` six requests make a parent, an episode, a shared picture, its
deletion, a second deletion and a save or crash amidst them. Requests, calls, forms and restarts end, so the `TaskStore`,
`McpChannels`, `Film`, `ChannelProfiles` and `Assets` runs do not check for deadlock; neither
does `VideoSlotsStarved`, whose system stops (that is the finding).

Each property of a passing run is also checked against a plausible slip in the code, defined beside
the definition it replaces (`LoadReadUnchecked`, `PublishShared`, `ReturnEarlyLeaks`, ...) and never used by the
specification itself.

### Fairness

Safety properties need none. `VideoSlots!FairSpec` assumes that the event loop resumes ready
coroutines, that the executor starts a queued call when a thread is free, and that calls to the
provider, ffprobe and ffmpeg return or time out (they have timeouts in the code); that a permit reaches
a particular waiting thread is fairness of each request. Nobody is assumed to make a request.
`ProgressHub!FairSpec` assumes that the loop resumes an `event_gen` that has something to send; a client
that no longer reads is a disconnected one. Nobody is assumed to publish, connect or restart.
`McpChannels!FairSpec` assumes that the loop resumes the owners, the calls that wait for a permit and `close()`,
and that servers start, answer or are timed out (30 s for `initialize`, a timeout for each tool). The 3600 s
after which a caller gives up need never pass: the answers do not depend on that timeout.
`Segmentation!FairSpec` lets the parsing go on: it has no awaits in it. `Film!FairSpec` assumes that the channel goes on with the
call it executes (each tool and each subprocess has a timeout) other than by raising, and that answered coroutines are resumed; the provider need never finish.
`ChannelProfiles!FairSpec` assumes that a scheduled job goes on; the provider need never answer.

## 4. Findings

* **`TaskStorePending`** - the lifespan loads the rows into memory (`main.py:107`) before it marks pending
  rows as failed (`main.py:110`). The copy in memory stays pending after the restart, and `retry_task`
  refuses a pending task: the endless spinner `tasks/reconcile.py` is there to prevent.
* **`TaskStoreAnnounced`** - `_after_job` puts a new object into `task_store`, but the log sink keeps the old
  one; the debounced flush that follows writes the old script over the row, and the announced
  video is gone from it.
* **`VideoSlotsStarved`** - requests that wait for a slot block executor threads; when they hold all of
  them, the permit holders' own probes cannot run and nothing ever ends. The default executor has
  min(32, cpus + 4) threads: six on a two-core machine.

Known from the models, without a run of their own:

* a save that passed the deletion mark before the deletion brings the row back after it (`drama_agent.py:158`, `TaskStore!Save`, `Commit`);
* two retries pass the status check and start two pipelines on one object (`drama_agent.py:346`, `TaskStore!Retry`, `RetryReset`);
* `drop` leaves streams open and silent (`progress_hub.py:104`, `ProgressHub!Drop`);
* from a worker's second job on, a channel's owner dies after each call, because its queue belongs to the first
  job's event loop, and `aclose` passes over its server (`agent_mcp_client.py:76`, `McpChannels!Die`);
* a channel of the pool is picked by the length of its queue, not counting the call it executes (`agent_mcp_client.py:204`, `McpChannels!Picked`);
* one compression of durations is bounded by a third, a sequence of them is not: with the run's constants shots of 13 s come down to 9 and 6 s, though
  `README.md:528` of the repository says "at most about a third" (`Segmentation!Compress`);
* a series' deletion marks and pops the root only (`drama_agent.py:321-323`), while the rows of its episodes go too (`db/crud.py:155`). An episode that is still in
  `task_store` gets its row back with its next save, of its pipeline or of a pending log flush (`_save_task`, 157-169), against what the docstring says at 319-320; so does one that is submitted
  while its series is deleted, under a root that is gone (`TaskStore!DeleteRows`, `Flush`, `Save`; a property that no row of an episode appears after its root's deletion is violated on `TaskStoreSeries`);
* a broker that cannot be reached makes `.delay()` raise after the key was added: it stays in `_busy`, and the button answers "busy" until the next start
  (`drama_agent.py:706-710`, `851-857`, `TaskStore!BrokerDown`; `KeysHaveHolders` without its exception is violated on `TaskStoreSeries`);
* two processes, or a process and the orphaned server of one that died, overwrite each other's files: a film shows another task's
  clips, a delivered video is cut off or two mixed in one (`video_tool.py:214`, `336`; with two processes or an orphan `FilmIsOwn` and `DeliveredVideosPlay` without `~met` are violated on `Film`);
* where the secret has changed, or differs between the Web process and a worker, keys are read as blank in a profile that stays custom: the job is submitted to the user's provider
  with `.env`'s key (`core/crypto.py:52-71`, `drama_agent.py:173-195`, `media_channel.py:93-99`, `503`, `547`), where `decrypt_str`'s docstring says that such a field counts
  as not configured; and the form that was shown before is turned down, or falls back to the default, when it is saved after (`ChannelProfiles!Readings`, `Account`);
* of two pages that save at once the later one's form takes the place of the earlier one's, merged with what was there before both (`api/channels.py:41`, `ChannelProfiles!PutWrites`);
* a clip ffmpeg cannot normalise is left out and the task is done all the same (`video_tool.py:349`, `Film!Skipped`, `Composed`).

## 5. Proofs

All theorems hold for every value of the constants (any numbers of tasks, segments, objects,
coroutines, streams, requests, calls, channels, permits, shots, processes; both job modes; faults or not), under the named assumptions
of the modules: `Parent` maps tasks to tasks or None, the bounds are naturals, None, the two fixed keys, Boot, Mask and Blank
are no elements of the other sets, orphans are no processes, the history has room for an event, requests and calls form finite sets, there is a channel and a permit,
1 <= DurMin <= DurMax, DurMin <= SegMax, and a segment may have a shot and a task has a segment.

* `TaskStore_proof!TypeCorrect`: `Spec => []TypeOK`. `TypeOK` is inductive as it stands because it says more
  than types: each frame holds what the code after its await uses (`FrameOK`), no reference dangles
  (`NoDangling`), and while the process starts nothing is under way but workers' jobs (`StartupQuiet`). `StepKeepsTypes`
  reduces an action to what it does to references and frames; there is one lemma per action.
* `TaskStore_proof!ScriptsFollowStages`: `StagesHaveScripts`. It speaks of rows, objects and the snapshots of suspended
  coroutines at once, and with `TypeOK` that makes it inductive: every copy is whole, and each action that enters a
  stage does it on an object whose script it has just looked at or written.
* `TaskStore_proof!NoKeyLeaks`, `WorkIsExclusive`: `KeysHaveHolders` and `NoDuplicateWork`, the first of all keys where the broker works or jobs are local, and of those of
  pictures where it may fail. Neither is inductive:
  a coroutine may be about to free a key (needs: a holder's key is in `busy` unless the task was
  deleted, `HoldersLocked`) and a worker's job frees no key of the Web process (`QueueKeysFree`). `KeyInv` is the
  conjunction of the four.
* `TaskStore_proof!DeletionIsFinal`: `DeadStaysDead`, an action property. From `TypeOK` each action is shown to
  preserve `Dead(t)`: it works on another task, or sees the mark, or has nothing to write.
* `TaskStore_proof!SubmissionsSurvive`: `AckedTasksHaveRows`. `AckInv` adds that the save of a submission has
  something to write (`SubmissionsSave`), that between this save and the answer the row is there unless the task was deleted
  (`SubmittedHaveRows`), and that a deletion under way has noted every task whose row it takes away (`DeletesErased`).
* `ProgressHub_proof!HubImplementsFeed`, `SeqsRise`, `TypeCorrect`. The invariant says that the history is the end of
  the log, that a stream's snapshot and queue together are the stretch of the log after the last event
  sent (`Stretch`), reaching its end while the stream is registered, and that the seqs on it
  rise up to a bound which the hub's counter may only undercut when the stream was dropped (`Seqs`). It
  rests on lemmas about appending to and taking from sequences of events.
* `VideoSlots_proof!PermitsNeverLeak`, `TypeCorrect`: the permits left and the requests between acquire and release
  add up. The invariant also needs that the executor's calls belong to suspended requests.
* `VideoSlots_proof!OnlyCrowdsStarve`, `SlotsSuffice` say when the finding of `VideoSlotsStarved` can come about: whoever is under way can go on
  (`CanGo` spells out the guards) while fewer requests wait for a slot than there are threads, hence always if there are fewer requests than
  slots and threads together. The run that starves has as many (4 = 2 + 2), the one that does not one fewer (4 < 2 + 3). The argument: who cannot go on has its call in
  the queue (`CallsAreQueued`) or waits in a thread, and with no permit left somebody holds one, so that the queue is not empty.
* `McpChannels_proof!TypeCorrect`, `LimitIsKept`, `NoCallIsLost`, `ShutdownIsClean`. `CallsAreHeld` needs that nobody finds
  a stop command while calls are made (`StopsAwaited`, `OneStop`: a worker's stop command is the last of its
  queue and is waited for), that a worker closes when nobody waits (`JobsAreOver`), and that only a busy owner
  has a call (`OwnersTidy`), so that one that dies on its empty queue loses none. `ShutdownLeavesNothing` needs
  that the Web process has one loop, so that its owners never die (`LoopsPass`, `WebOrphans`).
* `ChannelProfiles_proof!TypeCorrect`, `SavedAreUsable`, `ReadingAndSavingIsIdle`, `JobsKeepTheirAccount`, `JobsRunOut`. `SavedIsUsable` is of what is written, as
  readings may be blank; it needs that what a PUT is about to write is complete too, whatever reading of the row it was merged with (not the one it overwrites), and
  `RoundTrip` that a stored custom channel has all its keys. `JobsRunOut` bounds a job's steps by Waits + Polls + 3: each step
  of its own lowers `StepsLeft`, none of another's raises it; it needs that the rounds counted never exceed their bound (`RoundsOK`).
* `Assets_proof!TypeCorrect`, `NewAndForeignFilesAreSpared`, `SettledFilesAreKept`, `StartsSettle`. The invariant relates what each collection
  has read to what was saved and written since: a row that was not written during the collection refers to nothing the collection did not see
  referred to; what was read is registered or was saved; during a start nothing else is under way.

* `Segmentation_proof!TypeCorrect`, `PartitionHolds`, `WithinLimitsHolds`, `NothingLeftToCutHolds`, `MergedFirstHolds`, for scripts of
  any length and all limits. The invariant says of the first pass that the finished segments cut the shots before the open one into runs
  (`Cuts`), that the open one is the run up to the shot the loop is at (`OpenOK`), and why each segment did not take the next shot (`Full`);
  of the second, that its segments are the first's so far (`Same`) and the open one the part of `old[k]` it has seen (`CollectOK`), so
  that its sum is a partial sum of one that is within the limit. `Before` separates the segments' shots, which is why a compression
  leaves finished segments' durations alone.
* `Segmentation_proof!ParsingShrinks`: each step lowers, lexicographically, the phase, the rounds of the outer loop, those of the inner
  loop, the seconds a compression may still take. With `ShorterWellFounded` this says that the loops end.
* `Film_proof!TypeCorrect`, `DeliveredVideosPlayHolds`, `FilmIsOwnHolds`, for any numbers of processes and orphaned servers. The invariant: a coroutine is in its process's queue once
  (`Waiting`, `Once`), makes the calls of its kind (`Made`), and from the answer to the poll on its job has succeeded; from the
  download on its file is whole **unless `met`** (`Safe`): another coroutine that writes it disturbs it, and `Remember` keeps that in mind. Likewise the composition at the head of a queue that none has met has its clips in the
  work files its list names, whatever was there before (`Composing`). That the collected segments rise is proved of `Present` (`Increasing`). What
  happens when compositions or generations of one segment do meet is in section 4; no theorem is claimed of it.

Two techniques are worth knowing. The prover takes no induction over data with an operator as a parameter, so facts about sums (`SumFunction`) and
about the sequence `Present` builds are proved from a smallest set of indices, or least index, that violates them, which exists because the subset
ordering of finite sets and `<` on the naturals are well-founded (`SmallestSet`, `Least`). And an invariant's strengthening is first given to TLC, on the run's
instance.

Only model-checked: the liveness properties `EveryRequestEnds` (of `VideoSlots` and of `Film`), `EventsArrive`, `EveryCallAnswered`,
`ShutdownEnds`, `EveryScriptDecided` and `EveryJobEnds`, since fairness and ENABLED are beyond the prover. Of the last two the part that needs no fairness
is proved: the steps are finitely many.

## 6. Plan

In this order:

1. Proofs: the steps of a request of `VideoSlots` and of a call of `McpChannels` are bounded (the safety part of their liveness, as for
   `EveryJobEnds`).
2. `ScenePictures`: day, night and the keys in `_busy`, to be composed with `TaskStore`'s picture steps.
3. `TaskPage`: the frontend store on top of `EventFeed`: out-of-order answers, replayed history, watchdog.
4. `RateLimit`: hits at the edges of the window.

## 7. Not modelled

Accounts and tokens are request-local, and mostly cryptography and validation. The language model's and the pictures' servers are I/O,
whose answers the models take as arbitrary; so are prompts, payloads and presets. Configuration, metrics,
audit, migrations, scripts and the frontend's components keep no state other parts rely on.
Scene pictures, the rate limiter and the task page are planned.
