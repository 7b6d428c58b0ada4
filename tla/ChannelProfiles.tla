--------------------------- MODULE ChannelProfiles ---------------------------
(***************************************************************************)
(* A user's settings of one channel (the segment "video" of the channel    *)
(* configuration) and the provider's jobs that are run under them.         *)
(*                                                                         *)
(* The settings page reads the stored profile with its secrets masked and  *)
(* sends back a form; the server merges the form with what is stored       *)
(* (api/channels.py, schema/channel_schema.py).  A task that is submitted  *)
(* keeps a snapshot, the next episode inherits it, and a regeneration      *)
(* brings it up to date; the regeneration's job reads the snapshot from    *)
(* the task's row, submits a video to the provider the profile names and   *)
(* polls it until it is answered or its time is over.                      *)
(*                                                                         *)
(* Of a profile only the channel and the keys are kept: a custom profile   *)
(* that was accepted has the model names and addresses its channel needs.  *)
(* Keys are encrypted at rest; where the secret has changed since, or      *)
(* differs between two processes, they are read as blank.                  *)
(***************************************************************************)
EXTENDS Naturals

CONSTANTS Tab,        \* pages the settings are edited in
          Task,       \* the tasks of a series
          Job,        \* regenerations of a task's videos, each run once
          Custom,     \* the channels a user may choose
          Key,        \* real keys and secrets
          Blank,      \* a field left empty
          Mask,       \* MASK_PREFIX and the last characters
          NoProfile,  \* None: nothing stored, nothing submitted
          NoTask,     \* no task yet
          Polls,      \* bound: polls until timeout_seconds have passed
          Waits,      \* len(VIDEO_RETRY_WAIT)
          Saves       \* bound: forms sent

ASSUME BoundsAssumption == Polls \in Nat /\ Waits \in Nat /\ Saves \in Nat
ASSUME CustomAssumption == Custom \subseteq {"volc_cv", "volc_ark", "generic_http"}
ASSUME KeyAssumption == Blank \notin Key /\ Mask \notin Key /\ Blank # Mask

Channels == Custom \cup {"env"}

\* need_fields, as far as they are secrets.
NeedFields(c) == IF c = "volc_cv" THEN {"access_key", "secret_key"}
                 ELSE IF c = "volc_ark" THEN {"api_key"}
                 ELSE IF c = "generic_http" THEN {"token"} ELSE {}

KeyField == UNION {NeedFields(c) : c \in Custom}

Profile == [channel : Channels, keys : [KeyField -> Key \cup {Blank}]]

\* rest: are the other fields the channel needs filled in?  With some of them
\* only, a form is turned down like one without, if it has keys.
Form    == [channel : Channels, keys : [KeyField -> Key \cup {Blank, Mask}], rest : BOOLEAN]

VARIABLES stored,    \* the user's row in user_channel_configs, decrypted
          put,       \* put[t]: what a PUT is about to write
          saves,     \* forms sent so far
          snapshot,  \* snapshot[t]: the task's channel_config
          of,        \* of[j]: the task whose video job j makes
          pc,        \* pc[j]: where job j stands
          bound,     \* bound[j]: the profile it was loaded with
          account,   \* account[j]: where it submitted its video
          answer,    \* answer[j]: what the provider says of the video
          polls      \* polls[j]: rounds of the poll loop, or of waiting to submit

settings == <<stored, put, saves>>
running  == <<bound, account, answer, polls>>
vars     == <<settings, snapshot, of, pc, running>>

Results == {"ok", "failed", "error"}

-----------------------------------------------------------------------------
IsCustom(p) == p # NoProfile /\ p.channel # "env"

Needed(p) == {p.keys[f] : f \in NeedFields(p.channel)}

\* What a reading finds: decrypt_str gives a blank for what it cannot decrypt.
Readings(p) == IF p = NoProfile THEN {NoProfile}
               ELSE {p, [p EXCEPT !.keys = [f \in KeyField |-> Blank]]}

Masked(p) ==
  IF p = NoProfile THEN NoProfile
  ELSE [channel |-> p.channel, rest |-> TRUE,
        keys |-> [f \in KeyField |-> IF p.keys[f] = Blank THEN Blank ELSE Mask]]

\* A slip: only an empty field keeps the old value.
KeptIfBlank(new, old) == IF new = Blank THEN old ELSE new

\* A field that was not filled in, or comes back masked, keeps its old value.
Kept(new, old) == IF new \in {Blank, Mask} THEN old ELSE new

Keys(p) == IF p = NoProfile THEN [f \in KeyField |-> Blank] ELSE p.keys

\* A slip: the form replaces what is stored.
MergedOver(form, old) == form

Merged(form, old) ==
  IF form = NoProfile THEN old
  ELSE [channel |-> form.channel, keys |-> [f \in KeyField |-> Kept(form.keys[f], Keys(old)[f])]]

\* A custom channel with nothing filled in falls back to the default.
Deactivated(p, filled) == IF IsCustom(p) /\ Needed(p) = {Blank} /\ ~filled
                          THEN [p EXCEPT !.channel = "env"] ELSE p

Valid(p) == IsCustom(p) => Blank \notin Needed(p)

Filled(form) == form # NoProfile => form.rest
Saved(form, old) == Deactivated(Merged(form, old), Filled(form))

-----------------------------------------------------------------------------
Init == /\ stored = NoProfile /\ put = [t \in Tab |-> NoProfile] /\ saves = 0
        /\ snapshot = [t \in Task |-> NoTask]
        /\ of \in [Job -> Task]
        /\ pc = [j \in Job |-> "idle"]
        /\ bound = [j \in Job |-> NoProfile]
        /\ account = [j \in Job |-> NoProfile]
        /\ answer = [j \in Job |-> "none"]
        /\ polls = [j \in Job |-> 0]

\* A slip: what is missing is not looked for.
PutReadsUnchecked(t, form) ==
  /\ saves < Saves /\ put[t] = NoProfile
  /\ saves' = saves + 1
  /\ \E old \in Readings(stored) : put' = [put EXCEPT ![t] = Saved(form, old)]
  /\ UNCHANGED <<stored, snapshot, of, pc, running>>

\* PUT /api/user/channel-config reads the row, merges the form with it and
\* turns an incomplete profile down ...
PutReads(t, form) ==
  /\ saves < Saves /\ put[t] = NoProfile
  /\ saves' = saves + 1
  /\ \E old \in Readings(stored) :
       LET saved == Saved(form, old)
       IN  /\ Valid(saved) /\ (IsCustom(saved) => Filled(form))
           /\ put' = [put EXCEPT ![t] = saved]
  /\ UNCHANGED <<stored, snapshot, of, pc, running>>

\* ... and writes the row, whatever another page has written to it meanwhile.
PutWrites(t) ==
  /\ put[t] # NoProfile
  /\ stored' = put[t]
  /\ put' = [put EXCEPT ![t] = NoProfile]
  /\ UNCHANGED <<saves, snapshot, of, pc, running>>

\* _load_user_channel_profile: nothing, if the channel is the default or the
\* row cannot be read.
Latest == {NoProfile} \cup {p \in Readings(stored) : IsCustom(p)}

Refreshed(old, latest) == IF latest = NoProfile THEN old ELSE latest

\* submit_new_task: the first episode's snapshot is the user's profile; ...
Submit(t) == /\ snapshot[t] = NoTask
             /\ \E latest \in Latest : snapshot' = [snapshot EXCEPT ![t] = latest]
             /\ UNCHANGED <<settings, of, pc, running>>

\* ... the next one's is the one before's, brought up to date.
Continue(t, parent) ==
  /\ snapshot[t] = NoTask /\ snapshot[parent] # NoTask
  /\ \E inherited \in Readings(snapshot[parent]), latest \in Latest :
       snapshot' = [snapshot EXCEPT ![t] = Refreshed(inherited, latest)]
  /\ UNCHANGED <<settings, of, pc, running>>

\* A slip: the refresh changes the profile in place, under the running jobs.
RegenerateInPlace(j) ==
  /\ pc[j] = "idle" /\ snapshot[of[j]] # NoTask
  /\ \E known \in Readings(snapshot[of[j]]), latest \in Latest :
       /\ snapshot' = [snapshot EXCEPT ![of[j]] = Refreshed(known, latest)]
       /\ bound' = [i \in Job |-> IF of[i] = of[j] /\ pc[i] \in {"submit", "poll"}
                                  THEN Refreshed(known, latest) ELSE bound[i]]
  /\ pc' = [pc EXCEPT ![j] = "scheduled"]
  /\ UNCHANGED <<settings, of, account, answer, polls>>

\* A regeneration: _refresh_media_profile brings the snapshot of the task, which
\* a restart may have read from its row, up to date; then the job is scheduled.
Regenerate(j) ==
  /\ pc[j] = "idle" /\ snapshot[of[j]] # NoTask
  /\ \E known \in Readings(snapshot[of[j]]), latest \in Latest :
       snapshot' = [snapshot EXCEPT ![of[j]] = Refreshed(known, latest)]
  /\ pc' = [pc EXCEPT ![j] = "scheduled"]
  /\ UNCHANGED <<settings, of, running>>

\* load_task reads the row, bind_profile binds its profile to the job.
Load(j) == /\ pc[j] = "scheduled"
           /\ pc' = [pc EXCEPT ![j] = "submit"]
           /\ \E profile \in Readings(snapshot[of[j]]) : bound' = [bound EXCEPT ![j] = profile]
           /\ UNCHANGED <<settings, snapshot, of, account, answer, polls>>

\* effective_channel: .env's channel, here volc_cv, is the default.
Channel(p) == IF IsCustom(p) THEN p.channel ELSE "volc_cv"

\* Whom a request under the profile addresses, and with which keys (_p: .env's
\* for what is blank).
Account(p) == [channel |-> Channel(p),
               keys |-> [f \in NeedFields(Channel(p)) \cap KeyField |-> Keys(p)[f]]]

\* The job ends with a result; what it worked with is given up.
Ends(j, result) == /\ pc' = [pc EXCEPT ![j] = result]
                   /\ bound' = [bound EXCEPT ![j] = NoProfile]
                   /\ account' = [account EXCEPT ![j] = NoProfile]
                   /\ polls' = [polls EXCEPT ![j] = 0]
                   /\ UNCHANGED <<settings, snapshot, of, answer>>

\* submit_video_task: volc_cv turns down what exceeds its concurrency limit,
\* and is asked again after a while.
SubmitWaits(j) == /\ pc[j] = "submit" /\ Channel(bound[j]) = "volc_cv"
                  /\ polls[j] < Waits
                  /\ polls' = [polls EXCEPT ![j] = @ + 1]
                  /\ UNCHANGED <<settings, snapshot, of, pc, bound, account, answer>>

SubmitRaises(j) == /\ pc[j] = "submit"
                   /\ Ends(j, "error")

Submitted(j) == /\ pc[j] = "submit"
                /\ pc' = [pc EXCEPT ![j] = "poll"]
                /\ account' = [account EXCEPT ![j] = Account(bound[j])]
                /\ answer' = [answer EXCEPT ![j] = "running"]
                /\ polls' = [polls EXCEPT ![j] = 0]
                /\ UNCHANGED <<settings, snapshot, of, bound>>

\* The words the providers use for the end of a job.
Words(channel) == IF channel = "volc_cv" THEN {"done", "failed", "cancel"}
                  ELSE IF channel = "volc_ark" THEN {"succeeded", "done", "failed", "cancelled"}
                  ELSE {"succeeded", "failed", "fail", "error", "cancelled"}

ProviderEnds(j, word) == /\ pc[j] = "poll" /\ answer[j] = "running"
                         /\ word \in Words(account[j].channel)
                         /\ answer' = [answer EXCEPT ![j] = word]
                         /\ UNCHANGED <<settings, snapshot, of, pc, bound, account, polls>>

\* What query_video_result makes of them: "fail" and "error" of a generic_http
\* provider are passed on by _video_http_poll and known to nobody.
Success == {"succeeded", "done"}
Failure == {"failed", "cancelled", "cancel"}

Polling(j) == pc[j] = "poll" /\ polls[j] < Polls

PollSeesSuccess(j) == /\ Polling(j) /\ answer[j] \in Success
                      /\ Ends(j, "ok")

PollSeesFailure(j) == /\ Polling(j) /\ answer[j] \in Failure
                      /\ Ends(j, "failed")

\* A slip: rounds in which the provider cannot be reached are not counted.
PollAgainUncounted(j) == /\ Polling(j)
                         /\ UNCHANGED vars

\* The provider is at work, cannot be reached (which ends the loop of volc_cv
\* only) or uses another word: the loop goes on.
PollAgain(j) == /\ Polling(j)
                /\ answer[j] \notin Success \cup Failure \/ account[j].channel # "volc_cv"
                /\ polls' = [polls EXCEPT ![j] = @ + 1]
                /\ UNCHANGED <<settings, snapshot, of, pc, bound, account, answer>>

\* A success without an address, or volc_cv unreachable.
PollRaises(j) == /\ Polling(j)
                 /\ answer[j] \in Success \/ account[j].channel = "volc_cv"
                 /\ Ends(j, "error")

\* The time is over, which the caller is told as a failure.
PollTimesOut(j) == /\ pc[j] = "poll" /\ polls[j] = Polls
                   /\ Ends(j, "failed")

JobStep(j) == \/ Load(j) \/ SubmitWaits(j) \/ SubmitRaises(j) \/ Submitted(j)
              \/ PollSeesSuccess(j) \/ PollSeesFailure(j) \/ PollAgain(j)
              \/ PollRaises(j) \/ PollTimesOut(j)

Next == \/ \E t \in Tab, form \in Form \cup {NoProfile} : PutReads(t, form)
        \/ \E t \in Tab : PutWrites(t)
        \/ \E t \in Task : Submit(t) \/ \E parent \in Task : Continue(t, parent)
        \/ \E j \in Job : Regenerate(j) \/ JobStep(j)
        \/ \E j \in Job, word \in Success \cup Failure \cup {"fail", "error"} :
             ProviderEnds(j, word)

Spec == Init /\ [][Next]_vars

\* A job that is scheduled goes on: its calls have timeouts, its waits end.
FairSpec == Spec /\ \A j \in Job : WF_vars(JobStep(j))

-----------------------------------------------------------------------------
\* What is at rest and what jobs are given are profiles with real secrets: a
\* mask the page was shown never comes back as a key (merge_profiles).
TypeOK ==
  /\ stored \in Profile \cup {NoProfile}
  /\ snapshot \in [Task -> Profile \cup {NoProfile, NoTask}]
  /\ put \in [Tab -> Profile \cup {NoProfile}]
  /\ bound \in [Job -> Profile \cup {NoProfile}]
  /\ of \in [Job -> Task]
  /\ pc \in [Job -> {"idle", "scheduled", "submit", "poll"} \cup Results]
  /\ polls \in [Job -> Nat] /\ saves \in 0..Saves

\* A custom profile is stored complete, though a form may leave fields out, two
\* pages may save at once, and the row may be merged with after its keys could
\* not be decrypted (deactivate_empty_segments, validate_profile).
SavedIsUsable == \A p \in {stored} \cup {put[t] : t \in Tab} : Valid(p)

\* Saving the form as it was shown changes nothing, even if the page was shown
\* blanks for keys that can be decrypted when it is saved (mask_sensitive and
\* merge_profiles undo each other).
RoundTrip == \A shown \in Readings(stored) : Saved(Masked(shown), stored) = stored

\* A job that has submitted its video polls the account it submitted it to,
\* whatever is saved and refreshed meanwhile (channel_schema.py: a task uses
\* its snapshot all the way).
PolledWhereSubmitted ==
  \A j \in Job : pc[j] = "poll" => Account(bound[j]) = account[j]

\* Every job ends, even when the provider never answers in words the loop knows.
EveryJobEnds == \A j \in Job : pc[j] = "scheduled" ~> pc[j] \in Results

=============================================================================
