----------------------- MODULE ChannelProfiles_proof -----------------------
(***************************************************************************)
(* For any pages, tasks, jobs, keys and bounds: what is saved is usable and *)
(* reads back as it is, and jobs keep to the account they began with, also  *)
(* where a reading finds blanks for keys it cannot decrypt.                *)
(***************************************************************************)
EXTENDS ChannelProfiles, TLAPS

MaybeProfile == Profile \cup {NoProfile}
PC == {"idle", "scheduled", "submit", "poll"} \cup Results

Types ==
  /\ stored \in MaybeProfile
  /\ snapshot \in [Task -> MaybeProfile \cup {NoTask}]
  /\ put \in [Tab -> MaybeProfile]
  /\ bound \in [Job -> MaybeProfile]
  /\ of \in [Job -> Task]
  /\ pc \in [Job -> PC]
  /\ polls \in [Job -> Nat] /\ saves \in 0..Saves
  /\ DOMAIN account = Job /\ DOMAIN answer = Job

\* Completeness is kept by what is on its way, too.
Usable == Valid(stored) /\ \A t \in Tab : Valid(put[t])

\* The task of a job has its snapshot.
Begun == \A j \in Job : pc[j] # "idle" => snapshot[of[j]] \in MaybeProfile

IInv == Types /\ Usable /\ Begun /\ PolledWhereSubmitted

-----------------------------------------------------------------------------
\* What a reading finds is a profile, if not with the keys that were saved.
LEMMA ReadingsAreProfiles ==
  ASSUME NEW p \in MaybeProfile, NEW q \in Readings(p)
  PROVE  q \in MaybeProfile
<1>1. CASE p = NoProfile
  BY <1>1 DEF Readings, MaybeProfile
<1>2. CASE p # NoProfile
  <2>1. p \in Profile /\ q \in {p, [p EXCEPT !.keys = [f \in KeyField |-> Blank]]}
    BY <1>2 DEF Readings, MaybeProfile
  <2>. QED BY <2>1 DEF Profile, MaybeProfile
<1>. QED BY <1>1, <1>2

\* What is merged and deactivated has keys only, never a mask.
LEMMA SavedIsProfile ==
  ASSUME NEW form \in Form \cup {NoProfile}, NEW old \in MaybeProfile
  PROVE  Saved(form, old) \in MaybeProfile
<1>1. Merged(form, old) \in MaybeProfile
  <2>1. CASE form = NoProfile
    BY <2>1 DEF Merged
  <2>2. CASE form # NoProfile
    <3>1. form \in Form
      BY <2>2
    <3>2. Keys(old) \in [KeyField -> Key \cup {Blank}]
      BY DEF Keys, MaybeProfile, Profile
    <3>3. [f \in KeyField |-> Kept(form.keys[f], Keys(old)[f])] \in [KeyField -> Key \cup {Blank}]
      BY <3>1, <3>2 DEF Form, Kept
    <3>4. Merged(form, old) =
            [channel |-> form.channel, keys |-> [f \in KeyField |-> Kept(form.keys[f], Keys(old)[f])]]
      BY <2>2 DEF Merged
    <3>. QED BY <3>1, <3>3, <3>4 DEF Form, Profile, MaybeProfile
  <2>. QED BY <2>1, <2>2
<1>2. ASSUME NEW p \in MaybeProfile, NEW filled PROVE Deactivated(p, filled) \in MaybeProfile
  <2>1. CASE IsCustom(p)
    <3>1. p \in Profile
      BY <2>1 DEF IsCustom, MaybeProfile
    <3>. QED BY <3>1 DEF Deactivated, Profile, MaybeProfile, Channels
  <2>2. CASE ~IsCustom(p)
    BY <2>2 DEF Deactivated
  <2>. QED BY <2>1, <2>2
<1>. QED BY <1>1, <1>2 DEF Saved

\* Sending back what was read, with its secrets masked, restores what is stored,
\* even where the reading had blanks.
LEMMA MaskedReadsBack ==
  ASSUME NEW p \in MaybeProfile, Valid(p), NEW shown \in Readings(p)
  PROVE  Saved(Masked(shown), p) = p
<1>1. Merged(Masked(shown), p) = p
  <2>1. CASE Masked(shown) = NoProfile
    BY <2>1 DEF Merged
  <2>2. CASE Masked(shown) # NoProfile
    <3>1. p # NoProfile /\ shown # NoProfile
      BY <2>2 DEF Masked, Readings
    <3>2. p \in Profile /\ p.keys \in [KeyField -> Key \cup {Blank}]
      BY <3>1 DEF MaybeProfile, Profile
    <3>3. shown.channel = p.channel
      BY <3>1, <3>2 DEF Readings, Profile
    <3>. DEFINE masked == [f \in KeyField |-> IF shown.keys[f] = Blank THEN Blank ELSE Mask]
    <3>4. Masked(shown) = [channel |-> p.channel, rest |-> TRUE, keys |-> masked]
      BY <3>1, <3>3 DEF Masked
    <3>5. [f \in KeyField |-> Kept(masked[f], p.keys[f])] = p.keys
      BY <3>2 DEF Kept
    <3>6. Keys(p) = p.keys
      BY <3>1 DEF Keys
    <3>. HIDE DEF masked
    <3>7. Merged(Masked(shown), p) = [channel |-> p.channel, keys |-> p.keys]
      BY <2>2, <3>4, <3>5, <3>6 DEF Merged
    <3>. QED BY <3>2, <3>7 DEF Profile
  <2>. QED BY <2>1, <2>2
<1>2. Deactivated(p, Filled(Masked(shown))) = p
  BY DEF Deactivated, Valid
<1>. QED BY <1>1, <1>2 DEF Saved

\* What a task is given of the settings.
LEMMA LatestAreProfiles ==
  ASSUME Types, NEW latest \in Latest
  PROVE  latest \in MaybeProfile
BY ReadingsAreProfiles DEF Types, Latest, MaybeProfile

LEMMA InitInv == Init => IInv
  BY BoundsAssumption DEF Init, IInv, Types, MaybeProfile, PC, Results, Usable, Valid, IsCustom,
     Begun, PolledWhereSubmitted

\* The steps of the settings' pages leave the jobs alone.
LEMMA SettingsStep ==
  ASSUME IInv, NEW t \in Tab,
         PutWrites(t) \/ \E form \in Form \cup {NoProfile} : PutReads(t, form)
  PROVE  IInv'
<1>1. UNCHANGED <<snapshot, of, pc, bound, account, answer, polls>>
  BY DEF PutReads, PutWrites, running
<1>2. PolledWhereSubmitted' /\ Begun'
  BY <1>1 DEF IInv, PolledWhereSubmitted, Begun
<1>3. CASE PutWrites(t)
  <2>1. stored' = put[t] /\ put' = [put EXCEPT ![t] = NoProfile] /\ saves' = saves
    BY <1>3 DEF PutWrites
  <2>2. stored' \in MaybeProfile /\ put' \in [Tab -> MaybeProfile]
    BY <2>1 DEF IInv, Types, MaybeProfile
  <2>3. Valid(stored') /\ \A s \in Tab : Valid(put'[s])
    BY <2>1 DEF IInv, Types, Usable, Valid, IsCustom
  <2>. QED BY <1>1, <1>2, <2>1, <2>2, <2>3 DEF IInv, Types, Usable
<1>4. ASSUME NEW form \in Form \cup {NoProfile}, PutReads(t, form) PROVE IInv'
  <2>1. PICK old \in Readings(stored) :
          Valid(Saved(form, old)) /\ put' = [put EXCEPT ![t] = Saved(form, old)]
    BY <1>4 DEF PutReads
  <2>2. old \in MaybeProfile
    BY ReadingsAreProfiles DEF IInv, Types
  <2>. DEFINE p == Saved(form, old)
  <2>3. p \in MaybeProfile
    BY <2>2, SavedIsProfile
  <2>4. Valid(p) /\ put' = [put EXCEPT ![t] = p]
    BY <2>1
  <2>5. stored' = stored /\ saves < Saves /\ saves' = saves + 1
    BY <1>4 DEF PutReads
  <2>. HIDE DEF p
  <2>6. put' \in [Tab -> MaybeProfile] /\ \A s \in Tab : Valid(put'[s])
    BY <2>3, <2>4 DEF IInv, Types, Usable
  <2>7. saves' \in 0..Saves
    BY <2>5, BoundsAssumption DEF IInv, Types
  <2>. QED BY <1>1, <1>2, <2>5, <2>6, <2>7 DEF IInv, Types, Usable
<1>. QED BY <1>3, <1>4

\* A task is given its snapshot, or has it brought up to date.
LEMMA SnapshotStep ==
  ASSUME IInv, NEW t \in Task, NEW profile \in MaybeProfile,
         snapshot' = [snapshot EXCEPT ![t] = profile],
         UNCHANGED <<settings, of, running>>,
         \/ UNCHANGED pc
         \/ \E j \in Job : of[j] = t /\ pc[j] = "idle" /\ pc' = [pc EXCEPT ![j] = "scheduled"]
  PROVE  IInv'
<1>1. UNCHANGED <<stored, put, saves, of, bound, account, answer, polls>>
  BY DEF settings, running
<1>2. Types' /\ Usable'
  BY <1>1 DEF IInv, Types, Usable, PC
<1>3. Begun'
  <2>. SUFFICES ASSUME NEW i \in Job, pc'[i] # "idle" PROVE snapshot'[of[i]] \in MaybeProfile
    BY <1>1 DEF Begun
  <2>1. CASE of[i] = t
    BY <2>1 DEF IInv, Types
  <2>2. CASE of[i] # t
    BY <2>2 DEF IInv, Types, Begun
  <2>. QED BY <2>1, <2>2
<1>4. PolledWhereSubmitted'
  BY <1>1 DEF IInv, Types, PolledWhereSubmitted
<1>. QED BY <1>2, <1>3, <1>4 DEF IInv

LEMMA TaskInv ==
  ASSUME IInv,
         \/ \E t \in Task : Submit(t) \/ \E parent \in Task : Continue(t, parent)
         \/ \E j \in Job : Regenerate(j)
  PROVE  IInv'
<1>. USE DEF IInv
<1>1. ASSUME NEW t \in Task, Submit(t) PROVE IInv'
  <2>1. PICK latest \in Latest : snapshot' = [snapshot EXCEPT ![t] = latest]
    BY <1>1 DEF Submit
  <2>2. latest \in MaybeProfile
    BY LatestAreProfiles
  <2>. QED BY <1>1, <2>1, <2>2, SnapshotStep DEF Submit
<1>2. ASSUME NEW old, old \in Task, snapshot[old] # NoTask, NEW known \in Readings(snapshot[old]),
             NEW latest \in Latest
      PROVE  Refreshed(known, latest) \in MaybeProfile
  <2>1. known \in MaybeProfile
    BY <1>2, ReadingsAreProfiles DEF Types
  <2>. QED BY <2>1, LatestAreProfiles DEF Refreshed
<1>3. ASSUME NEW t \in Task, NEW parent \in Task, Continue(t, parent) PROVE IInv'
  <2>1. PICK inherited \in Readings(snapshot[parent]), latest \in Latest :
          snapshot' = [snapshot EXCEPT ![t] = Refreshed(inherited, latest)]
    BY <1>3 DEF Continue
  <2>2. Refreshed(inherited, latest) \in MaybeProfile
    BY <1>2, <1>3 DEF Continue
  <2>. QED BY <1>3, <2>1, <2>2, SnapshotStep DEF Continue
<1>4. ASSUME NEW j \in Job, Regenerate(j) PROVE IInv'
  <2>1. of[j] \in Task
    BY DEF Types
  <2>2. PICK known \in Readings(snapshot[of[j]]), latest \in Latest :
          snapshot' = [snapshot EXCEPT ![of[j]] = Refreshed(known, latest)]
    BY <1>4 DEF Regenerate
  <2>3. Refreshed(known, latest) \in MaybeProfile
    BY <1>2, <1>4, <2>1 DEF Regenerate
  <2>. QED BY <1>4, <2>1, <2>2, <2>3, SnapshotStep DEF Regenerate
<1>. QED BY <1>1, <1>3, <1>4

\* The end of a job.
LEMMA EndStep ==
  ASSUME IInv, NEW j \in Job, pc[j] # "idle", NEW result \in Results, Ends(j, result)
  PROVE  IInv'
<1>1. /\ UNCHANGED <<stored, put, saves, snapshot, of, answer>>
      /\ pc' = [pc EXCEPT ![j] = result] /\ bound' = [bound EXCEPT ![j] = NoProfile]
      /\ account' = [account EXCEPT ![j] = NoProfile] /\ polls' = [polls EXCEPT ![j] = 0]
  BY DEF Ends, settings
<1>2. Types' /\ Usable' /\ Begun'
  BY <1>1 DEF IInv, Types, MaybeProfile, PC, Usable, Begun
<1>3. PolledWhereSubmitted'
  BY <1>1 DEF IInv, Types, PolledWhereSubmitted, Results
<1>. QED BY <1>2, <1>3 DEF IInv

LEMMA JobInv == ASSUME IInv, NEW j \in Job, JobStep(j) PROVE IInv'
<1>1. CASE Load(j)
  <2>1. PICK profile \in Readings(snapshot[of[j]]) : bound' = [bound EXCEPT ![j] = profile]
    BY <1>1 DEF Load
  <2>2. /\ UNCHANGED <<stored, put, saves, snapshot, of, account, answer, polls>>
        /\ pc[j] = "scheduled" /\ pc' = [pc EXCEPT ![j] = "submit"]
    BY <1>1 DEF Load, settings
  <2>3. profile \in MaybeProfile
    BY <2>2, ReadingsAreProfiles DEF IInv, Begun
  <2>4. Types' /\ Usable' /\ Begun'
    BY <2>1, <2>2, <2>3 DEF IInv, Types, Usable, Begun, PC
  <2>5. PolledWhereSubmitted'
    BY <2>1, <2>2 DEF IInv, Types, PolledWhereSubmitted
  <2>. QED BY <2>4, <2>5 DEF IInv
<1>2. CASE SubmitWaits(j) \/ PollAgain(j)
  <2>1. /\ UNCHANGED <<stored, put, saves, snapshot, of, pc, bound, account, answer>>
        /\ polls' = [polls EXCEPT ![j] = polls[j] + 1]
    BY <1>2 DEF SubmitWaits, PollAgain, settings
  <2>2. Types' /\ Usable'
    BY <2>1 DEF IInv, Types, Usable
  <2>. QED BY <2>1, <2>2 DEF IInv, Begun, PolledWhereSubmitted
<1>3. CASE Submitted(j)
  <2>1. /\ UNCHANGED <<stored, put, saves, snapshot, of, bound>>
        /\ pc[j] = "submit" /\ pc' = [pc EXCEPT ![j] = "poll"]
        /\ account' = [account EXCEPT ![j] = Account(bound[j])]
        /\ answer' = [answer EXCEPT ![j] = "running"] /\ polls' = [polls EXCEPT ![j] = 0]
    BY <1>3 DEF Submitted, settings
  <2>2. Types' /\ Usable' /\ Begun'
    BY <2>1 DEF IInv, Types, Usable, Begun, PC
  <2>3. PolledWhereSubmitted'
    BY <2>1 DEF IInv, Types, PolledWhereSubmitted
  <2>. QED BY <2>2, <2>3 DEF IInv
<1>4. CASE SubmitRaises(j) \/ PollRaises(j) \/ PollSeesSuccess(j) \/ PollSeesFailure(j)
              \/ PollTimesOut(j)
  <2>1. pc[j] # "idle" /\ \E result \in Results : Ends(j, result)
    BY <1>4 DEF SubmitRaises, PollRaises, PollSeesSuccess, PollSeesFailure, PollTimesOut, Polling, Results
  <2>. QED BY <2>1, EndStep
<1>. QED BY <1>1, <1>2, <1>3, <1>4 DEF JobStep

LEMMA StepInv == IInv /\ [Next]_vars => IInv'
<1>. SUFFICES ASSUME IInv, [Next]_vars PROVE IInv'
  OBVIOUS
<1>1. ASSUME NEW j \in Job, NEW word, ProviderEnds(j, word) PROVE IInv'
  <2>1. /\ UNCHANGED <<stored, put, saves, snapshot, of, pc, bound, account, polls>>
        /\ answer' = [answer EXCEPT ![j] = word]
    BY <1>1 DEF ProviderEnds, settings
  <2>. QED BY <2>1 DEF IInv, Types, Usable, Begun, PolledWhereSubmitted
<1>2. CASE UNCHANGED vars
  BY <1>2 DEF vars, settings, running, IInv, Types, Usable, Begun, PolledWhereSubmitted
<1>. QED BY <1>1, <1>2, TaskInv, SettingsStep, JobInv DEF Next

LEMMA Invariance == Spec => []IInv
  BY InitInv, StepInv, PTL DEF Spec

-----------------------------------------------------------------------------
\* A mask is never stored, snapshotted or given to a job as a key.
THEOREM TypeCorrect == Spec => []TypeOK
<1>1. IInv => TypeOK
  BY DEF IInv, Types, TypeOK, MaybeProfile, PC
<1>. QED BY <1>1, Invariance, PTL

\* However the saves of several pages interleave, and whatever the readings they
\* are merged with have lost, a custom profile is complete when it is written.
THEOREM SavedAreUsable == Spec => []SavedIsUsable
<1>1. IInv => SavedIsUsable
  BY DEF IInv, Usable, SavedIsUsable
<1>. QED BY <1>1, Invariance, PTL

\* Reading the settings and saving them unchanged changes nothing.
THEOREM ReadingAndSavingIsIdle == Spec => []RoundTrip
<1>1. IInv => RoundTrip
  BY MaskedReadsBack DEF IInv, Types, Usable, RoundTrip
<1>. QED BY <1>1, Invariance, PTL

\* A job asks the account it has submitted its video to, whatever is saved and
\* refreshed meanwhile (query_video_result under the bound profile).
THEOREM JobsKeepTheirAccount == Spec => []PolledWhereSubmitted
<1>1. IInv => PolledWhereSubmitted
  BY DEF IInv
<1>. QED BY <1>1, Invariance, PTL

-----------------------------------------------------------------------------
(***************************************************************************)
(* A job comes to an end: the steps it has left are bounded by the waits   *)
(* before a submission and the rounds of the poll loop.                    *)
(***************************************************************************)
RoundsOK == \A j \in Job : /\ pc[j] \in {"idle", "scheduled"} => polls[j] = 0
                           /\ pc[j] = "submit" => polls[j] <= Waits
                           /\ pc[j] = "poll" => polls[j] <= Polls

StepsLeft(j) == CASE pc[j] = "scheduled" -> Waits + Polls + 3
                  [] pc[j] = "submit" -> (Waits - polls[j]) + Polls + 2
                  [] pc[j] = "poll" -> (Polls - polls[j]) + 1
                  [] OTHER -> 0

\* Only a request starts a job; everything else leaves it or brings it nearer to
\* its end.
RunsOut(j) == /\ JobStep(j) => StepsLeft(j)' < StepsLeft(j)
              /\ pc[j] # "idle" => StepsLeft(j)' <= StepsLeft(j)
              /\ StepsLeft(j) \in 0..(Waits + Polls + 3)

\* What a step of one job does to it and to the others.
LEMMA JobRunsOut ==
  ASSUME IInv, RoundsOK, NEW j \in Job, JobStep(j)
  PROVE  /\ RoundsOK'
         /\ StepsLeft(j)' \in Nat /\ StepsLeft(j)' < StepsLeft(j)
         /\ \A i \in Job : i # j => pc'[i] = pc[i] /\ polls'[i] = polls[i]
<1>1. /\ Waits \in Nat /\ Polls \in Nat /\ pc \in [Job -> PC] /\ polls \in [Job -> Nat] /\ polls[j] \in Nat
  BY BoundsAssumption DEF IInv, Types
<1>2. ASSUME NEW word, NEW m \in Nat, pc' = [pc EXCEPT ![j] = word], polls' = [polls EXCEPT ![j] = m],
             word \in Results \/ (word = "submit" /\ m <= Waits) \/ (word = "poll" /\ m <= Polls)
      PROVE  /\ RoundsOK' /\ pc'[j] = word /\ polls'[j] = m
             /\ \A i \in Job : i # j => pc'[i] = pc[i] /\ polls'[i] = polls[i]
  <2>1. /\ pc'[j] = word /\ polls'[j] = m
        /\ \A i \in Job : i # j => pc'[i] = pc[i] /\ polls'[i] = polls[i]
    BY <1>1, <1>2
  <2>2. RoundsOK'
    BY <1>2, <2>1 DEF RoundsOK, Results
  <2>. QED BY <2>1, <2>2
<1>3. CASE Load(j)
  <2>1. /\ pc[j] = "scheduled" /\ polls[j] = 0 /\ pc' = [pc EXCEPT ![j] = "submit"]
        /\ polls' = [polls EXCEPT ![j] = 0]
    BY <1>1, <1>3 DEF Load, RoundsOK
  <2>2. /\ RoundsOK' /\ pc'[j] = "submit" /\ polls'[j] = 0
        /\ \A i \in Job : i # j => pc'[i] = pc[i] /\ polls'[i] = polls[i]
    <3>1. 0 \in Nat /\ 0 <= Waits
      BY <1>1
    <3>. QED BY <1>2, <2>1, <3>1
  <2>3. StepsLeft(j)' = (Waits - 0) + Polls + 2
    BY <2>2 DEF StepsLeft
  <2>4. StepsLeft(j) = Waits + Polls + 3
    BY <2>1 DEF StepsLeft
  <2>. QED BY <1>1, <2>1, <2>2, <2>3, <2>4
<1>4. CASE SubmitWaits(j)
  <2>1. /\ pc[j] = "submit" /\ polls[j] + 1 <= Waits /\ polls[j] + 1 \in Nat
        /\ pc' = [pc EXCEPT ![j] = "submit"] /\ polls' = [polls EXCEPT ![j] = polls[j] + 1]
    BY <1>1, <1>4 DEF SubmitWaits
  <2>2. /\ RoundsOK' /\ pc'[j] = "submit" /\ polls'[j] = polls[j] + 1
        /\ \A i \in Job : i # j => pc'[i] = pc[i] /\ polls'[i] = polls[i]
    BY <1>1, <1>2, <2>1
  <2>3. StepsLeft(j)' = (Waits - (polls[j] + 1)) + Polls + 2
    BY <2>2 DEF StepsLeft
  <2>4. StepsLeft(j) = (Waits - polls[j]) + Polls + 2
    BY <2>1 DEF StepsLeft
  <2>. QED BY <1>1, <2>1, <2>2, <2>3, <2>4
<1>5. CASE Submitted(j)
  <2>1. /\ pc[j] = "submit" /\ polls[j] <= Waits
        /\ pc' = [pc EXCEPT ![j] = "poll"] /\ polls' = [polls EXCEPT ![j] = 0]
    BY <1>5 DEF Submitted, RoundsOK
  <2>2. /\ RoundsOK' /\ pc'[j] = "poll" /\ polls'[j] = 0
        /\ \A i \in Job : i # j => pc'[i] = pc[i] /\ polls'[i] = polls[i]
    <3>1. 0 \in Nat /\ 0 <= Polls
      BY <1>1
    <3>. QED BY <1>2, <2>1, <3>1
  <2>3. StepsLeft(j)' = (Polls - 0) + 1
    BY <2>2 DEF StepsLeft
  <2>4. StepsLeft(j) = (Waits - polls[j]) + Polls + 2
    BY <2>1 DEF StepsLeft
  <2>. QED BY <1>1, <2>1, <2>2, <2>3, <2>4
<1>6. CASE PollAgain(j)
  <2>1. /\ pc[j] = "poll" /\ polls[j] + 1 <= Polls /\ polls[j] + 1 \in Nat
        /\ pc' = [pc EXCEPT ![j] = "poll"] /\ polls' = [polls EXCEPT ![j] = polls[j] + 1]
    BY <1>1, <1>6 DEF PollAgain, Polling
  <2>2. /\ RoundsOK' /\ pc'[j] = "poll" /\ polls'[j] = polls[j] + 1
        /\ \A i \in Job : i # j => pc'[i] = pc[i] /\ polls'[i] = polls[i]
    BY <1>1, <1>2, <2>1
  <2>3. StepsLeft(j)' = (Polls - (polls[j] + 1)) + 1
    BY <2>2 DEF StepsLeft
  <2>4. StepsLeft(j) = (Polls - polls[j]) + 1
    BY <2>1 DEF StepsLeft
  <2>. QED BY <1>1, <2>1, <2>2, <2>3, <2>4
<1>7. ASSUME NEW result \in Results, Ends(j, result), pc[j] \in {"submit", "poll"}
      PROVE  /\ RoundsOK' /\ StepsLeft(j)' \in Nat /\ StepsLeft(j)' < StepsLeft(j)
             /\ \A i \in Job : i # j => pc'[i] = pc[i] /\ polls'[i] = polls[i]
  <2>1. /\ RoundsOK' /\ pc'[j] = result /\ polls'[j] = 0
        /\ \A i \in Job : i # j => pc'[i] = pc[i] /\ polls'[i] = polls[i]
    BY <1>2, <1>7 DEF Ends
  <2>2. StepsLeft(j)' = 0
    BY <2>1 DEF StepsLeft, Results
  <2>3. StepsLeft(j) > 0
    BY <1>1, <1>7 DEF StepsLeft, RoundsOK
  <2>. QED BY <2>1, <2>2, <2>3
<1>8. CASE SubmitRaises(j) \/ PollRaises(j) \/ PollTimesOut(j) \/ PollSeesSuccess(j) \/ PollSeesFailure(j)
  BY <1>7, <1>8 DEF SubmitRaises, PollRaises, PollTimesOut, PollSeesSuccess, PollSeesFailure, Polling, Results
<1>. QED BY <1>3, <1>4, <1>5, <1>6, <1>8 DEF JobStep

LEMMA OthersWait ==
  ASSUME IInv, RoundsOK, NEW j \in Job, pc'[j] = pc[j], polls'[j] = polls[j]
  PROVE  StepsLeft(j)' = StepsLeft(j)
BY DEF StepsLeft

LEMMA LeftBounded ==
  ASSUME IInv, RoundsOK, NEW j \in Job
  PROVE  StepsLeft(j) \in 0..(Waits + Polls + 3)
<1>1. Waits \in Nat /\ Polls \in Nat /\ polls[j] \in Nat
  BY BoundsAssumption DEF IInv, Types
<1>. QED BY <1>1 DEF StepsLeft, RoundsOK

LEMMA NextRunsOut ==
  ASSUME IInv, RoundsOK, Next
  PROVE  RoundsOK' /\ \A j \in Job : RunsOut(j)
<1>1. \A j \in Job : StepsLeft(j) \in 0..(Waits + Polls + 3)
  BY LeftBounded
<1>2. ASSUME NEW j \in Job, JobStep(j) PROVE RoundsOK' /\ \A i \in Job : RunsOut(i)
  <2>1. /\ RoundsOK' /\ StepsLeft(j)' \in Nat /\ StepsLeft(j)' < StepsLeft(j)
        /\ \A i \in Job : i # j => pc'[i] = pc[i] /\ polls'[i] = polls[i]
    BY <1>2, JobRunsOut
  <2>2. ASSUME NEW i \in Job, i # j PROVE StepsLeft(i)' = StepsLeft(i) /\ ~JobStep(i)
    <3>1. pc'[i] = pc[i] /\ polls'[i] = polls[i]
      BY <2>1, <2>2
    <3>2. StepsLeft(i)' = StepsLeft(i)
      BY <3>1, OthersWait
    <3>3. ~(StepsLeft(i)' < StepsLeft(i))
      BY <1>1, <3>2
    <3>. QED BY <3>2, <3>3, JobRunsOut
  <2>3. ASSUME NEW i \in Job PROVE RunsOut(i)
    BY <1>1, <2>1, <2>2 DEF RunsOut
  <2>. QED BY <2>1, <2>3
<1>3. ASSUME NEW j \in Job, Regenerate(j) PROVE RoundsOK' /\ \A i \in Job : RunsOut(i)
  <2>1. /\ pc[j] = "idle" /\ pc' = [pc EXCEPT ![j] = "scheduled"] /\ polls' = polls /\ pc \in [Job -> PC]
    BY <1>3 DEF Regenerate, running, IInv, Types
  <2>2. RoundsOK'
    BY <2>1 DEF RoundsOK
  <2>3. ASSUME NEW i \in Job, i # j PROVE StepsLeft(i)' = StepsLeft(i) /\ ~JobStep(i)
    <3>1. pc'[i] = pc[i] /\ polls'[i] = polls[i]
      BY <2>1, <2>3
    <3>2. StepsLeft(i)' = StepsLeft(i)
      BY <3>1, OthersWait
    <3>3. ~(StepsLeft(i)' < StepsLeft(i))
      BY <1>1, <3>2
    <3>. QED BY <3>2, <3>3, JobRunsOut
  <2>4. ~JobStep(j)
    BY <2>1 DEF JobStep, Load, SubmitWaits, SubmitRaises, Submitted, PollSeesSuccess, PollSeesFailure,
                PollAgain, PollRaises, PollTimesOut, Polling
  <2>5. ASSUME NEW i \in Job PROVE RunsOut(i)
    BY <1>1, <2>1, <2>3, <2>4 DEF RunsOut
  <2>. QED BY <2>2, <2>5
<1>4. ASSUME UNCHANGED <<pc, polls>> PROVE RoundsOK' /\ \A i \in Job : RunsOut(i)
  <2>1. ASSUME NEW i \in Job PROVE StepsLeft(i)' = StepsLeft(i) /\ ~JobStep(i)
    <3>1. StepsLeft(i)' = StepsLeft(i)
      BY <1>4, OthersWait
    <3>2. ~(StepsLeft(i)' < StepsLeft(i))
      BY <1>1, <3>1
    <3>. QED BY <3>1, <3>2, JobRunsOut
  <2>2. ASSUME NEW i \in Job PROVE RunsOut(i)
    BY <1>1, <2>1 DEF RunsOut
  <2>3. RoundsOK'
    BY <1>4 DEF RoundsOK
  <2>. QED BY <2>2, <2>3
<1>. QED BY <1>2, <1>3, <1>4 DEF Next, PutReads, PutWrites, Submit, Continue, ProviderEnds, running

\* A job makes at most Waits + Polls + 3 steps, whatever the provider answers and
\* the pages save: it is the safety part of EveryJobEnds (submit_video_task's
\* retries, query_video_result's timeout).
THEOREM JobsRunOut == Spec => [][\A j \in Job : RunsOut(j)]_vars
<1>1. Init => RoundsOK
  BY BoundsAssumption DEF Init, RoundsOK
<1>2. ASSUME IInv, RoundsOK, Next PROVE RoundsOK' /\ \A j \in Job : RunsOut(j)
  BY <1>2, NextRunsOut
<1>3. RoundsOK /\ UNCHANGED vars => RoundsOK'
  BY DEF RoundsOK, vars, running
<1>4. IInv /\ RoundsOK /\ [Next]_vars => RoundsOK' /\ [\A j \in Job : RunsOut(j)]_vars
  BY <1>2, <1>3
<1>. QED BY <1>1, <1>4, Invariance, PTL DEF Spec

=============================================================================
