---------------------------- MODULE Segmentation ----------------------------
(***************************************************************************)
(* How DramaMakeSkill.step1_parse_script turns the shots of a parsed       *)
(* script into segments, each of which becomes one video.                  *)
(*                                                                         *)
(* The shots are read one by one: a duration is brought into the range the *)
(* model of the video allows, a shot without a scene gets a scene of its   *)
(* own.  _assign_segments then goes through the shots and lets each join   *)
(* the open segment, join it after the durations of the whole group have   *)
(* been compressed (_compress_durations), or start a segment of its own.   *)
(* _enforce_segment_duration goes through the result once more, and        *)
(* _self_check_script decides whether the script is used at all.           *)
(*                                                                         *)
(* Each action is one iteration of one of the loops.  Shots are named by   *)
(* their position in the script, segments by the order of their uuids'     *)
(* creation.  A shot's text and characters are left out.                   *)
(***************************************************************************)
EXTENDS Integers, Sequences, Functions

CONSTANTS Scenes,      \* the scenes the language model may name
          NoScene,     \* a shot for which it named none
          Answers,     \* the durations it may give
          Unreadable,  \* a duration int() refuses
          MaxShots,    \* bound: the shots of a script
          DurMin,      \* VIDEO_DURATION_RANGE
          DurMax,
          SegMax,      \* SEGMENT_MAX_DURATION
          ShotLimit    \* SEGMENT_MAX_SHOTS

ASSUME RangeAssumption == /\ DurMin \in Nat \ {0}          \* max(1, int(...))
                          /\ DurMax \in Nat /\ DurMax >= DurMin
ASSUME SegMaxAssumption == SegMax \in Nat /\ SegMax >= DurMin
ASSUME ShotLimitAssumption == ShotLimit \in Nat \ {0}
ASSUME AnswersAssumption == Answers \subseteq Int /\ Unreadable \notin Answers
ASSUME ScenesAssumption == NoScene \notin Scenes
ASSUME MaxShotsAssumption == MaxShots \in Nat

VARIABLES pc,       \* which loop is running
          cast,     \* has the script any characters?
          key,      \* key[i]: the scene of shot i
          given,    \* given[i]: the duration shot i was read with
          dur,      \* dur[i]: its duration now
          part,     \* part[i]: its segment_id, 0 for none
          n,        \* the next shot of the running loop
          cur,      \* cur_ids: the shots of the open segment
          curDur,   \* cur_dur
          scaled,   \* the durations _compress_durations is working on
          segs,     \* script.segments as far as they are made
          old,      \* the segments _enforce_segment_duration goes through
          k         \* ... and how far it has come

script == <<cast, key, given, dur, part>>
loop   == <<n, cur, curDur, scaled>>
vars   == <<pc, script, loop, segs, old, k>>

OwnKey(i) == <<i>>                                   \* "__shot_i__"
Keys == Scenes \cup {OwnKey(i) : i \in 1..MaxShots}

Shots == DOMAIN key
Segment(id, ids, d) == [segment_id |-> id, shot_ids |-> ids, duration |-> d,
                        scene_key |-> key[ids[Len(ids)]]]

LesserOf(a, b)  == IF a <= b THEN a ELSE b
GreaterOf(a, b) == IF a >= b THEN a ELSE b

-----------------------------------------------------------------------------
Init == /\ pc = "read"
        /\ cast \in BOOLEAN
        /\ key = <<>> /\ given = <<>> /\ dur = <<>> /\ part = <<>>
        /\ n = 1 /\ cur = <<>> /\ curDur = 0 /\ scaled = <<>>
        /\ segs = <<>> /\ old = <<>> /\ k = 1

\* A slip: only the upper end of the range is looked at.
ClampAbove(d) == LesserOf(DurMax, IF d = Unreadable THEN 4 ELSE d)

Clamp(d) == LesserOf(DurMax, GreaterOf(DurMin,
                IF d = Unreadable THEN LesserOf(4, DurMax) ELSE d))

\* One shot of the parsed answer.
ReadShot(scene, d) ==
  /\ pc = "read"
  /\ Len(key) < MaxShots
  /\ key' = Append(key, IF scene = NoScene THEN OwnKey(Len(key) + 1) ELSE scene)
  /\ given' = Append(given, Clamp(d))
  /\ dur' = Append(dur, Clamp(d))
  /\ part' = Append(part, 0)
  /\ UNCHANGED <<pc, cast, loop, segs, old, k>>

StartAssign == /\ pc = "read"
               /\ pc' = "assign"
               /\ UNCHANGED <<script, loop, segs, old, k>>

-----------------------------------------------------------------------------
(***************************************************************************)
(* _assign_segments: shot n meets the open segment.                        *)
(***************************************************************************)
SameScene == key[n] = key[cur[Len(cur)]]

\* A slip: the limit of shots is off by one.
UnderShotLimitWithThis == Len(cur) + 1 < ShotLimit

UnderShotLimit == Len(cur) < ShotLimit
FitsDuration == curDur + dur[n] <= SegMax

Group == Append(cur, n)
GroupDurs == [i \in DOMAIN Group |-> dur[Group[i]]]
Total == SumFunction(GroupDurs)

\* _compress_durations refuses what cannot be kept above the minimum, and what
\* exceeds the limit by more than about a third.
Compressible == \/ Total <= SegMax
                \/ /\ Len(Group) * DurMin <= SegMax
                   /\ Total * 100 <= SegMax * 134

Compressed == IF Total <= SegMax THEN GroupDurs
              ELSE [i \in DOMAIN Group |->
                      GreaterOf(DurMin, (GroupDurs[i] * SegMax) \div Total)]

FirstLongest(s) == CHOOSE i \in DOMAIN s :
                     /\ \A j \in DOMAIN s : s[j] <= s[i]
                     /\ \A j \in DOMAIN s : j < i => s[j] < s[i]

Take(i) == /\ cur' = Append(cur, i)
           /\ curDur' = curDur + dur[i]

Meeting == pc = "assign" /\ n \in Shots

Join == /\ Meeting
        /\ cur # <<>> => SameScene /\ UnderShotLimit /\ FitsDuration
        /\ Take(n)
        /\ n' = n + 1
        /\ UNCHANGED <<pc, script, scaled, segs, old, k>>

Compress == /\ Meeting
            /\ cur # <<>> /\ SameScene /\ UnderShotLimit /\ ~FitsDuration
            /\ Compressible
            /\ scaled' = Compressed
            /\ pc' = "compress"
            /\ UNCHANGED <<script, n, cur, curDur, segs, old, k>>

\* A slip: a group one second too long is let through.
TooLongByMore == SumFunction(scaled) > SegMax + 1

TooLong == SumFunction(scaled) > SegMax
Longest == FirstLongest(scaled)

\* A slip: the loop looks for the longest shot but takes the second off nobody.
TrimNothing == /\ pc = "compress" /\ TooLong /\ scaled[Longest] > DurMin
               /\ UNCHANGED vars

\* Rounding up to the minimum may leave the group too long: a second at a time
\* is taken from the longest.
Trim == /\ pc = "compress" /\ TooLong /\ scaled[Longest] > DurMin
        /\ scaled' = [scaled EXCEPT ![Longest] = @ - 1]
        /\ UNCHANGED <<pc, script, n, cur, curDur, segs, old, k>>

Merge ==
  /\ pc = "compress" /\ ~TooLong
  /\ dur' = [j \in Shots |-> IF \E i \in DOMAIN Group : Group[i] = j
                             THEN scaled[CHOOSE i \in DOMAIN Group : Group[i] = j]
                             ELSE dur[j]]
  /\ cur' = Group /\ curDur' = SumFunction(scaled) /\ scaled' = <<>>
  /\ n' = n + 1 /\ pc' = "assign"
  /\ UNCHANGED <<cast, key, given, part, segs, old, k>>

\* The shot cannot join, not even after a compression.
Refused ==
  \/ /\ Meeting /\ cur # <<>>
     /\ ~(SameScene /\ UnderShotLimit /\ (FitsDuration \/ Compressible))
  \/ pc = "compress" /\ TooLong /\ scaled[Longest] <= DurMin

\* It opens the next segment.
Split == /\ Refused
         /\ segs' = Append(segs, Segment(Len(segs) + 1, cur, curDur))
         /\ cur' = <<n>> /\ curDur' = dur[n] /\ scaled' = <<>>
         /\ n' = n + 1 /\ pc' = "assign"
         /\ UNCHANGED <<script, old, k>>

WithOpen(id) == IF cur = <<>> THEN segs ELSE Append(segs, Segment(id, cur, curDur))

\* The segments get their ids, and durations added up from the shots.
Numbered(all) ==
  [j \in DOMAIN all |->
     [all[j] EXCEPT !.duration = SumFunction([i \in DOMAIN all[j].shot_ids |->
                                                dur[all[j].shot_ids[i]]])]]

Relabel(list, label) ==
  [j \in Shots |-> IF \E s \in DOMAIN list : j \in Range(list[s].shot_ids)
                   THEN list[CHOOSE s \in DOMAIN list : j \in Range(list[s].shot_ids)].segment_id
                   ELSE label[j]]

ToEnforce(all) == /\ old' = Numbered(all)
                  /\ part' = Relabel(all, part)
                  /\ segs' = <<>>
                  /\ n' = 1 /\ cur' = <<>> /\ curDur' = 0 /\ k' = 1
                  /\ pc' = "enforce"
                  /\ UNCHANGED <<cast, key, given, dur, scaled>>

\* A slip: the segment still open when the shots end is forgotten.
FinishAssignForgets == /\ pc = "assign" /\ n \notin Shots
                       /\ ToEnforce(segs)

FinishAssign == /\ pc = "assign" /\ n \notin Shots
                /\ ToEnforce(WithOpen(Len(segs) + 1))

-----------------------------------------------------------------------------
(***************************************************************************)
(* _enforce_segment_duration: for every segment, the shots of the script   *)
(* that belong to it, cut before a shot that would exceed the limit.       *)
(***************************************************************************)
Fresh == Len(old) + Len(segs) + 1

CloseOpen ==
  /\ segs' = Append(segs, [Segment(Fresh, cur, curDur) EXCEPT !.scene_key = old[k].scene_key])
  /\ part' = [j \in Shots |-> IF j \in Range(cur) THEN Fresh ELSE part[j]]

\* A slip: a segment that just reaches the limit is cut.
OverflowsOrReaches == cur # <<>> /\ curDur + dur[n] >= SegMax

Overflows == cur # <<>> /\ curDur + dur[n] > SegMax

EnforceShot ==
  /\ pc = "enforce" /\ k \in DOMAIN old /\ n \in Shots
  /\ IF n \notin Range(old[k].shot_ids)
     THEN UNCHANGED <<cur, curDur, segs, part>>
     ELSE IF Overflows
          THEN CloseOpen /\ cur' = <<n>> /\ curDur' = dur[n]
          ELSE Take(n) /\ UNCHANGED <<segs, part>>
  /\ n' = n + 1
  /\ UNCHANGED <<pc, cast, key, given, dur, scaled, old, k>>

EnforceNext ==
  /\ pc = "enforce" /\ k \in DOMAIN old /\ n \notin Shots
  /\ IF cur = <<>> THEN UNCHANGED <<segs, part>> ELSE CloseOpen
  /\ cur' = <<>> /\ curDur' = 0 /\ n' = 1 /\ k' = k + 1
  /\ UNCHANGED <<pc, cast, key, given, dur, scaled, old>>

EnforceEnd == /\ pc = "enforce" /\ k \notin DOMAIN old
              /\ pc' = "check"
              /\ UNCHANGED <<script, loop, segs, old, k>>

\* _self_check_script: structural errors end the parsing with a ValueError.
Sound == /\ cast /\ key # <<>> /\ segs # <<>>
         /\ \A s \in DOMAIN segs : /\ segs[s].shot_ids # <<>>
                                   /\ Range(segs[s].shot_ids) \subseteq Shots
                                   /\ segs[s].duration > 0

SelfCheck == /\ pc = "check"
             /\ pc' = IF Sound THEN "ready" ELSE "failed"
             /\ UNCHANGED <<script, loop, segs, old, k>>

Decided == pc \in {"ready", "failed"} /\ UNCHANGED vars

Next == \/ \E scene \in Scenes \cup {NoScene}, d \in Answers \cup {Unreadable} :
              ReadShot(scene, d)
        \/ StartAssign \/ Join \/ Compress \/ Trim \/ Merge \/ Split \/ FinishAssign
        \/ EnforceShot \/ EnforceNext \/ EnforceEnd \/ SelfCheck \/ Decided

Spec == Init /\ [][Next]_vars

\* The parsing is one coroutine that does not wait in here.
FairSpec == Spec /\ WF_vars(Next)

-----------------------------------------------------------------------------
Durations == Seq(DurMin..DurMax)

\* Durations stay within what the video model can produce, compressed or not,
\* and the loops' bookkeeping stays within the script (step1_parse_script).
TypeOK ==
  /\ pc \in {"read", "assign", "compress", "enforce", "check", "ready", "failed"}
  /\ cast \in BOOLEAN
  /\ key \in Seq(Keys) /\ Len(key) <= MaxShots
  /\ given \in Durations /\ Len(given) = Len(key)
  /\ dur \in Durations /\ Len(dur) = Len(key)
  /\ part \in Seq(Nat) /\ Len(part) = Len(key)
  /\ n \in 1..Len(key) + 1 /\ cur \in Seq(Shots) /\ k \in 1..Len(old) + 1
  /\ curDur \in Int
  /\ pc = "compress" => n \in Shots /\ cur # <<>>

\* The list's segments cut the first m shots into runs, in the script's order:
\* no shot is left out, shown twice or moved.
First(list, s) == IF s = 1 THEN 1 ELSE list[s - 1].shot_ids[Len(list[s - 1].shot_ids)] + 1
Runs(list, m) ==
  /\ \A s \in DOMAIN list :
       LET ids == list[s].shot_ids
       IN  ids # <<>> /\ \A i \in DOMAIN ids : ids[i] = First(list, s) + i - 1
  /\ First(list, Len(list) + 1) = m + 1

\* When the parsing is decided every shot is in exactly one segment, in order,
\* and the segment_id the shot carries is that segment's (_assign_segments,
\* _enforce_segment_duration: the film would lose or repeat a shot).
Partition ==
  pc \in {"check", "ready", "failed"} =>
    /\ Runs(segs, Len(key))
    /\ \A s \in DOMAIN segs : \A i \in DOMAIN segs[s].shot_ids :
         part[segs[s].shot_ids[i]] = segs[s].segment_id

\* Every segment shows one scene, its own, in at most SEGMENT_MAX_SHOTS shots:
\* its video is anchored by that scene's picture.  A finished segment's duration
\* is what its shots add up to, although compressions changed shots that had
\* already been counted, and it exceeds the hard limit only if it is one shot.
WithinLimits ==
  \A list \in {segs, old} : \A s \in DOMAIN list :
    LET ids == list[s].shot_ids
    IN  /\ Len(ids) <= ShotLimit
        /\ \A i \in DOMAIN ids : key[ids[i]] = list[s].scene_key
        /\ list[s].duration = SumFunction([i \in DOMAIN ids |-> dur[ids[i]]])
        /\ list[s].duration <= SegMax \/ Len(ids) = 1

\* The second look is what its comment calls it, a double safety: it finds
\* nothing to cut (step1_parse_script, "_assign has already ensured the limit").
NothingLeftToCut ==
  pc \in {"check", "ready", "failed"} =>
    /\ Len(segs) = Len(old)
    /\ \A s \in DOMAIN old : /\ segs[s].shot_ids = old[s].shot_ids
                             /\ segs[s].duration = old[s].duration

\* Two neighbouring segments of one scene are two only because the first was
\* full, in shots or in seconds (_assign_segments merges first).
MergedFirst ==
  \A s \in DOMAIN old : s + 1 \in DOMAIN old /\ old[s].scene_key = old[s + 1].scene_key
    => \/ Len(old[s].shot_ids) = ShotLimit
       \/ old[s].duration + given[old[s + 1].shot_ids[1]] > SegMax

\* Every script is decided upon: taking a second at a time from the longest
\* shot comes to an end (_compress_durations' while loop).
EveryScriptDecided == <>(pc \in {"ready", "failed"})

=============================================================================
