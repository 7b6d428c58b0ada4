-------------------------- MODULE McpChannels_proof --------------------------
(***************************************************************************)
(* For any calls, channels, permits, retries and jobs: the semaphore of a  *)
(* pool is kept, no call is lost before the channels are closed, and a     *)
(* shutdown of the Web process that comes to its end leaves no server.     *)
(***************************************************************************)
EXTENDS McpChannels, FiniteSetTheorems, TLAPS

\* Only a busy owner has a call, and none that ended has a connection.
OwnersTidy == \A ch \in Channel :
                 /\ owner[ch].pc \notin Busy => owner[ch].call = None
                 /\ owner[ch].pc \in Gone => ~owner[ch].connected

\* No queue belongs to a later loop, and the Web process has one loop, in which
\* only a cancelled close() leaves servers behind.
LoopsPass == /\ \A ch \in Channel : bound[ch] <= loop
             /\ ~celery => loop = 1

WebOrphans == ~celery /\ closer # "cancelled" => \A ch \in Channel : orphans[ch] = 0

\* A worker closes the channels when nobody waits for a call.
JobsAreOver == celery /\ closer # "idle" =>
                 \A c \in Call : call[c] \notin {"waiting", "submitted"}

\* Nobody finds a stop command that close() is not waiting for: always in a
\* worker, and before the shutdown in the Web process.
StopsAwaited == celery \/ closer = "idle" =>
                  \A ch \in Channel : \A i \in 1..Len(queue[ch]) :
                    queue[ch][i] = Stop => closer = "stopping" /\ at = ch

OneStop == celery => \A ch \in Channel : \A i, j \in 1..Len(queue[ch]) :
                       queue[ch][i] = Stop /\ queue[ch][j] = Stop => i = j

IInv == /\ TypeOK /\ LimitKept /\ OwnersTidy /\ LoopsPass /\ WebOrphans
        /\ JobsAreOver /\ StopsAwaited /\ OneStop /\ CallsAreHeld

-----------------------------------------------------------------------------
\* Entering or leaving the pending calls changes their number by one.
LEMMA PendingCount ==
  ASSUME NEW c \in Call, NEW s \in CallState, TypeOK, call' = [call EXCEPT ![c] = s]
  PROVE  /\ Cardinality(Pending) \in Nat
         /\ call[c] # "submitted" /\ s = "submitted"
              => Cardinality(Pending)' = Cardinality(Pending) + 1
         /\ call[c] = "submitted" /\ s # "submitted"
              => Cardinality(Pending)' = Cardinality(Pending) - 1
         /\ call[c] # "submitted" /\ s # "submitted"
              => Cardinality(Pending)' = Cardinality(Pending)
<1>1. IsFiniteSet(Pending) /\ Cardinality(Pending) \in Nat
  BY CallAssumption, FS_Subset, FS_CardinalityType DEF Pending
<1>2. Pending' = IF s = "submitted" THEN Pending \cup {c} ELSE Pending \ {c}
  BY DEF Pending, TypeOK
<1>3. c \in Pending <=> call[c] = "submitted"
  BY DEF Pending
<1>4. CASE c \notin Pending /\ s = "submitted"
  BY <1>1, <1>2, <1>3, <1>4, FS_AddElement
<1>5. CASE c \in Pending /\ s # "submitted"
  BY <1>1, <1>2, <1>3, <1>5, FS_RemoveElement
<1>6. CASE c \notin Pending /\ s # "submitted"
  BY <1>1, <1>2, <1>3, <1>6
<1>7. CASE c \in Pending /\ s = "submitted"
  BY <1>1, <1>3, <1>7
<1>. QED BY <1>4, <1>5, <1>6, <1>7

\* A call that is pending leaves with its permit.
LEMMA LeaveKeepsLimit ==
  ASSUME NEW c \in Pending, NEW s \in {"answered", "failed", "gone"}, TypeOK, LimitKept,
         Leave(c, s)
  PROVE  LimitKept' /\ permits' \in 0..Limit /\ call' \in [Call -> CallState]
<1>1. c \in Call /\ call[c] = "submitted" /\ s \in CallState /\ s # "submitted"
  BY DEF Pending, CallState
<1>2. call' = [call EXCEPT ![c] = s] /\ permits' = permits + 1
  BY DEF Leave
<1>3. /\ Cardinality(Pending) \in Nat
      /\ Cardinality(Pending)' = Cardinality(Pending) - 1
  BY <1>1, <1>2, PendingCount
<1>4. IsFiniteSet(Pending') /\ Cardinality(Pending)' \in Nat
  BY CallAssumption, FS_Subset, FS_CardinalityType DEF Pending
<1>5. permits \in Int /\ Limit \in Nat /\ permits >= 0
  BY LimitAssumption DEF TypeOK
<1>6. call' \in [Call -> CallState]
  BY <1>1, <1>2 DEF TypeOK
<1>7. permits + Cardinality(Pending) = Limit
  BY DEF LimitKept
<1>8. permits' + Cardinality(Pending)' = Limit /\ permits' \in 0..Limit
  BY <1>2, <1>3, <1>4, <1>5, <1>7
<1>. QED BY <1>6, <1>8 DEF LimitKept

LEMMA ResolveKeepsLimit ==
  ASSUME NEW c, NEW s \in {"answered", "failed"}, TypeOK, LimitKept, Resolve(c, s)
  PROVE  LimitKept' /\ permits' \in 0..Limit /\ call' \in [Call -> CallState]
<1>1. CASE c \in Pending
  BY <1>1, LeaveKeepsLimit DEF Resolve
<1>2. CASE c \notin Pending
  BY <1>2 DEF Resolve, callers, LimitKept, Pending, TypeOK
<1>. QED BY <1>1, <1>2

LEMMA LimitStep ==
  ASSUME TypeOK, LimitKept, [Next]_vars
  PROVE  LimitKept' /\ permits' \in 0..Limit /\ call' \in [Call -> CallState]
<1>1. CASE UNCHANGED callers
  BY <1>1 DEF callers, LimitKept, Pending, TypeOK
<1>2. ASSUME NEW c \in Call, Wait(c)
      PROVE  LimitKept' /\ permits' \in 0..Limit /\ call' \in [Call -> CallState]
  <2>1. call' = [call EXCEPT ![c] = "waiting"] /\ call[c] = "new" /\ UNCHANGED permits
    BY <1>2 DEF Wait
  <2>2. "waiting" \in CallState
    BY DEF CallState
  <2>3. Cardinality(Pending)' = Cardinality(Pending)
    BY <2>1, <2>2, PendingCount
  <2>. QED BY <2>1, <2>2, <2>3 DEF LimitKept, TypeOK
<1>3. ASSUME NEW c \in Call, Enter(c)
      PROVE  LimitKept' /\ permits' \in 0..Limit /\ call' \in [Call -> CallState]
  <2>1. /\ call' = [call EXCEPT ![c] = "submitted"] /\ call[c] # "submitted"
        /\ permits > 0 /\ permits' = permits - 1
    BY <1>3 DEF Enter, Free
  <2>2. "submitted" \in CallState
    BY DEF CallState
  <2>3. /\ Cardinality(Pending) \in Nat
        /\ Cardinality(Pending)' = Cardinality(Pending) + 1
    BY <2>1, <2>2, PendingCount
  <2>4. permits \in 0..Limit /\ Limit \in Nat
    BY LimitAssumption DEF TypeOK
  <2>5. call' \in [Call -> CallState]
    BY <2>1, <2>2 DEF TypeOK
  <2>6. permits + Cardinality(Pending) = Limit
    BY DEF LimitKept
  <2>7. permits' + Cardinality(Pending)' = Limit /\ permits' \in 0..Limit
    BY <2>1, <2>3, <2>4, <2>6
  <2>. QED BY <2>5, <2>7 DEF LimitKept
<1>4. ASSUME NEW c \in Call, GiveUp(c)
      PROVE  LimitKept' /\ permits' \in 0..Limit /\ call' \in [Call -> CallState]
  BY <1>4, LeaveKeepsLimit DEF GiveUp, Pending
<1>5. ASSUME NEW ch \in Channel, Run(ch)
      PROVE  LimitKept' /\ permits' \in 0..Limit /\ call' \in [Call -> CallState]
  <2>1. CASE Succeed(ch)
    BY <2>1, ResolveKeepsLimit DEF Succeed
  <2>2. CASE FailForGood(ch)
    BY <2>2, ResolveKeepsLimit DEF FailForGood
  <2>3. CASE Take(ch) \/ TakeStop(ch) \/ Park(ch) \/ Die(ch) \/ Connect(ch) \/ Fail(ch)
    BY <1>1, <2>3 DEF Take, TakeStop, Park, Die, Connect, Fail
  <2>. QED BY <1>5, <2>1, <2>2, <2>3 DEF Run
<1>6. CASE \/ \E ch \in Channel : Collect(ch)
           \/ CloseBegins \/ Close \/ CloseGivesUp \/ NextJob \/ UNCHANGED vars
  BY <1>1, <1>6 DEF Collect, CloseBegins, Close, CloseSkips, CloseSends, CloseEnds,
                    CloseCancels, CloseGivesUp, NextJob, vars
<1>. QED BY <1>2, <1>3, <1>4, <1>5, <1>6 DEF Next

-----------------------------------------------------------------------------
LEMMA SubmitTypes ==
  ASSUME TypeOK, NEW ch \in Channel, NEW command \in Call \cup {Stop}, Submit(ch, command)
  PROVE  /\ queue' \in [Channel -> Seq(Call \cup {Stop})]
         /\ owner' \in [Channel -> Owner]
<1>1. "getting" \in Gone \cup Getting \cup Busy
  BY DEF Getting
<1>2. PICK pc \in Gone \cup Getting \cup Busy : owner' = [owner EXCEPT ![ch].pc = pc]
  <2>1. owner[ch].pc \in Gone \cup Getting \cup Busy
    BY DEF TypeOK, Owner
  <2>2. CASE Alive(ch)
    BY <2>1, <2>2 DEF Submit
  <2>3. CASE ~Alive(ch)
    BY <1>1, <2>3 DEF Submit
  <2>. QED BY <2>2, <2>3
<1>3. owner' \in [Channel -> Owner]
  BY <1>2 DEF TypeOK, Owner
<1>4. queue' \in [Channel -> Seq(Call \cup {Stop})]
  BY DEF TypeOK, Submit
<1>. QED BY <1>3, <1>4

LEMMA RunTypes ==
  ASSUME TypeOK, NEW ch \in Channel, Run(ch)
  PROVE  /\ queue' \in [Channel -> Seq(Call \cup {Stop})]
         /\ owner' \in [Channel -> Owner]
         /\ orphans' \in [Channel -> Nat]
<1>1. /\ "none" \in Gone /\ "dead" \in Gone
      /\ "getting" \in Getting /\ "waiting" \in Getting
      /\ "connecting" \in Busy /\ "invoking" \in Busy
  BY DEF Gone, Getting, Busy
<1>2. queue[ch] \in Seq(Call \cup {Stop}) /\ owner[ch] \in Owner /\ Servers(ch) \in Nat
  BY DEF TypeOK, Servers, Owner
<1>3. CASE Take(ch)
  <2>1. Head(queue[ch]) \in Call \cup {None} /\ Tail(queue[ch]) \in Seq(Call \cup {Stop})
    BY <1>2, <1>3 DEF Take
  <2>2. PICK pc \in Busy :
          owner' = [owner EXCEPT ![ch].pc = pc, ![ch].call = Head(queue[ch]),
                                 ![ch].attempt = 0]
    <3>1. CASE owner[ch].connected
      BY <1>1, <1>3, <3>1 DEF Take
    <3>2. CASE ~owner[ch].connected
      BY <1>1, <1>3, <3>2 DEF Take
    <3>. QED BY <3>1, <3>2
  <2>3. owner' \in [Channel -> Owner]
    <3>1. 0 \in 0..Retries
      BY RetriesAssumption
    <3>. QED BY <2>1, <2>2, <3>1 DEF TypeOK, Owner
  <2>. QED BY <1>3, <2>1, <2>3 DEF Take, TypeOK
<1>4. CASE TakeStop(ch)
  <2>1. Tail(queue[ch]) \in Seq(Call \cup {Stop})
    BY <1>2, <1>4 DEF TakeStop
  <2>2. owner' \in [Channel -> Owner]
    BY <1>1, <1>4 DEF TakeStop, TypeOK, Owner
  <2>. QED BY <1>4, <2>1, <2>2 DEF TakeStop, CloseConn, TypeOK
<1>5. CASE Park(ch) \/ Connect(ch) \/ Succeed(ch)
  <2>1. owner' \in [Channel -> Owner]
    <3>1. CASE Park(ch)
      BY <1>1, <3>1 DEF Park, TypeOK, Owner
    <3>2. CASE Connect(ch)
      BY <1>1, <3>2 DEF Connect, TypeOK, Owner
    <3>3. CASE Succeed(ch)
      BY <1>1, <3>3 DEF Succeed, TypeOK, Owner
    <3>. QED BY <1>5, <3>1, <3>2, <3>3
  <2>. QED BY <1>5, <2>1 DEF Park, Connect, Succeed, TypeOK
<1>6. CASE Die(ch)
  <2>1. owner' \in [Channel -> Owner]
    BY <1>1, <1>6 DEF Die, TypeOK, Owner
  <2>. QED BY <1>2, <1>6, <2>1 DEF Die, LoseConn, TypeOK
<1>7. CASE Fail(ch)
  <2>1. owner[ch].attempt + 1 \in 0..Retries
    BY <1>2, <1>7, RetriesAssumption DEF Fail, Owner
  <2>2. owner' \in [Channel -> Owner]
    BY <1>1, <1>7, <2>1 DEF Fail, TypeOK, Owner
  <2>. QED BY <1>7, <2>2 DEF Fail, CloseConn, TypeOK
<1>8. CASE FailForGood(ch)
  <2>1. owner' \in [Channel -> Owner]
    BY <1>1, <1>8 DEF FailForGood, GoesOn, TypeOK, Owner
  <2>. QED BY <1>8, <2>1 DEF FailForGood, CloseConn, TypeOK
<1>. QED BY <1>3, <1>4, <1>5, <1>6, <1>7, <1>8 DEF Run

LEMMA TypeStep ==
  ASSUME TypeOK, LimitKept, [Next]_vars
  PROVE  TypeOK'
<1>1. permits' \in 0..Limit /\ call' \in [Call -> CallState]
  BY LimitStep
<1>2. CASE \E c \in Call : Wait(c) \/ GiveUp(c)
  BY <1>1, <1>2 DEF Wait, GiveUp, closing, TypeOK
<1>3. CASE \E c \in Call : Enter(c)
  <2>1. PICK c \in Call, ch \in Channel : Enter(c) /\ Submit(ch, c)
    BY <1>3 DEF Enter
  <2>. QED BY <1>1, <2>1, SubmitTypes DEF Enter, closing, TypeOK
<1>4. ASSUME NEW ch \in Channel, Run(ch)
      PROVE  TypeOK'
  <2>1. UNCHANGED <<at, loop, celery>> /\ (bound' = bound \/ Park(ch))
    BY <1>4 DEF Run, Take, TakeStop, Die, Park, Connect, Succeed, Fail, FailForGood, closing
  <2>3. bound' \in [Channel -> 0..MaxLoops]
    <3>1. loop \in 0..MaxLoops /\ bound \in [Channel -> 0..MaxLoops]
      BY DEF TypeOK
    <3>. QED BY <2>1, <3>1 DEF Park
  <2>2. closer' = closer \/ closer' = "cancelling"
    BY <1>4 DEF Run, Take, TakeStop, Told, Park, Die, Connect, Succeed, Fail, FailForGood,
                closing
  <2>. QED BY <1>1, <1>4, <2>1, <2>2, <2>3, RunTypes DEF TypeOK
<1>5. CASE \E ch \in Channel : Collect(ch)
  BY <1>1, <1>5 DEF Collect, closing, TypeOK
<1>6. CASE CloseBegins \/ CloseSkips \/ CloseGivesUp \/ NextJob
  <2>1. 1 \in Channel /\ (at < Size => at + 1 \in Channel)
    BY SizeAssumption DEF Channel, TypeOK
  <2>2. UNCHANGED <<queue, bound, owner, orphans, celery>>
    BY <1>6 DEF CloseBegins, CloseSkips, CloseGivesUp, NextJob
  <2>3. at' \in Channel
    BY <1>6, <2>1 DEF CloseBegins, CloseSkips, Proceed, CloseGivesUp, NextJob, TypeOK
  <2>4. closer' \in {"idle", "closing", "cancelling", "closed"}
    BY <1>6 DEF CloseBegins, CloseSkips, Proceed, CloseGivesUp, NextJob
  <2>5. loop' \in 1..MaxLoops
    BY <1>6, LoopsAssumption DEF CloseBegins, CloseSkips, CloseGivesUp, NextJob, TypeOK
  <2>. QED BY <1>1, <2>2, <2>3, <2>4, <2>5 DEF TypeOK
<1>7. CASE CloseSends
  BY <1>1, <1>7, SubmitTypes DEF CloseSends, TypeOK
<1>8. CASE CloseEnds
  <2>1. at < Size => at + 1 \in Channel
    BY SizeAssumption DEF Channel, TypeOK
  <2>2. "none" \in Gone \cup Getting \cup Busy
    BY DEF Gone
  <2>. QED BY <1>1, <1>8, <2>1, <2>2 DEF CloseEnds, Proceed, TypeOK, Owner
<1>9. CASE CloseCancels
  <2>1. "none" \in Gone \cup Getting \cup Busy
    BY DEF Gone
  <2>2. Servers(at) \in Nat /\ orphans[at] + 1 \in Nat
    BY DEF TypeOK, Servers
  <2>3. owner' \in [Channel -> Owner]
    <3>1. owner' = [owner EXCEPT ![at].pc = "none", ![at].call = None,
                                 ![at].connected = FALSE]
      BY <1>9 DEF CloseCancels
    <3>. QED BY <2>1, <3>1 DEF TypeOK, Owner
  <2>4. orphans' \in [Channel -> Nat]
    BY <1>9, <2>2 DEF CloseCancels, LoseConn, TypeOK
  <2>. QED BY <1>1, <1>9, <2>3, <2>4 DEF CloseCancels, TypeOK
<1>10. CASE UNCHANGED vars
  BY <1>10 DEF vars, callers, closing, TypeOK
<1>. QED BY <1>2, <1>3, <1>4, <1>5, <1>6, <1>7, <1>8, <1>9, <1>10 DEF Next, Close

-----------------------------------------------------------------------------
\* What _submit does to the channel, and that it leaves the others alone.
LEMMA SubmitFacts ==
  ASSUME TypeOK, NEW ch \in Channel, NEW command, Submit(ch, command)
  PROVE  /\ \A o \in Channel : owner'[o].call = owner[o].call
                               /\ owner'[o].connected = owner[o].connected
         /\ \A o \in Channel : o # ch => owner'[o] = owner[o] /\ queue'[o] = queue[o]
         /\ owner'[ch].pc = IF Alive(ch) THEN owner[ch].pc ELSE "getting"
         /\ queue'[ch] = Append(queue[ch], command)
BY DEF Submit, TypeOK, Owner

\* An owner touches its own channel only.
LEMMA RunIsLocal ==
  ASSUME TypeOK, NEW ch \in Channel, Run(ch), NEW o \in Channel, o # ch
  PROVE  owner'[o] = owner[o] /\ queue'[o] = queue[o] /\ orphans'[o] = orphans[o]
<1>1. CASE Take(ch) \/ TakeStop(ch)
  BY <1>1 DEF Take, TakeStop, CloseConn, TypeOK
<1>2. CASE Park(ch) \/ Die(ch) \/ Connect(ch)
  BY <1>2 DEF Park, Die, LoseConn, Connect, TypeOK
<1>3. CASE Succeed(ch) \/ Fail(ch) \/ FailForGood(ch)
  BY <1>3 DEF Succeed, Fail, FailForGood, CloseConn, TypeOK
<1>. QED BY <1>1, <1>2, <1>3 DEF Run

LEMMA TidyStep ==
  ASSUME TypeOK, OwnersTidy, [Next]_vars
  PROVE  OwnersTidy'
<1>1. CASE UNCHANGED owner
  BY <1>1 DEF OwnersTidy
<1>2. ASSUME NEW ch \in Channel, NEW command, Submit(ch, command)
      PROVE  OwnersTidy'
  <2>1. "getting" \notin Gone /\ \A pc \in Gone : pc \notin Busy
    BY DEF Busy, Gone
  <2>2. /\ \A o \in Channel : owner'[o].call = owner[o].call
                             /\ owner'[o].connected = owner[o].connected
        /\ \A o \in Channel : o # ch => owner'[o] = owner[o]
        /\ owner'[ch].pc = IF Alive(ch) THEN owner[ch].pc ELSE "getting"
    BY <1>2, SubmitFacts
  <2>. QED BY <2>1, <2>2 DEF OwnersTidy, Alive
<1>3. ASSUME NEW ch \in Channel, Run(ch)
      PROVE  OwnersTidy'
  <2>1. owner[ch] \in Owner /\ owner \in [Channel -> Owner]
    BY DEF TypeOK
  <2>2. CASE Take(ch)
    BY <2>1, <2>2 DEF Take, OwnersTidy, Owner, Busy, Gone
  <2>3. CASE TakeStop(ch) \/ Park(ch) \/ Die(ch)
    BY <2>1, <2>3 DEF TakeStop, Park, Die, OwnersTidy, Owner, Busy, Gone, Getting
  <2>4. CASE Connect(ch) \/ Succeed(ch)
    BY <2>1, <2>4 DEF Connect, Succeed, OwnersTidy, Owner, Busy, Gone
  <2>5. CASE Fail(ch) \/ FailForGood(ch)
    BY <2>1, <2>5 DEF Fail, FailForGood, GoesOn, OwnersTidy, Owner, Busy, Gone
  <2>. QED BY <1>3, <2>2, <2>3, <2>4, <2>5 DEF Run
<1>4. CASE CloseEnds
  BY <1>4 DEF CloseEnds, Alive, OwnersTidy, TypeOK, Owner, Busy, Gone
<1>5. CASE CloseCancels
  BY <1>5 DEF CloseCancels, OwnersTidy, TypeOK, Owner, Busy, Gone
<1>6. CASE \/ \E c \in Call : Wait(c) \/ GiveUp(c)
           \/ \E ch \in Channel : Collect(ch)
           \/ CloseBegins \/ CloseSkips \/ CloseGivesUp \/ NextJob \/ UNCHANGED vars
  BY <1>1, <1>6 DEF Wait, GiveUp, Collect, CloseBegins, CloseSkips, CloseGivesUp, NextJob, vars
<1>7. CASE CloseSends \/ \E c \in Call : Enter(c)
  BY <1>2, <1>7 DEF CloseSends, Enter, TypeOK
<1>. QED BY <1>3, <1>4, <1>5, <1>6, <1>7 DEF Next, Close

\* A queue that a loop binds is bound to the loop that runs.
LEMMA LoopsStep ==
  ASSUME TypeOK, LoopsPass, [Next]_vars
  PROVE  LoopsPass'
<1>1. CASE NextJob
  BY <1>1 DEF NextJob, LoopsPass, TypeOK
<1>2. CASE \E ch \in Channel : Park(ch)
  BY <1>2 DEF Park, closing, LoopsPass, TypeOK
<1>3. CASE UNCHANGED <<bound, loop, celery>>
  BY <1>3 DEF LoopsPass
<1>4. CASE \E ch \in Channel : Run(ch) /\ ~Park(ch)
  BY <1>3, <1>4 DEF Run, Take, TakeStop, Die, Connect, Succeed, Fail, FailForGood, closing
<1>5. CASE \/ \E c \in Call : Wait(c) \/ Enter(c) \/ GiveUp(c)
           \/ \E ch \in Channel : Collect(ch)
           \/ CloseBegins \/ Close \/ CloseGivesUp \/ UNCHANGED vars
  BY <1>3, <1>5 DEF Wait, Enter, GiveUp, Collect, CloseBegins, Close, CloseSkips, CloseSends,
                    CloseEnds, CloseCancels, CloseGivesUp, closing, vars
<1>. QED BY <1>1, <1>2, <1>4, <1>5 DEF Next

\* The Web process has one loop, so that no owner dies of a foreign one.
LEMMA OrphansStep ==
  ASSUME TypeOK, LoopsPass, WebOrphans, [Next]_vars
  PROVE  WebOrphans'
<1>1. CASE UNCHANGED <<orphans, celery>> /\ (closer = "cancelled" => closer' = "cancelled")
  BY <1>1 DEF WebOrphans
<1>2. ASSUME NEW ch \in Channel, Die(ch)
      PROVE  WebOrphans'
  <2>1. bound[ch] \in 0..MaxLoops /\ bound[ch] <= loop /\ (~celery => loop = 1)
    BY DEF TypeOK, LoopsPass
  <2>2. bound[ch] # 0 /\ bound[ch] # loop
    BY <1>2 DEF Die
  <2>3. celery
    BY <2>1, <2>2 DEF TypeOK
  <2>. QED BY <1>2, <2>3 DEF Die, closing, WebOrphans
<1>3. ASSUME NEW ch \in Channel, Run(ch)
      PROVE  WebOrphans'
  <2>1. CASE Die(ch)
    BY <1>2, <2>1
  <2>2. CASE ~Die(ch)
    BY <1>1, <1>3, <2>2 DEF Run, Take, TakeStop, CloseConn, Told, Park, Connect, Succeed,
                            Fail, FailForGood, closing
  <2>. QED BY <2>1, <2>2
<1>4. CASE \E ch \in Channel : Collect(ch)
  BY <1>4 DEF Collect, closing, WebOrphans, TypeOK
<1>5. CASE CloseCancels
  BY <1>5 DEF CloseCancels, WebOrphans
<1>6. CASE \/ \E c \in Call : Wait(c) \/ Enter(c) \/ GiveUp(c)
           \/ CloseBegins \/ CloseSkips \/ CloseSends \/ CloseEnds \/ CloseGivesUp
           \/ NextJob \/ UNCHANGED vars
  BY <1>1, <1>6 DEF Wait, Enter, GiveUp, CloseBegins, CloseSkips, CloseSends, CloseEnds,
                    Proceed, CloseGivesUp, NextJob, closing, vars
<1>. QED BY <1>3, <1>4, <1>5, <1>6 DEF Next, Close

LEMMA JobsStep ==
  ASSUME TypeOK, JobsAreOver, [Next]_vars
  PROVE  JobsAreOver'
<1>1. CASE UNCHANGED <<call, celery>> /\ (closer = "idle" => closer' = "idle")
  BY <1>1 DEF JobsAreOver
<1>2. CASE \E c \in Call : Wait(c) \/ Enter(c)
  BY <1>2 DEF Wait, Enter, MayCall, closing, JobsAreOver
<1>3. ASSUME NEW c, NEW s \in {"answered", "failed", "gone"}, celery' = celery,
             UNCHANGED callers \/ Leave(c, s), closer = "idle" => closer' = "idle"
      PROVE  JobsAreOver'
  BY <1>3 DEF Leave, callers, JobsAreOver, TypeOK
<1>4. CASE \E c \in Call : GiveUp(c)
  BY <1>3, <1>4 DEF GiveUp, closing
<1>5. CASE \E ch \in Channel : Succeed(ch) \/ FailForGood(ch)
  BY <1>3, <1>5 DEF Succeed, FailForGood, Resolve, closing
<1>6. CASE \E ch \in Channel : \/ Take(ch) \/ TakeStop(ch) \/ Park(ch) \/ Die(ch)
                              \/ Connect(ch) \/ Fail(ch) \/ Collect(ch)
  BY <1>1, <1>6 DEF Take, TakeStop, Told, Park, Die, Connect, Fail, Collect, callers, closing
<1>7. CASE CloseBegins
  BY <1>7 DEF CloseBegins, callers, JobsAreOver
<1>8. CASE Close \/ CloseGivesUp \/ NextJob \/ UNCHANGED vars
  BY <1>1, <1>8 DEF Close, CloseSkips, CloseSends, CloseEnds, CloseCancels, CloseGivesUp,
                    NextJob, callers, closing, vars
<1>. QED BY <1>2, <1>4, <1>5, <1>6, <1>7, <1>8 DEF Next, Run

-----------------------------------------------------------------------------
\* What Append and Tail do to the elements of a queue.
LEMMA AppendElements ==
  ASSUME NEW S, NEW q \in Seq(S), NEW e \in S
  PROVE  /\ Len(Append(q, e)) = Len(q) + 1
         /\ \A i \in 1..Len(q) : Append(q, e)[i] = q[i]
         /\ Append(q, e)[Len(q) + 1] = e
  OBVIOUS

LEMMA TailElements ==
  ASSUME NEW S, NEW q \in Seq(S), q # <<>>
  PROVE  /\ Len(q) \in Nat \ {0} /\ Len(Tail(q)) = Len(q) - 1
         /\ Head(q) = q[1]
         /\ \A i \in 1..Len(Tail(q)) : Tail(q)[i] = q[i + 1]
  OBVIOUS

\* A stop command is put by close(), which waits for it, and taken before
\* close() goes on: the Web process gives it up after the shutdown began.
LEMMA StopsStep ==
  ASSUME TypeOK, StopsAwaited, OneStop, [Next]_vars
  PROVE  StopsAwaited' /\ OneStop'
<1>1. CASE UNCHANGED <<queue, closing>>
  BY <1>1 DEF StopsAwaited, OneStop, closing
<1>2. CASE /\ UNCHANGED <<queue, celery>> /\ closer # "stopping"
           /\ closer' = "idle" => celery \/ closer = "idle"
  BY <1>2 DEF StopsAwaited, OneStop
<1>3. CASE CloseGivesUp
  BY <1>3 DEF CloseGivesUp, StopsAwaited, OneStop
<1>4. ASSUME NEW ch \in Channel, NEW c \in Call, Submit(ch, c), UNCHANGED closing
      PROVE  StopsAwaited' /\ OneStop'
  <2>1. /\ c # Stop /\ c \in Call \cup {Stop} /\ queue[ch] \in Seq(Call \cup {Stop})
        /\ Len(queue[ch]) \in Nat
    BY CallAssumption DEF TypeOK
  <2>2. /\ queue'[ch] = Append(queue[ch], c)
        /\ \A o \in Channel : o # ch => queue'[o] = queue[o]
    BY <1>4, SubmitFacts
  <2>3. /\ Len(queue'[ch]) = Len(queue[ch]) + 1
        /\ \A i \in 1..Len(queue[ch]) : queue'[ch][i] = queue[ch][i]
        /\ queue'[ch][Len(queue[ch]) + 1] = c
    BY <2>1, <2>2, AppendElements
  <2>4. \A o \in Channel : \A i \in 1..Len(queue'[o]) : queue'[o][i] = Stop =>
          i \in 1..Len(queue[o]) /\ queue[o][i] = Stop
    BY <2>1, <2>2, <2>3
  <2>. QED BY <1>4, <2>4 DEF StopsAwaited, OneStop, closing
<1>5. ASSUME NEW ch \in Channel, Take(ch) \/ TakeStop(ch)
      PROVE  StopsAwaited' /\ OneStop'
  <2>1. /\ queue[ch] \in Seq(Call \cup {Stop}) /\ queue[ch] # <<>>
        /\ queue'[ch] = Tail(queue[ch])
        /\ \A o \in Channel : o # ch => queue'[o] = queue[o]
    BY <1>5 DEF Take, TakeStop, TypeOK
  <2>2. /\ Len(queue[ch]) \in Nat \ {0} /\ Len(queue'[ch]) = Len(queue[ch]) - 1
        /\ Head(queue[ch]) = queue[ch][1]
        /\ \A i \in 1..Len(queue'[ch]) : queue'[ch][i] = queue[ch][i + 1]
    BY <2>1, TailElements
  <2>3. \A i \in 1..Len(queue'[ch]) : i + 1 \in 1..Len(queue[ch]) /\ i + 1 # 1
    BY <2>2
  <2>4. 1 \in 1..Len(queue[ch])
    BY <2>2
  <2>5. celery' = celery /\ OneStop'
    <3>1. celery' = celery
      BY <1>5 DEF Take, TakeStop, closing
    <3>2. ASSUME celery, NEW o \in Channel, NEW i \in 1..Len(queue'[o]),
                 NEW j \in 1..Len(queue'[o]), queue'[o][i] = Stop, queue'[o][j] = Stop
          PROVE  i = j
      <4>1. CASE o = ch
        <5>1. queue[ch][i + 1] = Stop /\ queue[ch][j + 1] = Stop
          BY <2>2, <3>2, <4>1
        <5>2. i + 1 = j + 1
          BY <2>3, <3>2, <4>1, <5>1 DEF OneStop
        <5>. QED BY <2>2, <3>2, <4>1, <5>2
      <4>2. CASE o # ch
        BY <2>1, <3>2, <4>2 DEF OneStop
      <4>. QED BY <4>1, <4>2
    <3>. QED BY <3>1, <3>2 DEF OneStop
  <2>6. CASE Take(ch)
    BY <2>1, <2>2, <2>3, <2>5, <2>6 DEF Take, closing, StopsAwaited
  <2>7. CASE TakeStop(ch)
    <3>1. queue[ch][1] = Stop
      BY <2>2, <2>7 DEF TakeStop
    <3>2. CASE celery
      <4>1. closer = "stopping" /\ at = ch
        BY <2>4, <3>1, <3>2 DEF StopsAwaited
      <4>2. \A i \in 1..Len(queue'[ch]) : queue'[ch][i] # Stop
        BY <2>2, <2>3, <2>4, <3>1, <3>2 DEF OneStop
      <4>3. \A o \in Channel : o # ch => \A i \in 1..Len(queue'[o]) : queue'[o][i] # Stop
        BY <2>1, <3>2, <4>1 DEF StopsAwaited
      <4>. QED BY <2>5, <4>2, <4>3 DEF StopsAwaited
    <3>3. CASE ~celery
      <4>1. closer # "idle"
        BY <2>4, <3>1, <3>3 DEF StopsAwaited
      <4>2. closer' # "idle"
        BY <2>7, <4>1 DEF TakeStop, Told
      <4>. QED BY <2>5, <3>3, <4>2 DEF StopsAwaited
    <3>. QED BY <3>2, <3>3
  <2>. QED BY <1>5, <2>5, <2>6, <2>7
<1>6. CASE CloseSends
  <2>1. /\ at \in Channel /\ Submit(at, Stop) /\ closer = "closing" /\ closer' = "stopping"
        /\ UNCHANGED <<at, celery>>
    BY <1>6 DEF CloseSends, TypeOK
  <2>2. queue[at] \in Seq(Call \cup {Stop}) /\ Len(queue[at]) \in Nat
    BY <2>1 DEF TypeOK
  <2>3. /\ queue'[at] = Append(queue[at], Stop)
        /\ \A o \in Channel : o # at => queue'[o] = queue[o]
    BY <2>1, SubmitFacts
  <2>4. /\ Len(queue'[at]) = Len(queue[at]) + 1
        /\ \A i \in 1..Len(queue[at]) : queue'[at][i] = queue[at][i]
    BY <2>2, <2>3, AppendElements
  <2>5. SUFFICES ASSUME celery PROVE StopsAwaited' /\ OneStop'
    BY <2>1 DEF StopsAwaited, OneStop
  <2>6. \A o \in Channel : \A i \in 1..Len(queue[o]) : queue[o][i] # Stop
    BY <2>1, <2>5 DEF StopsAwaited
  <2>7. \A o \in Channel : \A i \in 1..Len(queue'[o]) : queue'[o][i] = Stop =>
          o = at /\ i = Len(queue[at]) + 1
    BY <2>2, <2>3, <2>4, <2>6
  <2>. QED BY <2>1, <2>7 DEF StopsAwaited, OneStop
<1>7. CASE CloseBegins \/ CloseSkips \/ CloseEnds \/ CloseCancels \/ NextJob
  BY <1>2, <1>7 DEF CloseBegins, CloseSkips, CloseEnds, Proceed, CloseCancels, NextJob
<1>8. CASE \E c \in Call : Wait(c) \/ Enter(c) \/ GiveUp(c)
  BY <1>1, <1>4, <1>8 DEF Wait, Enter, GiveUp
<1>9. CASE \/ \E ch \in Channel : \/ Park(ch) \/ Die(ch) \/ Connect(ch) \/ Succeed(ch)
                                 \/ Fail(ch) \/ FailForGood(ch) \/ Collect(ch)
           \/ UNCHANGED vars
  BY <1>1, <1>9 DEF Park, Die, Connect, Succeed, Fail, FailForGood, Collect, vars
<1>. QED BY <1>3, <1>5, <1>6, <1>7, <1>8, <1>9 DEF Next, Run, Close

-----------------------------------------------------------------------------
\* Where a call is, it stays until it is executed, and an owner stays alive
\* until its queue is empty.
HeldAt(ch, c) == Alive(ch) /\ Holds(ch, c)

\* A pending call stays where it is unless this step resolves it.
LEMMA RunKeepsCall ==
  ASSUME TypeOK, OwnersTidy, NEW ch \in Channel, Run(ch), ~TakeStop(ch),
         NEW c \in Call, HeldAt(ch, c), call'[c] = "submitted"
  PROVE  HeldAt(ch, c)'
<1>1. owner[ch] \in Owner /\ c # None /\ queue[ch] \in Seq(Call \cup {Stop})
  BY CallAssumption DEF TypeOK
<1>2. \A pc \in Getting \cup Busy : pc \notin Gone
  BY DEF Gone, Getting, Busy
<1>3. CASE Take(ch)
  <2>1. /\ Len(queue[ch]) \in Nat \ {0} /\ Len(queue'[ch]) = Len(queue[ch]) - 1
        /\ Head(queue[ch]) = queue[ch][1]
        /\ \A i \in 1..Len(queue'[ch]) : queue'[ch][i] = queue[ch][i + 1]
    BY <1>1, <1>3, TailElements DEF Take, TypeOK
  <2>2. owner'[ch].call = queue[ch][1] /\ owner'[ch].pc \in Busy
    BY <1>1, <1>3, <2>1 DEF Take, TypeOK, Owner, Busy
  <2>3. owner[ch].call = None
    BY <1>3 DEF Take, OwnersTidy, Getting, Busy
  <2>4. PICK i \in 1..Len(queue[ch]) : queue[ch][i] = c
    BY <1>1, <2>3 DEF HeldAt, Holds
  <2>5. CASE i = 1
    BY <1>2, <2>2, <2>4, <2>5 DEF HeldAt, Holds, Alive
  <2>6. CASE i # 1
    <3>1. i - 1 \in 1..Len(queue'[ch]) /\ queue'[ch][i - 1] = c
      BY <2>1, <2>4, <2>6
    <3>. QED BY <1>2, <2>2, <3>1 DEF HeldAt, Holds, Alive
  <2>. QED BY <2>5, <2>6
<1>4. CASE Park(ch) \/ Connect(ch) \/ Fail(ch)
  <2>1. owner'[ch].call = owner[ch].call /\ queue' = queue
    BY <1>1, <1>4 DEF Park, Connect, Fail, TypeOK, Owner
  <2>2. owner'[ch].pc \in Getting \cup Busy
    BY <1>1, <1>4 DEF Park, Connect, Fail, TypeOK, Owner, Getting, Busy
  <2>. QED BY <1>2, <2>1, <2>2 DEF HeldAt, Holds, Alive
<1>5. CASE Die(ch)
  <2>1. owner[ch].call = None /\ queue[ch] = <<>>
    BY <1>5 DEF Die, OwnersTidy, Busy
  <2>. QED BY <1>1, <2>1 DEF HeldAt, Holds
<1>6. CASE Succeed(ch) \/ FailForGood(ch)
  <2>1. owner'[ch].pc \in Getting /\ queue' = queue
    BY <1>1, <1>6 DEF Succeed, FailForGood, GoesOn, TypeOK, Owner, Getting
  <2>2. owner[ch].call # c
    <3>1. ASSUME owner[ch].call = c PROVE FALSE
      <4>1. Resolve(c, "answered") \/ Resolve(c, "failed")
        BY <1>6, <3>1 DEF Succeed, FailForGood
      <4>. QED BY <4>1 DEF Resolve, Leave, callers, Pending, TypeOK
    <3>. QED BY <3>1
  <2>. QED BY <1>2, <2>1, <2>2 DEF HeldAt, Holds, Alive
<1>. QED BY <1>3, <1>4, <1>5, <1>6 DEF Run

LEMMA HeldStep ==
  ASSUME TypeOK, OwnersTidy, JobsAreOver, StopsAwaited, CallsAreHeld, [Next]_vars
  PROVE  CallsAreHeld'
<1>. SUFFICES ASSUME closer' = "idle", NEW c \in Call, call'[c] = "submitted"
              PROVE  \E ch \in Channel : HeldAt(ch, c)'
  BY DEF CallsAreHeld, Pending, HeldAt
<1>1. ASSUME closer = "idle", call[c] = "submitted"
      PROVE  \E ch \in Channel : HeldAt(ch, c)
  BY <1>1 DEF CallsAreHeld, Pending, HeldAt
<1>2. CASE \/ \E d \in Call : Wait(d) \/ GiveUp(d)
           \/ \E ch \in Channel : Collect(ch)
           \/ UNCHANGED vars
  <2>1. UNCHANGED <<queue, owner, closer>> /\ call[c] = "submitted"
    BY <1>2 DEF Wait, GiveUp, Leave, Collect, vars, callers, closing, TypeOK
  <2>. QED BY <1>1, <2>1 DEF HeldAt, Alive, Holds
<1>3. ASSUME NEW d \in Call, NEW ch \in Channel, Enter(d), Submit(ch, d)
      PROVE  \E o \in Channel : HeldAt(o, c)'
  <2>1. closer = "idle" /\ (c # d => call[c] = "submitted")
    BY <1>3 DEF Enter, closing, TypeOK
  <2>2. queue[ch] \in Seq(Call \cup {Stop}) /\ Len(queue[ch]) \in Nat /\ d \in Call \cup {Stop}
    BY DEF TypeOK
  <2>3. /\ \A o \in Channel : owner'[o].call = owner[o].call
        /\ \A o \in Channel : o # ch => owner'[o] = owner[o] /\ queue'[o] = queue[o]
        /\ owner'[ch].pc = IF Alive(ch) THEN owner[ch].pc ELSE "getting"
        /\ queue'[ch] = Append(queue[ch], d)
    BY <1>3, SubmitFacts
  <2>4. /\ Len(queue'[ch]) = Len(queue[ch]) + 1
        /\ \A i \in 1..Len(queue[ch]) : queue'[ch][i] = queue[ch][i]
        /\ queue'[ch][Len(queue[ch]) + 1] = d
    BY <2>2, <2>3, AppendElements
  <2>5. Alive(ch)' /\ \A o \in Channel : Alive(o) => Alive(o)'
    BY <2>3 DEF Alive, Gone
  <2>6. CASE c = d
    <3>1. Len(queue[ch]) + 1 \in 1..Len(queue'[ch])
      BY <2>2, <2>4
    <3>. QED BY <2>4, <2>5, <2>6, <3>1 DEF HeldAt, Holds
  <2>7. CASE c # d
    <3>1. PICK o \in Channel : HeldAt(o, c)
      BY <1>1, <2>1, <2>7
    <3>2. Holds(o, c)'
      <4>1. CASE owner[o].call = c
        BY <2>3, <4>1 DEF Holds
      <4>2. CASE \E i \in 1..Len(queue[o]) : queue[o][i] = c
        <5>1. PICK i \in 1..Len(queue[o]) : queue[o][i] = c
          BY <4>2
        <5>2. i \in 1..Len(queue'[o]) /\ queue'[o][i] = c
          BY <2>2, <2>3, <2>4, <5>1
        <5>. QED BY <5>2 DEF Holds
      <4>. QED BY <3>1, <4>1, <4>2 DEF HeldAt, Holds
    <3>. QED BY <2>5, <3>1, <3>2 DEF HeldAt
  <2>. QED BY <2>6, <2>7
<1>4. ASSUME NEW ch \in Channel, Run(ch)
      PROVE  \E o \in Channel : HeldAt(o, c)'
  <2>1. closer = "idle"
    BY <1>4 DEF Run, Take, TakeStop, Told, Park, Die, Connect, Succeed, Fail, FailForGood,
                closing
  <2>2. ~TakeStop(ch)
    <3>1. ASSUME TakeStop(ch) PROVE FALSE
      <4>1. queue[ch] \in Seq(Call \cup {Stop}) /\ queue[ch] # <<>>
        BY <3>1 DEF TakeStop, TypeOK
      <4>2. 1 \in 1..Len(queue[ch]) /\ queue[ch][1] = Stop
        BY <3>1, <4>1, TailElements DEF TakeStop
      <4>. QED BY <2>1, <4>2 DEF StopsAwaited
    <3>. QED BY <3>1
  <2>3. call[c] = "submitted"
    BY <1>4 DEF Run, Take, TakeStop, Park, Die, Connect, Succeed, Fail, FailForGood,
                Resolve, Leave, callers, Pending, TypeOK
  <2>4. PICK o \in Channel : HeldAt(o, c)
    BY <1>1, <2>1, <2>3
  <2>5. CASE o = ch
    BY <1>4, <2>2, <2>4, <2>5, RunKeepsCall
  <2>6. CASE o # ch
    BY <1>4, <2>4, <2>6, RunIsLocal DEF HeldAt, Alive, Holds
  <2>. QED BY <2>5, <2>6
<1>5. CASE NextJob
  BY <1>5 DEF NextJob, callers, JobsAreOver
<1>6. ~(CloseBegins \/ Close \/ CloseGivesUp)
  BY DEF CloseBegins, Close, CloseSkips, CloseSends, CloseEnds, Proceed, CloseCancels,
         CloseGivesUp
<1>. QED BY <1>2, <1>3, <1>4, <1>5, <1>6 DEF Next, Enter

-----------------------------------------------------------------------------
LEMMA InitInv == Init => IInv
<1>. SUFFICES ASSUME Init PROVE IInv
  OBVIOUS
<1>1. 1 \in Channel /\ 0 \in 0..Retries
  BY SizeAssumption, RetriesAssumption DEF Channel
<1>2. TypeOK
  BY <1>1, LimitAssumption, LoopsAssumption
     DEF Init, TypeOK, CallState, Owner, Gone
<1>3. Pending = {}
  BY DEF Init, Pending
<1>4. LimitKept
  BY <1>3, FS_EmptySet, LimitAssumption DEF Init, LimitKept
<1>5. OwnersTidy /\ LoopsPass /\ WebOrphans /\ JobsAreOver
  BY DEF Init, OwnersTidy, LoopsPass, WebOrphans, JobsAreOver, Busy
<1>6. \A ch \in Channel : Len(queue[ch]) = 0
  BY DEF Init
<1>7. StopsAwaited /\ OneStop /\ CallsAreHeld
  BY <1>3, <1>6 DEF StopsAwaited, OneStop, CallsAreHeld
<1>. QED BY <1>2, <1>4, <1>5, <1>7 DEF IInv

LEMMA NextInv == IInv /\ [Next]_vars => IInv'
<1>. SUFFICES ASSUME IInv, [Next]_vars PROVE IInv'
  OBVIOUS
<1>. USE DEF IInv
<1>1. TypeOK' /\ LimitKept'
  BY TypeStep, LimitStep
<1>2. OwnersTidy' /\ LoopsPass' /\ WebOrphans' /\ JobsAreOver'
  BY TidyStep, LoopsStep, OrphansStep, JobsStep
<1>3. StopsAwaited' /\ OneStop' /\ CallsAreHeld'
  BY StopsStep, HeldStep
<1>. QED BY <1>1, <1>2, <1>3

LEMMA Invariance == Spec => []IInv
BY InitInv, NextInv, PTL DEF Spec

\* Every variable has its type: the permits neither exceed the limit nor fall
\* below zero, and no call is attempted more than Retries + 1 times.
THEOREM TypeCorrect == Spec => []TypeOK
BY Invariance, PTL DEF IInv

\* _ChannelPool.call: the semaphore's permits and the calls under way add up to
\* the limit, whether calls succeed, fail or are given up.
THEOREM LimitIsKept == Spec => []LimitKept
BY Invariance, PTL DEF IInv

\* _submit and _run: until the channels are closed every call that is waited for
\* is with an owner that lives, also in a worker whose owners die.
THEOREM NoCallIsLost == Spec => []CallsAreHeld
BY Invariance, PTL DEF IInv

\* aclose of every channel at the shutdown of the Web process (main.py:132): when
\* it comes to its end, the servers have ended with their owners.
THEOREM ShutdownIsClean == Spec => []ShutdownLeavesNothing
<1>1. IInv => ShutdownLeavesNothing
  <2>. SUFFICES ASSUME IInv, ~celery, closer = "closed", NEW ch \in Channel, ~Alive(ch)
                PROVE  Servers(ch) = 0
    BY DEF ShutdownLeavesNothing, Closed
  <2>1. orphans[ch] = 0
    BY DEF IInv, WebOrphans
  <2>2. ~owner[ch].connected
    BY DEF IInv, OwnersTidy, Alive
  <2>. QED BY <2>1, <2>2 DEF Servers
<1>. QED BY <1>1, Invariance, PTL
=============================================================================
