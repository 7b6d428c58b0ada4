----------------------------- MODULE McpChannels -----------------------------
(***************************************************************************)
(* The calls to an MCP server as mcp_client/agent_mcp_client.py makes them. *)
(*                                                                         *)
(* A _ChannelPool spreads its calls over several _PersistentChannels.  A   *)
(* channel is a queue of commands and an owner task, the only task that    *)
(* touches the channel's connection: it takes the commands one at a time,  *)
(* connects when there is no connection, and drops the connection after a  *)
(* failure.  (A channel outside a pool: Size = 1, and a Limit never met.)  *)
(*                                                                         *)
(* The client is a global of the process.  The Web process has one event   *)
(* loop and closes the channels when it shuts down, with calls under way;  *)
(* a Celery worker runs each job in an event loop of its own and closes    *)
(* the channels after each, when the job's calls have returned.            *)
(***************************************************************************)
EXTENDS Integers, Sequences, FiniteSets

CONSTANTS Call,      \* the calls ever made
          Size,      \* number of channels
          Limit,     \* permits of the pool's semaphore
          Retries,   \* further attempts after a failed one
          MaxLoops   \* bound: event loops (jobs) of the process

Channel == 1..Size
Stop    == "stop"    \* the command of aclose()
None    == "none"

ASSUME SizeAssumption    == Size \in Nat \ {0}      \* max(1, int(...))
ASSUME LimitAssumption   == Limit \in Nat \ {0}
ASSUME RetriesAssumption == Retries \in Nat
ASSUME CallAssumption    == IsFiniteSet(Call) /\ Stop \notin Call /\ None \notin Call
ASSUME LoopsAssumption   == MaxLoops \in Nat \ {0}

VARIABLES call,      \* call[c]: where the coroutine that makes call c stands
          permits,   \* the pool's semaphore
          queue,     \* queue[ch]: the commands of channel ch
          bound,     \* bound[ch]: the event loop its queue belongs to, 0: none yet
          owner,     \* owner[ch]: its owner task: pc, the call it executes, which
                     \* attempt that is, and whether it holds a connection
          orphans,   \* orphans[ch]: servers whose connection no task holds any more
          closer,    \* where close() stands
          at,        \* the channel close() has reached
          loop,      \* the running event loop
          celery     \* the process is a Celery worker, not the Web process

callers == <<call, permits>>
closing == <<closer, at, loop, celery>>
vars    == <<callers, queue, bound, owner, orphans, closing>>

CallState == {"new", "waiting", "submitted", "answered", "failed", "gone"}
Gone      == {"none", "dead"}             \* no task, or one an exception ended
Getting   == {"getting", "waiting"}       \* in _cmds.get(): about to look, or parked
Busy      == {"connecting", "invoking"}
Owner     == [pc : Gone \cup Getting \cup Busy, call : Call \cup {None},
              attempt : 0..Retries, connected : BOOLEAN]

Pending     == {c \in Call : call[c] = "submitted"}
Alive(ch)   == owner[ch].pc \notin Gone
Servers(ch) == orphans[ch] + IF owner[ch].connected THEN 1 ELSE 0

Init == /\ call = [c \in Call |-> "new"] /\ permits = Limit
        /\ queue = [ch \in Channel |-> <<>>]
        /\ bound = [ch \in Channel |-> 0]
        /\ owner = [ch \in Channel |-> [pc |-> "none", call |-> None,
                                        attempt |-> 0, connected |-> FALSE]]
        /\ orphans = [ch \in Channel |-> 0]
        /\ closer = "idle" /\ at = 1 /\ loop = 1
        /\ celery \in BOOLEAN

-----------------------------------------------------------------------------
\* _pick: the channel with the fewest commands in its queue, the first of them.
\* The command its owner is executing is not in the queue.
Picked(ch) == \A o \in Channel : \/ Len(queue[ch]) < Len(queue[o])
                                 \/ Len(queue[ch]) = Len(queue[o]) /\ ch <= o

\* _submit: an owner that has ended is replaced, then the command is queued.
Submit(ch, command) ==
  /\ queue' = [queue EXCEPT ![ch] = Append(@, command)]
  /\ owner' = [owner EXCEPT ![ch].pc = IF Alive(ch) THEN @ ELSE "getting"]

\* A job makes its calls before close() begins; the pipelines of the Web
\* process are not told of the shutdown.
MayCall == celery => closer = "idle"

AlwaysFree == TRUE   \* a slip: the semaphore is not asked
Free == permits > 0

\* async with self._sem.  (Where it has to wait, the semaphore is bound to the
\* event loop, too; but only the Web process makes calls side by side.  A worker's
\* jobs make theirs one after the other, as the next job's loop would find out.)
Wait(c) == /\ MayCall /\ ~Free
           /\ call[c] = "new"
           /\ call' = [call EXCEPT ![c] = "waiting"]
           /\ UNCHANGED <<permits, queue, bound, owner, orphans, closing>>

\* _pick() and _submit() up to the wait for the answer.  Which of the waiting
\* calls gets a permit is left open.
Enter(c) == /\ MayCall /\ Free
            /\ call[c] \in {"new", "waiting"}
            /\ call' = [call EXCEPT ![c] = "submitted"]
            /\ permits' = permits - 1
            /\ \E ch \in Channel : Picked(ch) /\ Submit(ch, c)
            /\ UNCHANGED <<bound, orphans, closing>>

\* A slip: the permit is not given back.
LeaveHolding(c, outcome) == /\ call' = [call EXCEPT ![c] = outcome]
                            /\ UNCHANGED permits

\* The caller leaves the semaphore.
Leave(c, outcome) == /\ call' = [call EXCEPT ![c] = outcome]
                     /\ permits' = permits + 1

\* wait_for(fut, 3600) expires.  The command stays where it is, and the owner
\* executes it all the same.
GiveUp(c) == /\ call[c] = "submitted"
             /\ Leave(c, "gone")
             /\ UNCHANGED <<queue, bound, owner, orphans, closing>>

\* A slip: a failure is logged, and that is all.
ResolveSuccess(c, outcome) == IF c \in Pending /\ outcome = "answered"
                              THEN Leave(c, outcome) ELSE UNCHANGED callers

\* if not fut.done(): fut.set_result(...) or fut.set_exception(...)
Resolve(c, outcome) == IF c \in Pending THEN Leave(c, outcome) ELSE UNCHANGED callers

-----------------------------------------------------------------------------
\* A connection whose owner is gone: its server runs on.
LoseConn(ch) == orphans' = [orphans EXCEPT ![ch] = Servers(ch)]

\* _close_conn: the server ends with its connection.
CloseConn(ch) == UNCHANGED orphans

\* The owner takes a call.
Take(ch) ==
  /\ owner[ch].pc \in Getting
  /\ queue[ch] # <<>> /\ Head(queue[ch]) # Stop
  /\ queue' = [queue EXCEPT ![ch] = Tail(@)]
  /\ owner' = [owner EXCEPT
                 ![ch].pc = IF owner[ch].connected THEN "invoking" ELSE "connecting",
                 ![ch].call = Head(queue[ch]), ![ch].attempt = 0]
  /\ UNCHANGED <<callers, bound, orphans, closing>>

Untold(ch) == UNCHANGED closer   \* a slip: the owner stops without a word
Told(ch) == closer' = IF closer = "stopping" /\ at = ch THEN "cancelling" ELSE closer

\* The owner takes a "stop": it closes the connection, answers close() and
\* ends, whatever is behind the command in the queue.
TakeStop(ch) ==
  /\ owner[ch].pc \in Getting
  /\ queue[ch] # <<>> /\ Head(queue[ch]) = Stop
  /\ queue' = [queue EXCEPT ![ch] = Tail(@)]
  /\ owner' = [owner EXCEPT ![ch].pc = "none", ![ch].connected = FALSE]
  /\ CloseConn(ch)
  /\ Told(ch)
  /\ UNCHANGED <<callers, bound, at, loop, celery>>

\* get() on an empty queue parks the owner.  The first time, the asyncio.Queue
\* is bound to the running event loop.
Park(ch) == /\ owner[ch].pc = "getting" /\ queue[ch] = <<>>
            /\ bound[ch] \in {0, loop}
            /\ bound' = [bound EXCEPT ![ch] = loop]
            /\ owner' = [owner EXCEPT ![ch].pc = "waiting"]
            /\ UNCHANGED <<callers, queue, orphans, closing>>

\* The queue is bound to a loop that is gone: get() raises RuntimeError, outside
\* of any try, and the owner ends with its connection open.
Die(ch) == /\ owner[ch].pc = "getting" /\ queue[ch] = <<>>
           /\ bound[ch] \notin {0, loop}
           /\ owner' = [owner EXCEPT ![ch].pc = "dead", ![ch].connected = FALSE]
           /\ LoseConn(ch)
           /\ UNCHANGED <<callers, queue, bound, closing>>

\* The server is started and initialised.
Connect(ch) == /\ owner[ch].pc = "connecting"
               /\ owner' = [owner EXCEPT ![ch].pc = "invoking", ![ch].connected = TRUE]
               /\ UNCHANGED <<callers, queue, bound, orphans, closing>>

\* The tool answered in time and without an error.
Succeed(ch) == /\ owner[ch].pc = "invoking"
               /\ Resolve(owner[ch].call, "answered")
               /\ owner' = [owner EXCEPT ![ch].pc = "getting", ![ch].call = None]
               /\ UNCHANGED <<queue, bound, orphans, closing>>

\* The server does not start, the connection breaks, the tool times out or
\* reports an error: the connection is dropped, and after a pause the call is
\* tried again.
Fail(ch) == /\ owner[ch].pc \in Busy
            /\ owner[ch].attempt < Retries
            /\ owner' = [owner EXCEPT ![ch].pc = "connecting", ![ch].connected = FALSE,
                                      ![ch].attempt = @ + 1]
            /\ CloseConn(ch)
            /\ UNCHANGED <<callers, queue, bound, closing>>

Raises == "dead"     \* a slip: the last attempt's exception leaves the owner's loop
GoesOn == "getting"

\* The last attempt failed: the caller gets the exception, the owner goes on.
FailForGood(ch) ==
  /\ owner[ch].pc \in Busy
  /\ owner[ch].attempt = Retries
  /\ Resolve(owner[ch].call, "failed")
  /\ owner' = [owner EXCEPT ![ch].pc = GoesOn, ![ch].call = None,
                            ![ch].connected = FALSE]
  /\ CloseConn(ch)
  /\ UNCHANGED <<queue, bound, closing>>

\* The garbage collector finalises an abandoned connection, not before the
\* task whose frame refers to it is released.
Collect(ch) == /\ orphans[ch] > 0 /\ owner[ch].pc # "dead"
               /\ orphans' = [orphans EXCEPT ![ch] = @ - 1]
               /\ UNCHANGED <<callers, queue, bound, owner, closing>>

-----------------------------------------------------------------------------
\* close(): aclose() of one channel after the other.
CloseBegins == /\ closer = "idle"
               /\ celery => \A c \in Call : call[c] \notin {"waiting", "submitted"}
               /\ closer' = "closing" /\ at' = 1
               /\ UNCHANGED <<callers, queue, bound, owner, orphans, loop, celery>>

\* close() is done with channel at.
Proceed == IF at < Size THEN closer' = "closing" /\ at' = at + 1
                        ELSE closer' = "closed" /\ at' = at

\* aclose() of a channel whose owner is not running does nothing.
CloseSkips == /\ closer = "closing" /\ ~Alive(at)
              /\ Proceed
              /\ UNCHANGED <<callers, queue, bound, owner, orphans, loop, celery>>

CloseSends == /\ closer = "closing" /\ Alive(at)
              /\ Submit(at, Stop)
              /\ closer' = "stopping"
              /\ UNCHANGED <<callers, bound, orphans, at, loop, celery>>

\* The owner did not come to the stop command within 3600 seconds.  (In a
\* worker the command waits for one abandoned call at most.)
CloseGivesUp == /\ ~celery /\ closer = "stopping"
                /\ closer' = "cancelling"
                /\ UNCHANGED <<callers, queue, bound, owner, orphans, at, loop, celery>>

\* self._owner.cancel() of an owner that has ended changes nothing.
CloseEnds == /\ closer = "cancelling" /\ ~Alive(at)
             /\ Proceed
             /\ owner' = [owner EXCEPT ![at].pc = "none"]
             /\ UNCHANGED <<callers, queue, bound, orphans, loop, celery>>

\* self._owner.cancel() of an owner that never came to the stop command, or of
\* a new one: what it executes is lost, its server (also one just starting) runs
\* on, and its CancelledError, no Exception, takes close() with it.
CloseCancels ==
  /\ closer = "cancelling" /\ Alive(at)
  /\ owner' = [owner EXCEPT ![at].pc = "none", ![at].call = None,
                            ![at].connected = FALSE]
  /\ \/ LoseConn(at)
     \/ /\ owner[at].pc = "connecting"
        /\ orphans' = [orphans EXCEPT ![at] = @ + 1]
  /\ closer' = "cancelled"
  /\ UNCHANGED <<callers, queue, bound, at, loop, celery>>

\* The worker's next job: the client is the same, the event loop is not.
NextJob == /\ celery /\ closer = "closed"
           /\ loop < MaxLoops
           /\ loop' = loop + 1
           /\ closer' = "idle"
           /\ UNCHANGED <<callers, queue, bound, owner, orphans, at, celery>>

-----------------------------------------------------------------------------
Run(ch) == \/ Take(ch) \/ TakeStop(ch) \/ Park(ch) \/ Die(ch)
           \/ Connect(ch) \/ Succeed(ch) \/ Fail(ch) \/ FailForGood(ch)

Close == CloseSkips \/ CloseSends \/ CloseEnds \/ CloseCancels

Next == \/ \E c \in Call : Wait(c) \/ Enter(c) \/ GiveUp(c)
        \/ \E ch \in Channel : Run(ch) \/ Collect(ch)
        \/ CloseBegins \/ Close \/ CloseGivesUp \/ NextJob

Spec == Init /\ [][Next]_vars

\* The event loop resumes every ready coroutine; servers start, answer or are
\* timed out (initialize after 30 s, a tool after its timeout).  Nobody has to
\* make a call or to shut down, and no hour has to pass.
FairSpec == /\ Spec
            /\ \A ch \in Channel : WF_vars(Run(ch))
            /\ \A c \in Call : WF_vars(call[c] = "waiting" /\ Enter(c))
            /\ WF_vars(Close)

-----------------------------------------------------------------------------
TypeOK == /\ call \in [Call -> CallState]
          /\ permits \in 0..Limit
          /\ queue \in [Channel -> Seq(Call \cup {Stop})]
          /\ bound \in [Channel -> 0..MaxLoops]
          /\ owner \in [Channel -> Owner]
          /\ orphans \in [Channel -> Nat]
          /\ closer \in {"idle", "closing", "stopping", "cancelling", "closed", "cancelled"}
          /\ at \in Channel
          /\ loop \in 1..MaxLoops
          /\ celery \in BOOLEAN

\* At most Limit calls are under way, and the permits of those that ended, by
\* an answer, an error or a timeout, are back ("async with self._sem", line 207).
LimitKept == permits + Cardinality(Pending) = Limit

Holds(ch, c) == owner[ch].call = c \/ \E i \in 1..Len(queue[ch]) : queue[ch][i] = c

\* Until the channels are closed a call that somebody waits for is not lost:
\* a live owner executes it or has it in its queue (_ensure_owner comes before
\* every put, and no failure of a call leaves the owner's loop).
CallsAreHeld == closer = "idle" =>
                  \A c \in Pending : \E ch \in Channel : Alive(ch) /\ Holds(ch, c)

Closed == closer = "closed" => \A ch \in Channel : Alive(ch) \/ Servers(ch) = 0

\* After a shutdown of the Web process that came to its end (main.py:130) no
\* server runs on a channel, unless a pipeline that was not told of the
\* shutdown has started a new owner.
ShutdownLeavesNothing == ~celery => Closed

\* Every call is answered, with a result or an error, unless the channels are
\* closed on it: no reconnection or retry goes on for ever, and no other call
\* on its channel, abandoned ones included, blocks it for good.
EveryCallAnswered ==
  \A c \in Call : (call[c] \in {"waiting", "submitted"} /\ closer = "idle")
                    ~> (call[c] \in {"answered", "failed", "gone"} \/ closer # "idle")

\* close() ends, though its stop command queues behind the calls of every
\* channel and new calls keep coming.
ShutdownEnds == closer = "closing" ~> closer \in {"closed", "cancelled"}
=============================================================================
