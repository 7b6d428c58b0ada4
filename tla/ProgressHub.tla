---------------------------- MODULE ProgressHub ----------------------------
(***************************************************************************)
(* ProgressHub and the event streams of api/task_stream, for one task: the *)
(* hub's dictionaries are keyed by the task and no operation touches two.  *)
(*                                                                         *)
(* publish, subscribe, unsubscribe and drop run without an await between   *)
(* their first and last change, so each is one action.  The Redis bridge   *)
(* is not attached in the process that serves the streams, and the log     *)
(* sink is the business of TaskStore.                                      *)
(***************************************************************************)
EXTENDS Naturals, Sequences

CONSTANTS Stream,     \* EventSource connections
          MaxHistory, \* ProgressHub(max_history)
          MaxEvents   \* bound: events published

ASSUME HistoryAssumption == MaxHistory \in Nat \ {0}
ASSUME EventsAssumption == MaxEvents \in Nat

VARIABLES seq,         \* _seq, the number of the last event; 0 if there is none
          history,     \* _history
          subscribers, \* _subscribers: the streams whose queue is registered
          open,        \* the streams whose event_gen runs
          replay,      \* replay[k]: what event_gen has yet to send of the snapshot
          queue,       \* queue[k]: the stream's queue
          clock,       \* number of events published since the task exists
          position,    \* position[k]: place of the last event sent, in that numbering
          seen         \* seen[k]: the seq of that event, 0 before the first

hub    == <<seq, history, subscribers>>
stream == <<open, replay, queue>>
ghost  == <<clock, position, seen>>
vars   == <<hub, stream, ghost>>

\* An event carries its seq; "at" is its place among all events of the task (its
\* timestamp, as far as the order of events goes).
Event == [seq : Nat, at : Nat]

Init ==
  /\ seq = 0 /\ history = <<>> /\ subscribers = {}
  /\ open = {}
  /\ replay = [k \in Stream |-> <<>>]
  /\ queue = [k \in Stream |-> <<>>]
  /\ clock = 0
  /\ position = [k \in Stream |-> 0]
  /\ seen = [k \in Stream |-> 0]

-----------------------------------------------------------------------------
Current == [seq |-> seq + 1, at |-> clock + 1]

Recorded == LET all == Append(history, Current)
            IN IF Len(all) > MaxHistory THEN SubSeq(all, Len(all) - MaxHistory + 1, Len(all))
               ELSE all

\* A slip: the history grows with the task.
PublishUntrimmed ==
  /\ clock < MaxEvents
  /\ seq' = seq + 1 /\ clock' = clock + 1
  /\ history' = Append(history, Current)
  /\ queue' = [k \in Stream |-> IF k \in subscribers THEN Append(queue[k], Current) ELSE queue[k]]
  /\ UNCHANGED <<subscribers, open, replay, position, seen>>

\* A slip: the streams of a task share a queue, whoever comes first takes an event.
PublishShared ==
  /\ clock < MaxEvents
  /\ seq' = seq + 1 /\ clock' = clock + 1
  /\ history' = Recorded
  /\ IF subscribers = {} THEN UNCHANGED queue
     ELSE \E k \in subscribers : queue' = [queue EXCEPT ![k] = Append(@, Current)]
  /\ UNCHANGED <<subscribers, open, replay, position, seen>>

\* publish: the event gets the next number, goes into the history and into the
\* queue of every subscriber.
Publish ==
  /\ clock < MaxEvents
  /\ seq' = seq + 1 /\ clock' = clock + 1
  /\ history' = Recorded
  /\ queue' = [k \in Stream |-> IF k \in subscribers THEN Append(queue[k], Current) ELSE queue[k]]
  /\ UNCHANGED <<subscribers, open, replay, position, seen>>

\* subscribe: a queue of its own, and a snapshot of the history.
Subscribe(k) ==
  /\ k \notin open
  /\ open' = open \cup {k}
  /\ subscribers' = subscribers \cup {k}
  /\ replay' = [replay EXCEPT ![k] = history]
  /\ queue' = [queue EXCEPT ![k] = <<>>]
  /\ position' = [position EXCEPT ![k] = IF history = <<>> THEN clock ELSE history[1].at - 1]
  /\ seen' = [seen EXCEPT ![k] = 0]
  /\ UNCHANGED <<seq, history, clock>>

\* event_gen sends the snapshot, then what comes in.
Sent(k, event) ==
  /\ position' = [position EXCEPT ![k] = event.at]
  /\ seen' = [seen EXCEPT ![k] = event.seq]
  /\ UNCHANGED <<hub, open, clock>>

Replay(k) ==
  /\ k \in open
  /\ replay[k] # <<>>
  /\ Sent(k, Head(replay[k]))
  /\ replay' = [replay EXCEPT ![k] = Tail(@)]
  /\ UNCHANGED queue

Relay(k) ==
  /\ k \in open
  /\ replay[k] = <<>> /\ queue[k] # <<>>
  /\ Sent(k, Head(queue[k]))
  /\ queue' = [queue EXCEPT ![k] = Tail(@)]
  /\ UNCHANGED replay

\* A slip: unsubscribe takes the first queue off the list, whosever it is.
DisconnectFirst(k) ==
  /\ k \in open
  /\ open' = open \ {k}
  /\ \E first \in subscribers : subscribers' = subscribers \ {first}
  /\ UNCHANGED <<seq, history, replay, queue, ghost>>

\* The client goes away, and event_gen unsubscribes.  (A client that is gone before
\* event_gen's first step leaves its queue registered: a stream like one that is
\* never sent its next event, to whom nobody listens.)
Disconnect(k) ==
  /\ k \in open
  /\ open' = open \ {k}
  /\ subscribers' = subscribers \ {k}
  /\ UNCHANGED <<seq, history, replay, queue, ghost>>

\* A slip: the subscribers stay when the numbers start over.
DropKeepsSubscribers ==
  /\ seq' = 0 /\ history' = <<>>
  /\ UNCHANGED <<subscribers, stream, ghost>>

\* drop, when the task is retried or deleted: the numbers start over, for the
\* streams that subscribe from now on.
Drop ==
  /\ seq' = 0 /\ history' = <<>> /\ subscribers' = {}
  /\ UNCHANGED <<stream, ghost>>

\* The process restarts: the streams break; the numbers go on from the persisted
\* log of the task, which need not hold the last events.
Restart ==
  /\ seq' \in 0..clock
  /\ history' = <<>> /\ subscribers' = {}
  /\ open' = {}
  /\ UNCHANGED <<replay, queue, ghost>>

Next == \/ Publish \/ Drop \/ Restart
        \/ \E k \in Stream : Subscribe(k) \/ Replay(k) \/ Relay(k) \/ Disconnect(k)

Spec == Init /\ [][Next]_vars

\* The event loop resumes an event_gen that has something to send (a client that
\* stops reading is disconnected).  Nobody has to publish, connect or restart.
FairSpec == Spec /\ \A k \in Stream : WF_vars(Replay(k) \/ Relay(k))

-----------------------------------------------------------------------------
\* The history is bounded, and a queue that is registered belongs to an open stream.
TypeOK ==
  /\ seq \in Nat /\ clock \in 0..MaxEvents /\ seq <= clock
  /\ history \in Seq(Event) /\ Len(history) <= MaxHistory
  /\ open \subseteq Stream /\ subscribers \subseteq open
  /\ replay \in [Stream -> Seq(Event)] /\ queue \in [Stream -> Seq(Event)]
  /\ position \in [Stream -> 0..clock] /\ seen \in [Stream -> Nat]

\* On one stream the numbers rise, though drop starts them over when a task is
\* retried: a page may take a number that is not above the last for a repetition.
SeqRises == [][\A k \in open : position'[k] > position[k] /\ k \in open'
                                 => seen'[k] > seen[k]]_vars

\* A stream misses nothing and repeats nothing, and starts with at most the
\* history: the hub, its snapshots and its queues implement the event feed.
Feed == INSTANCE EventFeed WITH History <- MaxHistory
FeedSpec == Feed!Spec

\* A stream that stays registered is sent every event in the end.
EventsArrive == \A k \in Stream, n \in 1..MaxEvents :
  k \in subscribers /\ clock >= n ~> position[k] >= n \/ k \notin subscribers

=============================================================================
