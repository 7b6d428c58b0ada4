----------------------------- MODULE EventFeed -----------------------------
(***************************************************************************)
(* What a page that follows a task may rely on: its event stream starts at *)
(* most History events in the past and then is the numbered log of the     *)
(* task's events, one after the other, none missing and none twice, until  *)
(* the stream closes.                                                      *)
(***************************************************************************)
EXTENDS Naturals

CONSTANTS Stream,   \* the connections pages make
          History   \* how far back a stream may start

VARIABLES clock,    \* number of events published so far
          open,     \* the streams that are open
          position  \* position[k]: number of the last event stream k was sent

vars == <<clock, open, position>>

Init == /\ clock = 0
        /\ open = {}
        /\ position = [k \in Stream |-> 0]

Publish == clock' = clock + 1 /\ UNCHANGED <<open, position>>

Open(k) == /\ k \notin open
           /\ open' = open \cup {k}
           /\ \E p \in 0..clock : /\ clock <= p + History
                                  /\ position' = [position EXCEPT ![k] = p]
           /\ UNCHANGED clock

Send(k) == /\ k \in open
           /\ position[k] < clock
           /\ position' = [position EXCEPT ![k] = @ + 1]
           /\ UNCHANGED <<clock, open>>

\* One stream closes, or all of them with the process.
Close == /\ \E closed \in SUBSET open : open' = open \ closed
         /\ UNCHANGED <<clock, position>>

Next == Publish \/ (\E k \in Stream : Open(k) \/ Send(k)) \/ Close

Spec == Init /\ [][Next]_vars
=============================================================================
