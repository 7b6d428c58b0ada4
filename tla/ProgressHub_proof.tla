-------------------------- MODULE ProgressHub_proof --------------------------
(***************************************************************************)
(* For any streams, any length of the history and any number of events:    *)
(* the hub implements the event feed, and the numbers on a stream rise.    *)
(***************************************************************************)
EXTENDS ProgressHub, TLAPS

\* The events of s are those after the n-th, one after the other.
Numbered(s, n) == \A i \in 1..Len(s) : s[i].at = n + i

\* The seqs of s rise from above low, and none is above high.
Rising(s, low, high) ==
  /\ \A i \in 1..Len(s) : low < s[i].seq /\ s[i].seq <= high
  /\ \A i, j \in 1..Len(s) : i < j => s[i].seq < s[j].seq

\* The history is the end of the log.
HistoryInv == /\ Len(history) <= clock
              /\ Numbered(history, clock - Len(history))
              /\ Rising(history, 0, seq)

\* A stream's snapshot and queue are a stretch of the log, which starts after
\* the last event sent, and which no publication can jump over as long as the
\* stream is registered.  The seqs of a stream that is not may be above the
\* hub's, which drop has reset, but nothing follows them.
Stretch(k) ==
  /\ Numbered(replay[k], position[k])
  /\ Numbered(queue[k], position[k] + Len(replay[k]))
  /\ position[k] + Len(replay[k]) + Len(queue[k]) <= clock
  /\ k \in subscribers => position[k] + Len(replay[k]) + Len(queue[k]) = clock

Seqs(k) ==
  \E high \in Nat :
    /\ seen[k] <= high
    /\ Rising(replay[k], seen[k], high) /\ Rising(queue[k], seen[k], high)
    /\ \A i \in 1..Len(replay[k]), j \in 1..Len(queue[k]) : replay[k][i].seq < queue[k][j].seq
    /\ k \in subscribers => high <= seq

IInv == TypeOK /\ HistoryInv /\ \A k \in open : Stretch(k) /\ Seqs(k)

-----------------------------------------------------------------------------
LEMMA InitInv == Init => IInv
BY HistoryAssumption, EventsAssumption
   DEF Init, IInv, TypeOK, HistoryInv, Stretch, Numbered, Rising, Event

\* An event appended to a sequence of events.
LEMMA Appended ==
  ASSUME NEW s \in Seq(Event), NEW e \in Event
  PROVE  /\ Append(s, e) \in Seq(Event)
         /\ Len(Append(s, e)) = Len(s) + 1
         /\ \A i \in 1..Len(s) : Append(s, e)[i] = s[i]
         /\ Append(s, e)[Len(s) + 1] = e
OBVIOUS

\* The first event taken from a sequence of events.
LEMMA Taken ==
  ASSUME NEW s \in Seq(Event), s # <<>>
  PROVE  /\ Head(s) \in Event /\ Head(s) = s[1]
         /\ Len(s) >= 1
         /\ Tail(s) \in Seq(Event)
         /\ Len(Tail(s)) = Len(s) - 1
         /\ \A i \in 1..Len(Tail(s)) : Tail(s)[i] = s[i + 1]
OBVIOUS

\* The two predicates when an event is appended or taken.
LEMMA NumberedAppended ==
  ASSUME NEW s \in Seq(Event), NEW e \in Event, NEW n \in Nat,
         Numbered(s, n), e.at = n + Len(s) + 1
  PROVE  Numbered(Append(s, e), n)
<1>. DEFINE t == Append(s, e)
<1>1. /\ Len(s) \in Nat /\ Len(t) = Len(s) + 1 /\ t[Len(s) + 1] = e
      /\ \A i \in 1..Len(s) : t[i] = s[i]
  BY Appended
<1>. HIDE DEF t
<1>2. ASSUME NEW i \in 1..Len(t) PROVE t[i].at = n + i
  <2>1. CASE i = Len(s) + 1
    BY <1>1, <2>1
  <2>2. CASE i \in 1..Len(s)
    BY <1>1, <2>2 DEF Numbered
  <2>. QED BY <1>1, <2>1, <2>2
<1>. QED BY <1>2 DEF Numbered, t

LEMMA NumberedTaken ==
  ASSUME NEW s \in Seq(Event), NEW n \in Nat, s # <<>>, Numbered(s, n)
  PROVE  Head(s).at = n + 1 /\ Numbered(Tail(s), n + 1)
<1>1. Head(s).at = n + 1
  BY Taken DEF Numbered
<1>. DEFINE t == Tail(s)
<1>2. /\ Len(s) \in Nat /\ Len(t) = Len(s) - 1
      /\ \A i \in 1..Len(t) : t[i] = s[i + 1]
  BY Taken
<1>. HIDE DEF t
<1>3. ASSUME NEW i \in 1..Len(t) PROVE t[i].at = n + 1 + i
  <2>1. i + 1 \in 1..Len(s)
    BY <1>2
  <2>. QED BY <1>2, <2>1 DEF Numbered
<1>. QED BY <1>1, <1>3 DEF Numbered, t

LEMMA RisingAppended ==
  ASSUME NEW s \in Seq(Event), NEW e \in Event, NEW low \in Nat, NEW high \in Nat,
         Rising(s, low, high), low <= high, high < e.seq
  PROVE  Rising(Append(s, e), low, e.seq)
<1>. DEFINE t == Append(s, e)
<1>1. /\ Len(s) \in Nat /\ Len(t) = Len(s) + 1 /\ t[Len(s) + 1] = e
      /\ \A i \in 1..Len(s) : t[i] = s[i] /\ s[i] \in Event
  BY Appended
<1>. HIDE DEF t
<1>2. \A i \in 1..Len(t) : i \in 1..Len(s) \/ i = Len(s) + 1
  BY <1>1
<1>3. ASSUME NEW i \in 1..Len(s)
      PROVE  low < t[i].seq /\ t[i].seq <= high /\ t[i].seq < e.seq
  <2>1. t[i] = s[i] /\ s[i].seq \in Nat /\ e.seq \in Nat
    BY <1>1 DEF Event
  <2>2. low < s[i].seq /\ s[i].seq <= high
    BY DEF Rising
  <2>. QED BY <2>1, <2>2
<1>4. ASSUME NEW i \in 1..Len(t) PROVE low < t[i].seq /\ t[i].seq <= e.seq
  <2>1. CASE i = Len(s) + 1
    BY <1>1, <2>1 DEF Event
  <2>2. CASE i \in 1..Len(s)
    BY <1>1, <1>3, <2>2 DEF Event
  <2>. QED BY <1>2, <2>1, <2>2
<1>5. ASSUME NEW i \in 1..Len(t), NEW j \in 1..Len(t), i < j PROVE t[i].seq < t[j].seq
  <2>0. i \in 1..Len(s)
    BY <1>1, <1>5
  <2>1. CASE j = Len(s) + 1
    BY <1>1, <1>3, <2>0, <2>1
  <2>2. CASE j \in 1..Len(s)
    BY <1>1, <1>5, <2>0, <2>2 DEF Rising
  <2>. QED BY <1>2, <2>1, <2>2
<1>. QED BY <1>4, <1>5 DEF Rising, t

LEMMA RisingTaken ==
  ASSUME NEW s \in Seq(Event), NEW low \in Nat, NEW high \in Nat,
         s # <<>>, Rising(s, low, high)
  PROVE  /\ low < Head(s).seq /\ Head(s).seq <= high
         /\ Rising(Tail(s), Head(s).seq, high)
<1>1. low < Head(s).seq /\ Head(s).seq <= high
  BY Taken DEF Rising
<1>. DEFINE t == Tail(s)
<1>2. /\ Len(s) \in Nat /\ Len(t) = Len(s) - 1 /\ Head(s) = s[1] /\ 1 \in 1..Len(s)
      /\ \A i \in 1..Len(t) : t[i] = s[i + 1]
  BY Taken
<1>. HIDE DEF t
<1>3. \A i \in 1..Len(t) : i + 1 \in 1..Len(s) /\ 1 < i + 1
  BY <1>2
<1>4. \A i \in 1..Len(t) : Head(s).seq < t[i].seq /\ t[i].seq <= high
  BY <1>2, <1>3 DEF Rising
<1>5. \A i, j \in 1..Len(t) : i < j => t[i].seq < t[j].seq
  BY <1>2, <1>3 DEF Rising
<1>. QED BY <1>1, <1>4, <1>5 DEF Rising, t

LEMMA RisingBelow ==
  ASSUME NEW s \in Seq(Event), NEW low \in Nat, NEW high \in Nat, NEW higher \in Nat,
         Rising(s, low, high), high <= higher
  PROVE  Rising(s, low, higher)
<1>1. \A i \in 1..Len(s) : s[i] \in Event
  OBVIOUS
<1>. QED BY <1>1 DEF Rising, Event

LEMMA CurrentEvent == TypeOK => Current \in Event /\ seq \in Nat /\ clock \in Nat
BY EventsAssumption DEF TypeOK, Current, Event

\* What the history keeps is the end of the old one and the new event.
LEMMA RecordedEnd ==
  ASSUME TypeOK
  PROVE  /\ Recorded \in Seq(Event) /\ Len(Recorded) <= MaxHistory
         /\ \E d \in {0, 1} :
              /\ Len(Recorded) = Len(history) + 1 - d
              /\ \A i \in 1..Len(Recorded) : Recorded[i] = Append(history, Current)[i + d]
<1>. DEFINE all == Append(history, Current)
<1>1. /\ all \in Seq(Event) /\ Len(all) = Len(history) + 1
      /\ Len(history) \in Nat /\ Len(history) <= MaxHistory
  BY CurrentEvent, Appended DEF TypeOK
<1>2. CASE Len(all) > MaxHistory
  <2>1. Len(all) = MaxHistory + 1 /\ Recorded = SubSeq(all, 2, Len(all))
    BY <1>1, <1>2, HistoryAssumption DEF Recorded
  <2>. HIDE DEF all
  <2>2. /\ Recorded \in Seq(Event) /\ Len(Recorded) = Len(all) - 1
        /\ \A i \in 1..Len(Recorded) : Recorded[i] = all[i + 1]
    BY <1>1, <2>1, HistoryAssumption
  <2>. QED BY <1>1, <2>1, <2>2 DEF all
<1>3. CASE ~(Len(all) > MaxHistory)
  <2>1. Recorded = all
    BY <1>3 DEF Recorded
  <2>. HIDE DEF all
  <2>2. \A i \in 1..Len(Recorded) : Recorded[i] = all[i + 0]
    BY <1>1, <2>1
  <2>. QED BY <1>1, <1>3, <2>1, <2>2, HistoryAssumption DEF all
<1>. QED BY <1>2, <1>3

-----------------------------------------------------------------------------
LEMMA PublishInv == IInv /\ Publish => IInv'
<1>. SUFFICES ASSUME IInv, Publish PROVE IInv'
  OBVIOUS
<1>. USE DEF IInv
<1>1. TypeOK'
  <2>1. \A k \in Stream : queue'[k] \in Seq(Event)
    BY CurrentEvent, Appended DEF Publish, TypeOK
  <2>. QED BY <2>1, RecordedEnd, EventsAssumption DEF Publish, TypeOK
<1>2. HistoryInv'
  <2>. DEFINE all == Append(history, Current)
  <2>1. /\ Len(all) = Len(history) + 1 /\ Len(history) \in Nat
        /\ \A i \in 1..Len(history) : all[i] = history[i] /\ history[i] \in Event
        /\ all[Len(history) + 1] = Current
    BY CurrentEvent, Appended DEF TypeOK
  <2>2. /\ Numbered(all, clock - Len(history))
        /\ Rising(all, 0, seq + 1)
    <3>1. /\ Current \in Event /\ Current.seq = seq + 1 /\ Current.at = clock + 1
          /\ seq \in Nat /\ clock - Len(history) \in Nat
          /\ Current.at = (clock - Len(history)) + Len(history) + 1
          /\ history \in Seq(Event) /\ seq < Current.seq /\ 0 <= seq
      BY <2>1, CurrentEvent DEF Current, TypeOK, HistoryInv
    <3>2. Numbered(all, clock - Len(history))
      BY <3>1, NumberedAppended DEF HistoryInv
    <3>3. Rising(all, 0, Current.seq)
      BY <3>1, RisingAppended DEF HistoryInv
    <3>. QED BY <3>1, <3>2, <3>3
  <2>3. PICK d \in {0, 1} :
          /\ Len(Recorded) = Len(history) + 1 - d
          /\ \A i \in 1..Len(Recorded) : Recorded[i] = all[i + d]
    BY RecordedEnd
  <2>. HIDE DEF all
  <2>4. Numbered(Recorded, clock + 1 - Len(Recorded))
    BY <2>1, <2>2, <2>3, CurrentEvent DEF Numbered
  <2>5. Rising(Recorded, 0, seq + 1)
    BY <2>1, <2>2, <2>3 DEF Rising
  <2>. QED BY <2>1, <2>3, <2>4, <2>5, CurrentEvent DEF Publish, HistoryInv
<1>3. ASSUME NEW k \in open' PROVE Stretch(k)' /\ Seqs(k)'
  <2>0. k \in open /\ k \in Stream
    BY <1>3 DEF Publish, TypeOK
  <2>1. CASE k \notin subscribers
    <3>1. queue'[k] = queue[k]
      BY <2>0, <2>1 DEF Publish
    <3>2. /\ clock \in Nat /\ position[k] \in Nat
          /\ Len(replay[k]) \in Nat /\ Len(queue[k]) \in Nat
      BY <2>0, CurrentEvent DEF TypeOK
    <3>3. UNCHANGED <<position, seen, replay, subscribers>> /\ clock' = clock + 1
      BY DEF Publish
    <3>4. Stretch(k)'
      <4>1. /\ Numbered(replay[k], position[k])
            /\ Numbered(queue[k], position[k] + Len(replay[k]))
            /\ position[k] + Len(replay[k]) + Len(queue[k]) <= clock
        BY <2>0 DEF Stretch
      <4>2. position[k] + Len(replay[k]) + Len(queue[k]) <= clock + 1
        BY <3>2, <4>1
      <4>. QED BY <2>1, <3>1, <3>3, <4>1, <4>2 DEF Stretch
    <3>5. Seqs(k)'
      BY <2>0, <2>1, <3>1, <3>3 DEF Seqs
    <3>. QED BY <3>4, <3>5
  <2>2. CASE k \in subscribers
    <3>1. /\ queue'[k] = Append(queue[k], Current)
          /\ queue[k] \in Seq(Event) /\ replay[k] \in Seq(Event)
          /\ position[k] \in Nat /\ seen[k] \in Nat
      BY <2>0, <2>2, CurrentEvent DEF Publish, TypeOK
    <3>2. /\ Len(queue'[k]) = Len(queue[k]) + 1 /\ Len(queue[k]) \in Nat
          /\ Len(replay[k]) \in Nat
          /\ \A i \in 1..Len(queue[k]) : queue'[k][i] = queue[k][i] /\ queue[k][i] \in Event
          /\ \A i \in 1..Len(replay[k]) : replay[k][i] \in Event
          /\ queue'[k][Len(queue[k]) + 1] = Current
      BY <3>1, CurrentEvent, Appended
    <3>3. Stretch(k)'
      <4>1. Current \in Event /\ clock \in Nat
            /\ Current.at = (position[k] + Len(replay[k])) + Len(queue[k]) + 1
        BY <2>0, <2>2, <3>1, <3>2, CurrentEvent DEF Stretch, Current
      <4>2. Numbered(Append(queue[k], Current), position[k] + Len(replay[k]))
        BY <2>0, <3>1, <3>2, <4>1, NumberedAppended DEF Stretch
      <4>3. UNCHANGED <<position, replay, subscribers>> /\ clock' = clock + 1
        BY DEF Publish
      <4>4. Numbered(queue'[k], position'[k] + Len(replay'[k]))
        BY <3>1, <4>2, <4>3
      <4>5. Numbered(replay'[k], position'[k])
        BY <2>0, <4>3 DEF Stretch
      <4>6. position'[k] + Len(replay'[k]) + Len(queue'[k]) = clock'
        <5>1. position[k] + Len(replay[k]) + Len(queue[k]) = clock
          BY <2>0, <2>2 DEF Stretch
        <5>2. /\ Len(queue'[k]) = Len(queue[k]) + 1
              /\ Len(queue[k]) \in Nat /\ Len(replay[k]) \in Nat /\ position[k] \in Nat
          BY <3>1, <3>2
        <5>. QED BY <4>1, <4>3, <5>1, <5>2
      <4>7. position'[k] + Len(replay'[k]) + Len(queue'[k]) <= clock'
        BY <4>1, <4>3, <4>6
      <4>. QED BY <4>4, <4>5, <4>6, <4>7 DEF Stretch
    <3>4. Seqs(k)'
      <4>1. PICK high \in Nat :
              /\ seen[k] <= high
              /\ Rising(replay[k], seen[k], high) /\ Rising(queue[k], seen[k], high)
              /\ \A i \in 1..Len(replay[k]), j \in 1..Len(queue[k]) :
                   replay[k][i].seq < queue[k][j].seq
              /\ high <= seq
        BY <2>0, <2>2 DEF Seqs
      <4>2. /\ Current \in Event /\ Current.seq = seq + 1 /\ seq \in Nat
            /\ high < Current.seq /\ high <= seq + 1 /\ seq + 1 \in Nat
        BY CurrentEvent, <4>1 DEF Current
      <4>3. Rising(replay[k], seen[k], seq + 1)
        BY <3>1, <4>1, <4>2, RisingBelow
      <4>4. Rising(Append(queue[k], Current), seen[k], Current.seq)
        BY <3>1, <4>1, <4>2, RisingAppended
      <4>5. ASSUME NEW i \in 1..Len(replay[k]), NEW j \in 1..Len(queue'[k])
            PROVE  replay[k][i].seq < queue'[k][j].seq
        <5>1. CASE j \in 1..Len(queue[k])
          BY <3>2, <4>1, <5>1
        <5>2. CASE j = Len(queue[k]) + 1
          BY <3>2, <4>1, <4>2, <5>2 DEF Rising, Event
        <5>. QED BY <3>2, <5>1, <5>2
      <4>6. UNCHANGED <<seen, replay, subscribers>> /\ seq' = seq + 1
        BY DEF Publish
      <4>7. \A i \in 1..Len(replay[k]), j \in 1..Len(queue'[k]) :
              replay[k][i].seq < queue'[k][j].seq
        BY <4>5
      <4>8. seen[k] <= seq + 1
        BY <3>1, <4>1, <4>2
      <4>9. /\ seq + 1 \in Nat /\ seen'[k] <= seq + 1 /\ seq + 1 <= seq'
            /\ Rising(replay'[k], seen'[k], seq + 1) /\ Rising(queue'[k], seen'[k], seq + 1)
            /\ \A i \in 1..Len(replay'[k]), j \in 1..Len(queue'[k]) :
                 replay'[k][i].seq < queue'[k][j].seq
        BY <3>1, <4>2, <4>3, <4>4, <4>6, <4>7, <4>8
      <4>. QED BY <4>9 DEF Seqs
    <3>. QED BY <3>3, <3>4
  <2>. QED BY <2>1, <2>2
<1>. QED BY <1>1, <1>2, <1>3

LEMMA SubscribeInv == ASSUME NEW k \in Stream PROVE IInv /\ Subscribe(k) => IInv'
<1>. SUFFICES ASSUME IInv, Subscribe(k) PROVE IInv'
  OBVIOUS
<1>. USE DEF IInv
<1>1. /\ clock \in Nat /\ seq \in Nat /\ Len(history) \in Nat
      /\ \A i \in 1..Len(history) : history[i] \in Event
  BY CurrentEvent DEF TypeOK
<1>2. position'[k] = clock - Len(history) /\ position'[k] \in 0..clock
  <2>1. position'[k] = IF history = <<>> THEN clock ELSE history[1].at - 1
    BY DEF Subscribe, TypeOK
  <2>2. history # <<>> => history[1].at = clock - Len(history) + 1
    BY <1>1 DEF HistoryInv, Numbered, TypeOK
  <2>3. history = <<>> => Len(history) = 0
    OBVIOUS
  <2>. QED BY <1>1, <2>1, <2>2, <2>3 DEF HistoryInv
<1>3. TypeOK'
  BY <1>2 DEF Subscribe, TypeOK
<1>4. HistoryInv'
  BY DEF Subscribe, HistoryInv
<1>5. ASSUME NEW l \in open' PROVE Stretch(l)' /\ Seqs(l)'
  <2>1. CASE l = k
    <3>1. replay'[k] = history /\ queue'[k] = <<>> /\ seen'[k] = 0
      BY DEF Subscribe, TypeOK
    <3>2. Stretch(k)'
      <4>1. UNCHANGED <<clock, history>> /\ Len(queue'[k]) = 0 /\ Len(replay'[k]) = Len(history)
        BY <3>1 DEF Subscribe
      <4>2. Numbered(replay'[k], position'[k])
        BY <1>2, <3>1 DEF HistoryInv
      <4>3. Numbered(queue'[k], position'[k] + Len(replay'[k]))
        BY <4>1 DEF Numbered
      <4>. QED BY <1>1, <1>2, <4>1, <4>2, <4>3 DEF Stretch
    <3>3. Seqs(k)'
      BY <1>1, <3>1 DEF Subscribe, Seqs, HistoryInv, Rising
    <3>. QED BY <2>1, <3>2, <3>3
  <2>2. CASE l # k
    BY <2>2 DEF Subscribe, Stretch, Seqs, TypeOK
  <2>. QED BY <2>1, <2>2
<1>. QED BY <1>3, <1>4, <1>5

\* What event_gen takes next, from the snapshot or from the queue.
LEMMA SendInv ==
  ASSUME NEW k \in Stream, IInv, Replay(k) \/ Relay(k)
  PROVE  /\ IInv'
         /\ position'[k] = position[k] + 1 /\ position[k] < clock
         /\ seen'[k] > seen[k]
<1>. USE DEF IInv
<1>1. /\ k \in open /\ clock \in Nat /\ position[k] \in Nat /\ seen[k] \in Nat
      /\ replay[k] \in Seq(Event) /\ queue[k] \in Seq(Event)
      /\ Len(replay[k]) \in Nat /\ Len(queue[k]) \in Nat
      /\ \A i \in 1..Len(replay[k]) : replay[k][i] \in Event
      /\ \A i \in 1..Len(queue[k]) : queue[k][i] \in Event
  BY CurrentEvent DEF TypeOK, Replay, Relay
<1>2. PICK high \in Nat :
        /\ seen[k] <= high
        /\ Rising(replay[k], seen[k], high) /\ Rising(queue[k], seen[k], high)
        /\ \A i \in 1..Len(replay[k]), j \in 1..Len(queue[k]) : replay[k][i].seq < queue[k][j].seq
        /\ k \in subscribers => high <= seq
  BY <1>1 DEF Seqs
<1>3. /\ UNCHANGED <<hub, open, clock>>
      /\ \A l \in Stream \ {k} : /\ replay'[l] = replay[l] /\ queue'[l] = queue[l]
                                 /\ position'[l] = position[l] /\ seen'[l] = seen[l]
  BY DEF Replay, Relay, Sent, TypeOK
<1>4. ASSUME NEW l \in open', l # k PROVE Stretch(l)' /\ Seqs(l)'
  BY <1>3, <1>4 DEF Stretch, Seqs, hub, TypeOK
<1>5. HistoryInv'
  BY <1>3 DEF HistoryInv, hub
<1>6. CASE Replay(k)
  <2>1. /\ replay[k] # <<>> /\ replay'[k] = Tail(replay[k]) /\ queue'[k] = queue[k]
        /\ position'[k] = Head(replay[k]).at /\ seen'[k] = Head(replay[k]).seq
    BY <1>6 DEF Replay, Sent, TypeOK
  <2>2. /\ Head(replay[k]) = replay[k][1] /\ replay[k][1] \in Event /\ Len(replay[k]) >= 1
        /\ Len(replay'[k]) = Len(replay[k]) - 1 /\ replay'[k] \in Seq(Event)
        /\ \A i \in 1..Len(replay'[k]) : replay'[k][i] = replay[k][i + 1]
    BY <1>1, <2>1, Taken
  <2>3. /\ position'[k] = position[k] + 1 /\ position[k] < clock
        /\ seen'[k] > seen[k] /\ seen'[k] <= high /\ seen'[k] \in Nat
    BY <1>1, <1>2, <2>1, <2>2 DEF Stretch, Numbered, Rising, Event
  <2>4. TypeOK'
    BY <1>1, <1>3, <1>6, <2>1, <2>2, <2>3 DEF TypeOK, hub, Replay, Sent
  <2>5. Stretch(k)'
    <3>1. Numbered(replay'[k], position'[k])
      BY <1>1, <2>1, <2>3, NumberedTaken DEF Stretch
    <3>2. position'[k] + Len(replay'[k]) = position[k] + Len(replay[k])
      <4>1. Len(replay'[k]) = Len(replay[k]) - 1 /\ position'[k] = position[k] + 1
        BY <2>2, <2>3
      <4>2. Len(replay[k]) \in Nat /\ position[k] \in Nat
        BY <1>1
      <4>. QED BY <4>1, <4>2
    <3>3. UNCHANGED <<clock, subscribers>> /\ queue'[k] = queue[k]
      BY <1>3, <2>1 DEF hub
    <3>4. Numbered(queue'[k], position'[k] + Len(replay'[k]))
      BY <1>1, <3>2, <3>3 DEF Stretch
    <3>5. /\ position'[k] + Len(replay'[k]) + Len(queue'[k]) <= clock'
          /\ k \in subscribers' => position'[k] + Len(replay'[k]) + Len(queue'[k]) = clock'
      BY <1>1, <3>2, <3>3 DEF Stretch
    <3>. QED BY <3>1, <3>4, <3>5 DEF Stretch
  <2>6. Seqs(k)'
    <3>1. Rising(replay'[k], seen'[k], high)
      BY <1>1, <1>2, <2>1, RisingTaken
    <3>2. Rising(queue'[k], seen'[k], high)
      BY <1>1, <1>2, <2>1, <2>2, <2>3 DEF Rising, Event
    <3>3. \A i \in 1..Len(replay'[k]), j \in 1..Len(queue'[k]) :
            replay'[k][i].seq < queue'[k][j].seq
      BY <1>1, <1>2, <2>1, <2>2
    <3>. QED BY <1>2, <1>3, <2>3, <3>1, <3>2, <3>3 DEF Seqs, hub
  <2>. QED BY <1>4, <1>5, <2>3, <2>4, <2>5, <2>6
<1>7. CASE Relay(k)
  <2>1. /\ replay[k] = <<>> /\ replay'[k] = <<>>
        /\ queue[k] # <<>> /\ queue'[k] = Tail(queue[k])
        /\ position'[k] = Head(queue[k]).at /\ seen'[k] = Head(queue[k]).seq
    BY <1>7 DEF Relay, Sent, TypeOK
  <2>2. /\ Head(queue[k]) = queue[k][1] /\ queue[k][1] \in Event /\ Len(queue[k]) >= 1
        /\ Len(queue'[k]) = Len(queue[k]) - 1 /\ queue'[k] \in Seq(Event)
        /\ \A i \in 1..Len(queue'[k]) : queue'[k][i] = queue[k][i + 1]
        /\ Len(replay[k]) = 0 /\ Len(replay'[k]) = 0
    BY <1>1, <2>1, Taken
  <2>3. /\ position'[k] = position[k] + 1 /\ position[k] < clock
        /\ seen'[k] > seen[k] /\ seen'[k] <= high /\ seen'[k] \in Nat
    BY <1>1, <1>2, <2>1, <2>2 DEF Stretch, Numbered, Rising, Event
  <2>4. TypeOK'
    BY <1>1, <1>3, <1>7, <2>1, <2>2, <2>3 DEF TypeOK, hub, Relay, Sent
  <2>5. Stretch(k)'
    <3>1. Numbered(queue[k], position[k])
      BY <1>1, <2>2 DEF Stretch
    <3>2. Numbered(queue'[k], position'[k])
      BY <1>1, <2>1, <2>3, <3>1, NumberedTaken
    <3>3. position'[k] + Len(replay'[k]) = position'[k]
      <4>1. position'[k] \in Nat /\ Len(replay'[k]) = 0
        BY <1>1, <2>2, <2>3
      <4>. QED BY <4>1
    <3>4. Numbered(queue'[k], position'[k] + Len(replay'[k]))
      BY <3>2, <3>3
    <3>5. Numbered(replay'[k], position'[k])
      BY <2>2 DEF Numbered
    <3>6. UNCHANGED <<clock, subscribers>>
      BY <1>3 DEF hub
    <3>7. /\ position'[k] + Len(replay'[k]) + Len(queue'[k]) <= clock'
          /\ k \in subscribers' => position'[k] + Len(replay'[k]) + Len(queue'[k]) = clock'
      <4>1. /\ Len(queue'[k]) = Len(queue[k]) - 1 /\ position'[k] = position[k] + 1
            /\ Len(replay[k]) = 0
        BY <2>2, <2>3
      <4>2. Len(queue[k]) \in Nat /\ position[k] \in Nat /\ k \in open
        BY <1>1
      <4>3. position'[k] + Len(replay'[k]) + Len(queue'[k]) = position[k] + Len(replay[k]) + Len(queue[k])
        <5>1. position'[k] + Len(replay'[k]) = position[k] + 1
          BY <3>3, <4>1
        <5>2. (position[k] + 1) + (Len(queue[k]) - 1) = position[k] + 0 + Len(queue[k])
          BY <4>2
        <5>. QED BY <4>1, <5>1, <5>2
      <4>. QED BY <3>6, <4>2, <4>3 DEF Stretch
    <3>. QED BY <3>4, <3>5, <3>7 DEF Stretch
  <2>6. Seqs(k)'
    <3>1. Rising(queue'[k], seen'[k], high)
      BY <1>1, <1>2, <2>1, RisingTaken
    <3>2. Rising(replay'[k], seen'[k], high)
      BY <2>2 DEF Rising
    <3>. QED BY <1>2, <1>3, <2>2, <2>3, <3>1, <3>2 DEF Seqs, hub
  <2>. QED BY <1>4, <1>5, <2>3, <2>4, <2>5, <2>6
<1>. QED BY <1>6, <1>7

LEMMA DisconnectInv == ASSUME NEW k \in Stream PROVE IInv /\ Disconnect(k) => IInv'
BY DEF Disconnect, IInv, TypeOK, HistoryInv, Stretch, Seqs, ghost

LEMMA DropInv == IInv /\ Drop => IInv'
<1>. SUFFICES ASSUME IInv, Drop PROVE IInv'
  OBVIOUS
<1>1. TypeOK'
  BY CurrentEvent, HistoryAssumption DEF IInv, TypeOK, Drop, stream, ghost
<1>2. HistoryInv'
  BY CurrentEvent DEF IInv, HistoryInv, Numbered, Rising, Drop, ghost
<1>3. ASSUME NEW k \in open' PROVE Stretch(k)' /\ Seqs(k)'
  BY <1>3 DEF IInv, Stretch, Seqs, Drop, stream, ghost
<1>. QED BY <1>1, <1>2, <1>3 DEF IInv

LEMMA RestartInv == IInv /\ Restart => IInv'
<1>. SUFFICES ASSUME IInv, Restart PROVE IInv'
  OBVIOUS
<1>1. TypeOK'
  BY CurrentEvent, HistoryAssumption DEF IInv, TypeOK, Restart, ghost
<1>2. HistoryInv'
  BY CurrentEvent DEF IInv, HistoryInv, Numbered, Rising, Restart, ghost
<1>. QED BY <1>1, <1>2 DEF IInv, Restart

LEMMA NextInv == IInv /\ [Next]_vars => IInv'
<1>. SUFFICES ASSUME IInv, [Next]_vars PROVE IInv'
  OBVIOUS
<1>1. CASE UNCHANGED vars
  BY <1>1 DEF vars, hub, stream, ghost, IInv, TypeOK, HistoryInv, Stretch, Seqs
<1>. QED BY <1>1, PublishInv, SubscribeInv, SendInv, DisconnectInv, DropInv, RestartInv DEF Next

LEMMA InductiveInvariant == Spec => []IInv
BY InitInv, NextInv, PTL DEF Spec

-----------------------------------------------------------------------------
\* The history never outgrows its limit, and the registered queues are those of
\* open streams.
THEOREM TypeCorrect == Spec => []TypeOK
BY InductiveInvariant, PTL DEF IInv

\* Whatever is retried, deleted or restarted, the seqs on one stream rise.
THEOREM SeqsRise == Spec => SeqRises
<1>1. ASSUME IInv, [Next]_vars
      PROVE  [\A k \in open : position'[k] > position[k] /\ k \in open'
                              => seen'[k] > seen[k]]_vars
  <2>1. ASSUME NEW k \in open, position'[k] > position[k] PROVE seen'[k] > seen[k]
    <3>1. k \in Stream /\ position[k] \in Nat
      BY <1>1, CurrentEvent DEF IInv, TypeOK
    <3>2. CASE Publish \/ Drop \/ Restart \/ UNCHANGED vars \/ \E l \in Stream : Disconnect(l)
      BY <2>1, <3>1, <3>2 DEF Publish, Drop, Restart, Disconnect, vars, ghost
    <3>3. ASSUME NEW l \in Stream, Subscribe(l) PROVE seen'[k] > seen[k]
      BY <2>1, <3>1, <3>3 DEF Subscribe, IInv, TypeOK
    <3>4. ASSUME NEW l \in Stream, Replay(l) \/ Relay(l) PROVE seen'[k] > seen[k]
      <4>1. CASE l = k
        BY <1>1, <3>4, <4>1, SendInv
      <4>2. CASE l # k
        BY <1>1, <2>1, <3>1, <3>4, <4>2 DEF Replay, Relay, Sent, IInv, TypeOK
      <4>. QED BY <4>1, <4>2
    <3>. QED BY <1>1, <3>2, <3>3, <3>4 DEF Next
  <2>. QED BY <2>1
<1>. QED BY <1>1, InductiveInvariant, PTL DEF Spec, SeqRises

\* The hub implements the event feed: what a stream sends is the log of the
\* task's events without gaps or repetitions, whoever else comes and goes.
THEOREM HubImplementsFeed == Spec => FeedSpec
<1>1. Init => Feed!Init
  BY DEF Init, Feed!Init
<1>2. ASSUME IInv, [Next]_vars PROVE [Feed!Next]_Feed!vars
  <2>1. CASE Publish
    BY <2>1 DEF Publish, Feed!Next, Feed!Publish
  <2>2. ASSUME NEW k \in Stream, Subscribe(k) PROVE Feed!Open(k)
    <3>1. /\ clock \in Nat /\ Len(history) \in Nat /\ Len(history) <= clock
          /\ Len(history) <= MaxHistory
          /\ \A i \in 1..Len(history) : history[i] \in Event
      BY <1>2, CurrentEvent DEF IInv, TypeOK, HistoryInv
    <3>. DEFINE p == clock - Len(history)
    <3>2. position' = [position EXCEPT ![k] = p]
      <4>1. history # <<>> => history[1].at = clock - Len(history) + 1
        BY <1>2, <3>1 DEF IInv, HistoryInv, Numbered, TypeOK
      <4>2. history = <<>> => Len(history) = 0
        OBVIOUS
      <4>3. p = IF history = <<>> THEN clock ELSE history[1].at - 1
        BY <3>1, <4>1, <4>2
      <4>. QED BY <2>2, <4>3 DEF Subscribe
    <3>3. p \in 0..clock /\ clock <= p + MaxHistory
      BY <3>1, HistoryAssumption
    <3>. QED BY <2>2, <3>2, <3>3 DEF Subscribe, Feed!Open
  <2>3. ASSUME NEW k \in Stream, Replay(k) \/ Relay(k) PROVE Feed!Send(k)
    <3>1. position'[k] = position[k] + 1 /\ position[k] < clock
      BY <1>2, <2>3, SendInv
    <3>2. position' = [position EXCEPT ![k] = position[k] + 1]
      BY <1>2, <2>3, <3>1 DEF Replay, Relay, Sent, IInv, TypeOK
    <3>. QED BY <2>3, <3>1, <3>2 DEF Replay, Relay, Sent, Feed!Send
  <2>4. ASSUME NEW k \in Stream, Disconnect(k) PROVE Feed!Close
    BY <2>4 DEF Disconnect, Feed!Close, ghost
  <2>5. CASE Drop
    BY <2>5 DEF Drop, stream, ghost, Feed!vars
  <2>6. CASE Restart
    BY <2>6 DEF Restart, ghost, Feed!Close, Feed!Next
  <2>7. CASE UNCHANGED vars
    BY <2>7 DEF vars, stream, ghost, Feed!vars
  <2>. QED BY <1>2, <2>1, <2>2, <2>3, <2>4, <2>5, <2>6, <2>7 DEF Next, Feed!Next
<1>. QED BY <1>1, <1>2, InductiveInvariant, PTL DEF Spec, FeedSpec, Feed!Spec
=============================================================================
