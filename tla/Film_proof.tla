----------------------------- MODULE Film_proof -----------------------------
(***************************************************************************)
(* Proofs about Film, for any number of tasks, segments, processes,        *)
(* orphaned servers, attempts and requests: the calls in the queues are    *)
(* those their coroutines wait for, and of the work no other server met, a *)
(* video that is given its address is whole and a film shows its own clips.*)
(***************************************************************************)
EXTENDS Film, NaturalsInduction, WellFoundedInduction, SequenceTheorems, TLAPS

-----------------------------------------------------------------------------
(***************************************************************************)
(* What a composition collects.                                            *)
(***************************************************************************)
Increasing(s) == \A i, j \in DOMAIN s : j < i => s[j] < s[i]

LEMMA Least ==
  ASSUME NEW T \in SUBSET Nat, T # {}
  PROVE  \E m \in T : \A j \in T : m <= j
<1>1. \E m \in T : \A j \in T : <<j, m>> \notin OpToRel(<, Nat)
  BY NatLessThanWellFounded, WFMin
<1>2. PICK m \in T : \A j \in T : <<j, m>> \notin OpToRel(<, Nat)
  BY <1>1
<1>3. \A j \in T : ~(j < m)
  BY <1>2 DEF OpToRel
<1> QED BY <1>3

Collects(u, b, N) == u = [i \in 0..N |-> IF i = 0 THEN <<>>
                                         ELSE IF i \in b THEN Append(u[i - 1], i)
                                         ELSE u[i - 1]]

LEMMA CollectsAt ==
  ASSUME NEW b, NEW N \in Nat, NEW u, Collects(u, b, N)
  PROVE  /\ u[0] = <<>>
         /\ \A i \in 1..N : u[i] = IF i \in b THEN Append(u[i - 1], i) ELSE u[i - 1]
<1> DEFINE h(i) == IF i = 0 THEN <<>> ELSE IF i \in b THEN Append(u[i - 1], i) ELSE u[i - 1]
<1>1. u = [i \in 0..N |-> h(i)]
  BY DEF Collects
<1>2. \A i \in 0..N : u[i] = h(i)
  <2> HIDE DEF h
  <2> QED BY <1>1
<1>3. u[0] = h(0) /\ \A i \in 1..N : u[i] = h(i) /\ i # 0
  BY <1>2
<1> QED BY <1>3

LEMMA CollectsExists ==
  ASSUME NEW b, NEW N \in Nat
  PROVE  \E u : Collects(u, b, N)
<1> DEFINE T == {m \in Nat : ~\E u : Collects(u, b, m)}
<1> SUFFICES ASSUME T # {} PROVE FALSE
  OBVIOUS
<1>1. PICK m \in T : \A j \in T : m <= j
  BY Least
<1>2. m # 0
  <2>1. Collects([i \in 0..0 |-> <<>>], b, 0)
    BY DEF Collects
  <2> QED BY <1>1, <2>1
<1>3. m - 1 \in Nat /\ m - 1 \notin T
  BY <1>1, <1>2
<1>4. PICK u : Collects(u, b, m - 1)
  BY <1>3
<1> DEFINE last == IF m \in b THEN Append(u[m - 1], m) ELSE u[m - 1]
           w == [i \in 0..m |-> IF i = m THEN last ELSE u[i]]
<1>5. u[0] = <<>> /\ \A i \in 1..(m - 1) : u[i] = IF i \in b THEN Append(u[i - 1], i) ELSE u[i - 1]
  BY <1>3, <1>4, CollectsAt
<1>6. \A i \in 0..m : w[i] = IF i = 0 THEN <<>> ELSE IF i \in b THEN Append(w[i - 1], i) ELSE w[i - 1]
  <2> TAKE i \in 0..m
  <2>1. CASE i = 0
    BY <1>2, <1>3, <1>5, <2>1
  <2>2. CASE i = m
    <3>1. w[m] = last /\ w[m - 1] = u[m - 1]
      BY <1>2, <1>3
    <3> QED BY <1>2, <2>2, <3>1
  <2>3. CASE i \in 1..(m - 1)
    <3>1. w[i] = u[i] /\ w[i - 1] = u[i - 1]
      BY <1>3, <2>3
    <3> QED BY <1>5, <2>3, <3>1
  <2> QED BY <1>3, <2>1, <2>2, <2>3
<1>7. w = [i \in 0..m |-> w[i]]
  OBVIOUS
<1> HIDE DEF w
<1>8. Collects(w, b, m)
  BY <1>6, <1>7 DEF Collects
<1> QED BY <1>1, <1>8

\* The collected segments are in order, each at most once.
LEMMA CollectedInOrder ==
  ASSUME NEW b, NEW N \in Nat, NEW u, Collects(u, b, N)
  PROVE  u[N] \in Seq(1..N) /\ Increasing(u[N]) /\ Len(u[N]) <= N
<1>2. /\ u[0] = <<>>
      /\ \A i \in 1..N : u[i] = IF i \in b THEN Append(u[i - 1], i) ELSE u[i - 1]
  BY CollectsAt
<1> DEFINE Fine(i) == u[i] \in Seq(1..i) /\ Increasing(u[i]) /\ Len(u[i]) <= i
           T == {i \in Nat : i <= N /\ ~Fine(i)}
<1> SUFFICES ASSUME T # {} PROVE FALSE
  OBVIOUS
<1>1. PICK m \in T : \A j \in T : m <= j
  BY Least
<1>3. m # 0
  <2>1. u[0] \in Seq(1..0) /\ Len(u[0]) <= 0 /\ DOMAIN u[0] = {}
    BY <1>2
  <2>2. Fine(0)
    BY <2>1 DEF Increasing
  <2> QED BY <1>1, <2>2
<1>4. m - 1 \in Nat /\ m - 1 \notin T /\ m \in 1..N
  BY <1>1, <1>3
<1> DEFINE v == u[m - 1]
<1>5. v \in Seq(1..(m - 1)) /\ Increasing(v) /\ Len(v) <= m - 1
  BY <1>4
<1>6. v \in Seq(1..m) /\ \A i \in DOMAIN v : v[i] < m /\ v[i] \in Nat
  <2>1. v = [i \in 1..Len(v) |-> v[i]] /\ Len(v) \in Nat /\ \A i \in 1..Len(v) : v[i] \in 1..m
    BY <1>4, <1>5
  <2>2. [i \in 1..Len(v) |-> v[i]] \in Seq(1..m)
    <3> HIDE DEF v
    <3> QED BY <2>1
  <2>3. v \in Seq(1..m)
    BY <2>1, <2>2
  <2> QED BY <1>4, <1>5, <2>3
<1> HIDE DEF v
<1>7. CASE m \notin b
  <2>1. u[m] = v
    BY <1>2, <1>4, <1>7 DEF v
  <2> QED BY <1>1, <1>4, <1>5, <1>6, <2>1
<1>8. CASE m \in b
  <2>1. u[m] = Append(v, m)
    BY <1>2, <1>4, <1>8 DEF v
  <2>2. /\ Append(v, m) \in Seq(1..m) /\ Len(Append(v, m)) = Len(v) + 1 /\ Len(v) \in Nat
        /\ Append(v, m)[Len(v) + 1] = m /\ \A i \in 1..Len(v) : Append(v, m)[i] = v[i]
    BY <1>4, <1>6, AppendProperties
  <2>3. Increasing(Append(v, m))
    <3> SUFFICES ASSUME NEW i \in 1..(Len(v) + 1), NEW j \in 1..(Len(v) + 1), j < i
                 PROVE  Append(v, m)[j] < Append(v, m)[i]
      BY <2>2 DEF Increasing
    <3>1. j \in 1..Len(v) /\ j \in DOMAIN v
      BY <1>6, <2>2
    <3>2. CASE i = Len(v) + 1
      BY <1>6, <2>2, <3>1, <3>2
    <3>3. CASE i \in 1..Len(v)
      <4>1. v[j] < v[i]
        BY <1>5, <1>6, <3>1, <3>3 DEF Increasing
      <4> QED BY <2>2, <3>1, <3>3, <4>1
    <3> QED BY <2>2, <3>2, <3>3
  <2>4. Len(Append(v, m)) <= m
    BY <1>4, <1>5, <2>2
  <2>5. Fine(m)
    BY <2>1, <2>2, <2>3, <2>4
  <2> QED BY <1>1, <2>5
<1> QED BY <1>7, <1>8

LEMMA PresentInOrder ==
  ASSUME NEW t
  PROVE  Present(t) \in Seq(1..Segments) /\ Increasing(Present(t)) /\ Len(Present(t)) <= Segments
<1> DEFINE b == {i \in 0..Segments : url[<<t, i>>] /\ file[<<t, i>>] # None}
           U == CHOOSE u : u = [i \in 0..Segments |-> IF i = 0 THEN <<>>
                                  ELSE IF url[<<t, i>>] /\ file[<<t, i>>] # None THEN Append(u[i - 1], i)
                                  ELSE u[i - 1]]
<1>1. Present(t) = U[Segments]
  BY DEF Present
<1>2. \A u : Collects(u, b, Segments) <=>
             u = [i \in 0..Segments |-> IF i = 0 THEN <<>>
                    ELSE IF url[<<t, i>>] /\ file[<<t, i>>] # None THEN Append(u[i - 1], i)
                    ELSE u[i - 1]]
  BY DEF Collects
<1>3. Segments \in Nat
  BY SegmentsAssumption
<1>4. \E u : Collects(u, b, Segments)
  BY <1>3, CollectsExists
<1>5. Collects(U, b, Segments)
  BY <1>2, <1>4
<1> HIDE DEF U, b
<1> QED BY <1>1, <1>3, <1>5, CollectedInOrder

-----------------------------------------------------------------------------
(***************************************************************************)
(* The invariant.  A coroutine waits for one call at a time, so it is in   *)
(* its process's queue once; a video's coroutine makes the calls of a      *)
(* video; only the head of a queue has been worked on; and what is exposed *)
(* to another server's work is remembered in met.                          *)
(***************************************************************************)
Labels == {"idle", "submit", "poll", "download", "mix", "probe", "compose"}
Steps  == {"start", "open", "concat", "clean"}
Plan   == {clips \in Seq(1..Segments) : Increasing(clips) /\ Len(clips) <= Segments}
CallSet == [by : Coroutine, label : Labels, clips : Plan, tries : 0..Retries,
            step : Steps, tried : Nat, list : Seq(Nat)]

Begins(k) == k.step = "start" /\ k.tried = 0 /\ k.list = <<>>
MadeBy(k) == /\ k.label \notin {"idle", "probe"}
             /\ IF k.label = "compose" THEN k.by \in Composer ELSE k.by \in Maker

Waiting == \A p \in Process : \A i \in DOMAIN queue[p] :
             queue[p][i].by[2] = p /\ pc[queue[p][i].by] = queue[p][i].label
Once    == \A p \in Process : \A i, j \in DOMAIN queue[p] :
             queue[p][i].by = queue[p][j].by => i = j
Behind  == \A s \in Server : \A i \in DOMAIN queue[s] : i # 1 => Begins(queue[s][i])
Made    == \A s \in Server : \A i \in DOMAIN queue[s] : MadeBy(queue[s][i])
Inherited(r) == Len(r) <= 1 /\ \A i \in DOMAIN r : r[i].label \in {"download", "mix", "compose"}

ChannelsOK == /\ pc \in [Coroutine -> Labels]
              /\ queue \in [Server -> Seq(CallSet)]
              /\ \A o \in Orphan : Inherited(queue[o])
              /\ Waiting /\ Once /\ Behind /\ Made

FilesOK == /\ job \in [Maker -> {"none", "running", "succeeded", "failed"}]
           /\ file \in [Video -> {None, "partial", "garbled"} \cup Whole]
           /\ url \in [Video -> BOOLEAN]
           /\ norm \in [1..Segments -> Clips]
           /\ film \in [Task -> {None, "own", "wrong"}]
           /\ asked \in 0..Requests /\ crashes \in 0..Crashes

MetOK == /\ met \in [Coroutine -> BOOLEAN]
         /\ \A c \in Coroutine : Disturbed(c) => met[c]

\* c's download has emptied the file and not finished it.
Opened(c) == At(c[2], "download", "open") /\ Caller(c[2]) = c

\* From the poll's answer on the job has succeeded; what no other server met is
\* not garbled while it is written, and whole afterwards.
Safe(c) == /\ pc[c] \in {"download", "mix", "probe"} => job[c] = "succeeded"
           /\ ~met[c] /\ pc[c] \in {"mix", "probe"} => file[c[1]] \in Whole
           /\ ~met[c] /\ Opened(c) => file[c[1]] # "garbled"

\* What a composition has done that no other one met: its work files are the
\* videos it collected, at the places its list names.
Shows(t, k) == /\ Increasing(k.list) /\ k.tried <= Len(k.clips)
               /\ \A i \in DOMAIN k.list : /\ k.list[i] \in 1..k.tried
                                           /\ norm[k.list[i]] = <<t, k.clips[k.list[i]]>>
               /\ k.step \in {"concat", "clean"} => listed = k.list
               /\ k.step = "clean" => film[t] = "own"
Composing(p) == Runs(p, "compose") /\ ~met[Caller(p)] => Shows(Subject(p), Now(p))

IInv == /\ ChannelsOK /\ FilesOK /\ MetOK
        /\ \A c \in Maker : Safe(c)
        /\ \A p \in Process : Composing(p)

-----------------------------------------------------------------------------
(***************************************************************************)
(* The channels.                                                           *)
(***************************************************************************)
LEMMA CoroutineFacts ==
  /\ \A c \in Maker : c[1] \in Video /\ c[2] \in Process /\ c = <<c[1], c[2]>>
  /\ \A c \in Composer : c[1] \in Task /\ c[2] \in Process /\ c = <<c[1], c[2]>>
  /\ \A c \in Coroutine : c[2] \in Process /\ c = <<c[1], c[2]>>
  /\ Maker \subseteq Coroutine /\ Composer \subseteq Coroutine
BY WantedAssumption DEF Coroutine, Maker, Composer, Video

\* What is left of a queue whose head is answered or replaced, ...
LEMMA HeadFacts ==
  ASSUME NEW K, NEW q \in Seq(K), q # <<>>
  PROVE  /\ Head(q) = q[1] /\ Head(q) \in K /\ 1 \in DOMAIN q
         /\ Len(q) \in Nat /\ DOMAIN q = 1..Len(q)
         /\ Tail(q) \in Seq(K) /\ Len(Tail(q)) = Len(q) - 1
         /\ \A i \in DOMAIN Tail(q) : i \in Nat /\ i + 1 \in DOMAIN q /\ i + 1 # 1 /\ Tail(q)[i] = q[i + 1]
OBVIOUS

LEMMA ReplacedFacts ==
  ASSUME NEW K, NEW q \in Seq(K), q # <<>>, NEW k \in K
  PROVE  /\ <<k>> \o Tail(q) \in Seq(K) /\ DOMAIN (<<k>> \o Tail(q)) = DOMAIN q
         /\ Len(<<k>> \o Tail(q)) = Len(q)
         /\ (<<k>> \o Tail(q))[1] = k
         /\ \A i \in DOMAIN q : i # 1 => (<<k>> \o Tail(q))[i] = q[i]
<1>1. /\ Tail(q) \in Seq(K) /\ Len(Tail(q)) = Len(q) - 1 /\ Len(q) \in Nat /\ Len(q) >= 1
      /\ DOMAIN q = 1..Len(q) /\ \A i \in 1..(Len(q) - 1) : Tail(q)[i] = q[i + 1]
  OBVIOUS
<1>2. <<k>> \in Seq(K) /\ Len(<<k>>) = 1 /\ <<k>>[1] = k
  OBVIOUS
<1> DEFINE r == <<k>> \o Tail(q)
<1>3. /\ r \in Seq(K) /\ Len(r) = Len(q)
      /\ \A i \in 1..Len(q) : r[i] = IF i <= 1 THEN <<k>>[i] ELSE Tail(q)[i - 1]
  BY <1>1, <1>2, ConcatProperties
<1>4. \A i \in 1..Len(q) : i # 1 => Tail(q)[i - 1] = q[i]
  BY <1>1
<1> HIDE DEF r
<1>5. /\ r \in Seq(K) /\ DOMAIN r = DOMAIN q /\ Len(r) = Len(q) /\ r[1] = k
      /\ \A i \in DOMAIN q : i # 1 => r[i] = q[i]
  BY <1>1, <1>2, <1>3, <1>4
<1> QED BY <1>5 DEF r

\* ... or to which a call is added.
LEMMA AppendedFacts ==
  ASSUME NEW K, NEW q \in Seq(K), NEW k \in K
  PROVE  /\ Append(q, k) \in Seq(K) /\ Append(q, k) # <<>> /\ Len(Append(q, k)) = Len(q) + 1
         /\ Append(q, k)[1] = IF q = <<>> THEN k ELSE q[1]
         /\ \A i \in DOMAIN Append(q, k) :
              \/ i \in DOMAIN q /\ Append(q, k)[i] = q[i]
              \/ i \notin DOMAIN q /\ i = Len(q) + 1 /\ Append(q, k)[i] = k
<1>1. Len(q) \in Nat /\ DOMAIN q = 1..Len(q)
  OBVIOUS
<1>2. /\ Append(q, k) \in Seq(K) /\ Len(Append(q, k)) = Len(q) + 1
      /\ Append(q, k)[Len(q) + 1] = k /\ \A i \in 1..Len(q) : Append(q, k)[i] = q[i]
  BY AppendProperties
<1> DEFINE r == Append(q, k)
<1> HIDE DEF r
<1>3. /\ r \in Seq(K) /\ Len(r) = Len(q) + 1 /\ DOMAIN r = 1..(Len(q) + 1)
      /\ r[Len(q) + 1] = k /\ \A i \in 1..Len(q) : r[i] = q[i]
  BY <1>1, <1>2 DEF r
<1>4. r # <<>> /\ r[1] = IF q = <<>> THEN k ELSE q[1]
  BY <1>1, <1>3
<1>5. \A i \in DOMAIN r :
         \/ i \in DOMAIN q /\ r[i] = q[i]
         \/ i \notin DOMAIN q /\ i = Len(q) + 1 /\ r[i] = k
  BY <1>1, <1>3
<1> QED BY <1>3, <1>4, <1>5 DEF r

LEMMA CallFacts ==
  ASSUME ChannelsOK, NEW s \in Server, queue[s] # <<>>
  PROVE  /\ queue[s] \in Seq(CallSet) /\ Now(s) = queue[s][1] /\ Now(s) \in CallSet /\ MadeBy(Now(s))
         /\ Caller(s) \in Coroutine /\ Caller(s) = queue[s][1].by
         /\ s \in Process => Caller(s)[2] = s /\ pc[Caller(s)] = Now(s).label
<1>1. queue[s] \in Seq(CallSet)
  BY DEF ChannelsOK
<1>2. Now(s) = queue[s][1] /\ Now(s) \in CallSet /\ 1 \in DOMAIN queue[s]
  BY <1>1, HeadFacts DEF Now
<1>3. Caller(s) = queue[s][1].by /\ Caller(s) \in Coroutine
  BY <1>2 DEF Caller, CallSet
<1>4. MadeBy(Now(s)) /\ (s \in Process => Caller(s)[2] = s /\ pc[Caller(s)] = Now(s).label)
  BY <1>2, <1>3 DEF ChannelsOK, Waiting, Made
<1> QED BY <1>1, <1>2, <1>3, <1>4

LEMMA NewCall ==
  ASSUME NEW c \in Coroutine, NEW label \in Labels, NEW clips \in Plan, NEW tries \in 0..Retries
  PROVE  Call(c, label, clips, tries) \in CallSet /\ Begins(Call(c, label, clips, tries))
BY DEF Call, CallSet, Begins, Steps

LEMMA NoClips == <<>> \in Plan
BY SegmentsAssumption DEF Plan, Increasing

\* r can take the place of the queue at s, when the coroutine c goes on to
\* `label': of its calls none or one is c's, and c waits for that one.
Fits(s, c, label, r) ==
  /\ s \in Orphan => Inherited(r)
  /\ \A i \in DOMAIN r : MadeBy(r[i]) /\ (i # 1 => Begins(r[i]))
  /\ s \in Process =>
       /\ \A i \in DOMAIN r : \/ r[i].by = c /\ r[i].label = label
                              \/ \E j \in DOMAIN queue[s] : queue[s][j].by # c /\ r[i] = queue[s][j]
       /\ \A i, j \in DOMAIN r : r[i].by = r[j].by => i = j

Requeue(s, c, label, r) ==
  /\ queue' = [queue EXCEPT ![s] = r]
  /\ pc' = IF s \in Process THEN [pc EXCEPT ![c] = label] ELSE pc

LEMMA Requeued ==
  ASSUME ChannelsOK, NEW s \in Server, NEW c \in Coroutine, s \in Process => c[2] = s,
         NEW label \in Labels, NEW r \in Seq(CallSet),
         Fits(s, c, label, r), Requeue(s, c, label, r)
  PROVE  ChannelsOK'
<1> USE DEF Fits, Requeue
<1>1. /\ pc \in [Coroutine -> Labels] /\ queue \in [Server -> Seq(CallSet)]
      /\ \A o \in Orphan : Inherited(queue[o])
      /\ Waiting /\ Once /\ Behind /\ Made
  BY DEF ChannelsOK
<1>2. /\ queue' \in [Server -> Seq(CallSet)] /\ queue'[s] = r
      /\ \A q \in Server : q # s => queue'[q] = queue[q]
  BY <1>1
<1>3. /\ pc' \in [Coroutine -> Labels]
      /\ s \in Process => pc'[c] = label
      /\ \A d \in Coroutine : (s \in Process => d # c) => pc'[d] = pc[d]
  BY <1>1
<1>4. \A p \in Process : p \in Server /\ p \notin Orphan
  BY OrphanAssumption DEF Server
<1>5. Waiting'
  <2> SUFFICES ASSUME NEW p \in Process, NEW i \in DOMAIN queue'[p]
               PROVE  queue'[p][i].by[2] = p /\ pc'[queue'[p][i].by] = queue'[p][i].label
    BY DEF Waiting
  <2>1. \A j \in DOMAIN queue[p] : /\ queue[p][j].by \in Coroutine /\ queue[p][j].by[2] = p
                                   /\ pc[queue[p][j].by] = queue[p][j].label
    <3>1. queue[p] \in Seq(CallSet)
      BY <1>1, <1>4
    <3>2. \A j \in DOMAIN queue[p] : queue[p][j] \in CallSet
      BY <3>1
    <3>3. \A k \in CallSet : k.by \in Coroutine
      BY DEF CallSet
    <3> QED BY <1>1, <3>2, <3>3 DEF Waiting
  <2>2. CASE p # s
    <3>1. i \in DOMAIN queue[p] /\ queue'[p][i] = queue[p][i]
      BY <1>2, <1>4, <2>2
    <3>2. s \in Process => queue[p][i].by # c
      BY <2>1, <2>2, <3>1
    <3> QED BY <1>3, <2>1, <3>1, <3>2
  <2>3. CASE p = s
    <3>1. i \in DOMAIN r /\ queue'[p][i] = r[i] /\ s \in Process
      BY <1>2, <2>3
    <3>2. CASE r[i].by = c /\ r[i].label = label
      BY <1>3, <2>3, <3>1, <3>2
    <3>3. CASE \E j \in DOMAIN queue[s] : queue[s][j].by # c /\ r[i] = queue[s][j]
      <4>1. PICK j \in DOMAIN queue[s] : queue[s][j].by # c /\ r[i] = queue[s][j]
        BY <3>3
      <4> QED BY <1>3, <2>1, <2>3, <3>1, <4>1
    <3> QED BY <3>1, <3>2, <3>3
  <2> QED BY <2>2, <2>3
<1>6. Once'
  <2> SUFFICES ASSUME NEW p \in Process
               PROVE  \A i, j \in DOMAIN queue'[p] : queue'[p][i].by = queue'[p][j].by => i = j
    BY DEF Once
  <2>1. CASE p # s
    BY <1>1, <1>2, <1>4, <2>1 DEF Once
  <2>2. CASE p = s
    BY <1>2, <2>2
  <2> QED BY <2>1, <2>2
<1>7. Behind' /\ Made'
  <2> SUFFICES ASSUME NEW q \in Server, NEW i \in DOMAIN queue'[q]
               PROVE  (i # 1 => Begins(queue'[q][i])) /\ MadeBy(queue'[q][i])
    BY DEF Behind, Made, Begins, MadeBy, Composer, Maker
  <2>1. CASE q # s
    BY <1>1, <1>2, <2>1 DEF Behind, Made
  <2>2. CASE q = s
    BY <1>2, <2>2
  <2> QED BY <2>1, <2>2
<1>8. \A o \in Orphan : Inherited(queue'[o])
  <2> TAKE o \in Orphan
  <2>1. CASE o # s
    BY <1>1, <1>2, <2>1 DEF Server
  <2>2. CASE o = s
    BY <1>2, <2>2
  <2> QED BY <2>1, <2>2
<1> QED BY <1>2, <1>3, <1>5, <1>6, <1>7, <1>8 DEF ChannelsOK, Inherited

\* What one server's turn does to the queues and the coroutines.
Starts(s) == queue'[s] # <<>> => Begins(queue'[s][1])
Turn(s) == /\ \A q \in Server : q # s => queue'[q] = queue[q]
           /\ queue'[s] # <<>> => Begins(queue'[s][1]) \/ queue'[s][1].by = Caller(s)
           /\ \A d \in Coroutine : (s \in Process => d # Caller(s)) => pc'[d] = pc[d]

LEMMA Replacing ==
  ASSUME ChannelsOK, NEW s \in Server, queue[s] # <<>>,
         NEW k \in CallSet, k.by = Caller(s), k.label = Now(s).label, Replace(s, k)
  PROVE  ChannelsOK' /\ Turn(s) /\ Now(s)' = k /\ queue'[s] # <<>> /\ pc' = pc
<1> DEFINE r == <<k>> \o Tail(queue[s])
<1>1. /\ queue[s] \in Seq(CallSet) /\ Now(s) = queue[s][1] /\ MadeBy(Now(s))
      /\ Caller(s) \in Coroutine /\ Caller(s) = queue[s][1].by
      /\ s \in Process => Caller(s)[2] = s /\ pc[Caller(s)] = Now(s).label
  BY CallFacts
<1>2. 1 \in DOMAIN queue[s] /\ DOMAIN queue[s] = 1..Len(queue[s]) /\ Len(queue[s]) \in Nat
  BY <1>1, HeadFacts
<1>3. /\ r \in Seq(CallSet) /\ DOMAIN r = DOMAIN queue[s] /\ Len(r) = Len(queue[s])
      /\ r[1] = k /\ \A i \in DOMAIN queue[s] : i # 1 => r[i] = queue[s][i]
  BY <1>1, ReplacedFacts
<1>4. queue' = [queue EXCEPT ![s] = r] /\ pc' = pc
  BY DEF Replace
<1> HIDE DEF r
<1>5. pc \in [Coroutine -> Labels] /\ queue \in [Server -> Seq(CallSet)] /\ Now(s).label \in Labels
  BY <1>1 DEF ChannelsOK, CallSet
<1>6. pc' = IF s \in Process THEN [pc EXCEPT ![Caller(s)] = Now(s).label] ELSE pc
  BY <1>1, <1>4, <1>5
<1>7. queue'[s] = r /\ (\A q \in Server : q # s => queue'[q] = queue[q])
  BY <1>4, <1>5
<1>8. r # <<>> /\ Now(s)' = k
  <2>1. r # <<>>
    BY <1>2, <1>3
  <2>2. Head(r) = k
    BY <1>3, <2>1, HeadFacts
  <2> QED BY <1>7, <2>1, <2>2 DEF Now
<1>9. MadeBy(k)
  BY <1>1 DEF MadeBy, Caller
<1>10. \A i \in DOMAIN r : MadeBy(r[i]) /\ (i # 1 => Begins(r[i]))
  <2>1. \A i \in DOMAIN queue[s] : MadeBy(queue[s][i]) /\ (i # 1 => Begins(queue[s][i]))
    BY DEF ChannelsOK, Made, Behind
  <2> QED BY <1>3, <1>9, <2>1
<1>11. s \in Process => /\ \A i, j \in DOMAIN r : r[i].by = r[j].by => i = j
                        /\ \A i \in DOMAIN r : \/ r[i].by = Caller(s) /\ r[i].label = Now(s).label
                                               \/ \E j \in DOMAIN queue[s] :
                                                    queue[s][j].by # Caller(s) /\ r[i] = queue[s][j]
  <2> SUFFICES ASSUME s \in Process
               PROVE  /\ \A i, j \in DOMAIN r : r[i].by = r[j].by => i = j
                      /\ \A i \in DOMAIN r : \/ r[i].by = Caller(s) /\ r[i].label = Now(s).label
                                             \/ \E j \in DOMAIN queue[s] :
                                                  queue[s][j].by # Caller(s) /\ r[i] = queue[s][j]
    OBVIOUS
  <2>1. \A i, j \in DOMAIN queue[s] : queue[s][i].by = queue[s][j].by => i = j
    BY DEF ChannelsOK, Once
  <2>2. \A i \in DOMAIN r : r[i].by = queue[s][i].by
    BY <1>1, <1>3
  <2>3. \A i \in DOMAIN r : i # 1 => queue[s][i].by # Caller(s) /\ r[i] = queue[s][i]
    BY <1>1, <1>2, <1>3, <2>1
  <2> QED BY <1>3, <2>1, <2>2, <2>3
<1>12. s \in Orphan => Inherited(r)
  <2>1. s \in Orphan => Inherited(queue[s])
    BY DEF ChannelsOK
  <2> QED BY <1>1, <1>2, <1>3, <2>1 DEF Inherited
<1>13. ChannelsOK'
  <2>1. Caller(s) \in Coroutine /\ (s \in Process => Caller(s)[2] = s)
    BY <1>1
  <2>2. s \in Process => \A i \in DOMAIN r :
          \/ r[i].by = Caller(s) /\ r[i].label = Now(s).label
          \/ \E j \in DOMAIN queue[s] : queue[s][j].by # Caller(s) /\ r[i] = queue[s][j]
    BY <1>11
  <2>3. s \in Process => \A i, j \in DOMAIN r : r[i].by = r[j].by => i = j
    BY <1>11
  <2>4. Now(s).label \in Labels /\ r \in Seq(CallSet) /\ queue' = [queue EXCEPT ![s] = r]
    BY <1>3, <1>4, <1>5
  <2>5. Fits(s, Caller(s), Now(s).label, r)
    BY <2>2, <2>3, <1>10, <1>12 DEF Fits
  <2>6. Requeue(s, Caller(s), Now(s).label, r)
    BY <2>4, <1>6 DEF Requeue
  <2> QED BY <2>1, <2>4, <2>5, <2>6, Requeued
<1>14. Turn(s)
  <2>1. r[1].by = Caller(s)
    BY <1>3
  <2> QED BY <1>4, <1>7, <2>1 DEF Turn
<1> QED BY <1>4, <1>7, <1>8, <1>13, <1>14

\* The calls behind the head are other coroutines', and not begun.
LEMMA Rest ==
  ASSUME ChannelsOK, NEW s \in Server, queue[s] # <<>>
  PROVE  /\ Tail(queue[s]) \in Seq(CallSet)
         /\ s \in Orphan => Inherited(Tail(queue[s]))
         /\ \A i \in DOMAIN Tail(queue[s]) : MadeBy(Tail(queue[s])[i]) /\ Begins(Tail(queue[s])[i])
         /\ s \in Process =>
              /\ \A i, j \in DOMAIN Tail(queue[s]) : Tail(queue[s])[i].by = Tail(queue[s])[j].by => i = j
              /\ \A i \in DOMAIN Tail(queue[s]) :
                   /\ Tail(queue[s])[i].by # Caller(s)
                   /\ \E j \in DOMAIN queue[s] : Tail(queue[s])[i] = queue[s][j]
<1> DEFINE r == Tail(queue[s])
<1>1. queue[s] \in Seq(CallSet) /\ Caller(s) = queue[s][1].by
  BY CallFacts
<1>2. /\ 1 \in DOMAIN queue[s] /\ r \in Seq(CallSet) /\ Len(r) = Len(queue[s]) - 1 /\ Len(queue[s]) \in Nat
      /\ \A i \in DOMAIN r : i \in Nat /\ i + 1 \in DOMAIN queue[s] /\ i + 1 # 1 /\ r[i] = queue[s][i + 1]
  BY <1>1, HeadFacts
<1> HIDE DEF r
<1>3. \A i \in DOMAIN r : MadeBy(r[i]) /\ Begins(r[i])
  <2>1. \A i \in DOMAIN queue[s] : MadeBy(queue[s][i]) /\ (i # 1 => Begins(queue[s][i]))
    BY DEF ChannelsOK, Made, Behind
  <2> QED BY <1>2, <2>1
<1>4. s \in Process => /\ \A i, j \in DOMAIN r : r[i].by = r[j].by => i = j
                       /\ \A i \in DOMAIN r : /\ r[i].by # Caller(s)
                                              /\ \E j \in DOMAIN queue[s] : r[i] = queue[s][j]
  <2>1. s \in Process => \A i, j \in DOMAIN queue[s] : queue[s][i].by = queue[s][j].by => i = j
    BY DEF ChannelsOK, Once
  <2>2. s \in Process => \A i, j \in DOMAIN r : r[i].by = r[j].by => i = j
    <3> SUFFICES ASSUME s \in Process, NEW i \in DOMAIN r, NEW j \in DOMAIN r, r[i].by = r[j].by
                 PROVE  i = j
      OBVIOUS
    <3>1. i + 1 = j + 1 /\ i \in Nat /\ j \in Nat
      BY <1>2, <2>1
    <3> QED BY <3>1
  <2>3. s \in Process => \A i \in DOMAIN r : queue[s][i + 1].by # Caller(s)
    BY <1>1, <1>2, <2>1
  <2> QED BY <1>2, <2>2, <2>3
<1>5. s \in Orphan => Inherited(r)
  <2>1. s \in Orphan => Inherited(queue[s])
    BY DEF ChannelsOK
  <2>2. Len(r) \in Nat
    BY <1>2
  <2> QED BY <1>2, <2>1, <2>2 DEF Inherited
<1> QED BY <1>2, <1>3, <1>4, <1>5 DEF r

LEMMA Requeuing ==
  ASSUME ChannelsOK, NEW s \in Server, NEW c \in Coroutine, NEW label, NEW r, Requeue(s, c, label, r)
  PROVE  /\ queue'[s] = r /\ (\A q \in Server : q # s => queue'[q] = queue[q])
         /\ s \in Process => pc'[c] = label
         /\ \A d \in Coroutine : (s \in Process => d # c) => pc'[d] = pc[d]
BY DEF Requeue, ChannelsOK

LEMMA Answering ==
  ASSUME ChannelsOK, NEW s \in Server, queue[s] # <<>>, NEW label \in Labels, Answer(s, label)
  PROVE  ChannelsOK' /\ Turn(s) /\ Starts(s) /\ (s \in Process => pc'[Caller(s)] = label)
<1> DEFINE r == Tail(queue[s])
<1>1. Caller(s) \in Coroutine /\ (s \in Process => Caller(s)[2] = s)
  BY CallFacts
<1>2. /\ r \in Seq(CallSet) /\ (s \in Orphan => Inherited(r))
      /\ \A i \in DOMAIN r : MadeBy(r[i]) /\ Begins(r[i])
      /\ s \in Process => /\ \A i, j \in DOMAIN r : r[i].by = r[j].by => i = j
                          /\ \A i \in DOMAIN r : /\ r[i].by # Caller(s)
                                                 /\ \E j \in DOMAIN queue[s] : r[i] = queue[s][j]
  BY Rest
<1>3. Requeue(s, Caller(s), label, r)
  BY DEF Answer, Requeue
<1> HIDE DEF r
<1>4. Fits(s, Caller(s), label, r)
  BY <1>2 DEF Fits
<1>5. ChannelsOK'
  BY <1>1, <1>2, <1>3, <1>4, Requeued
<1>6. /\ queue'[s] = r /\ (\A q \in Server : q # s => queue'[q] = queue[q])
      /\ s \in Process => pc'[Caller(s)] = label
      /\ \A d \in Coroutine : (s \in Process => d # Caller(s)) => pc'[d] = pc[d]
  BY <1>1, <1>3, Requeuing
<1>7. Starts(s)
  <2>1. r # <<>> => 1 \in DOMAIN r
    BY <1>2
  <2> QED BY <1>2, <1>6, <2>1 DEF Starts
<1> QED BY <1>5, <1>6, <1>7 DEF Turn, Starts

LEMMA Calling ==
  ASSUME ChannelsOK, NEW s \in Server, queue[s] # <<>>, Caller(s) \in Maker,
         NEW label \in {"poll", "download", "mix"}, AnswerAndCall(s, label)
  PROVE  ChannelsOK' /\ Turn(s) /\ Starts(s) /\ (s \in Process => pc'[Caller(s)] = label)
<1>1. CASE s \notin Process
  BY <1>1, Answering DEF AnswerAndCall, Labels
<1>2. CASE s \in Process
  <2> DEFINE t == Tail(queue[s])
             k == Call(Caller(s), label, <<>>, 0)
             r == Append(t, k)
  <2>1. /\ t \in Seq(CallSet) /\ (\A i \in DOMAIN t : MadeBy(t[i]) /\ Begins(t[i]))
        /\ \A i, j \in DOMAIN t : t[i].by = t[j].by => i = j
        /\ \A i \in DOMAIN t : t[i].by # Caller(s) /\ \E j \in DOMAIN queue[s] : t[i] = queue[s][j]
    BY <1>2, Rest
  <2>2. Caller(s) \in Coroutine /\ Caller(s)[2] = s
    BY <1>2, CallFacts
  <2>3. k \in CallSet /\ Begins(k) /\ MadeBy(k) /\ k.by = Caller(s) /\ k.label = label
    <3>1. label \in Labels /\ 0 \in 0..Retries
      BY RetriesAssumption DEF Labels
    <3>2. k \in CallSet /\ Begins(k)
      BY <2>2, <3>1, NewCall, NoClips
    <3>3. k.by = Caller(s) /\ k.label = label
      BY DEF Call
    <3> QED BY <3>2, <3>3 DEF MadeBy
  <2>4. Requeue(s, Caller(s), label, r)
    BY <1>2 DEF AnswerAndCall, Requeue
  <2> HIDE DEF t, k
  <2>5. /\ r \in Seq(CallSet) /\ r # <<>>
        /\ r[1] = IF t = <<>> THEN k ELSE t[1]
        /\ \A i \in DOMAIN r :
             \/ i \in DOMAIN t /\ r[i] = t[i]
             \/ i \notin DOMAIN t /\ i = Len(t) + 1 /\ r[i] = k
    BY <2>1, <2>3, AppendedFacts
  <2> HIDE DEF r
  <2>6. \A i \in DOMAIN r : MadeBy(r[i]) /\ Begins(r[i])
    BY <2>1, <2>3, <2>5
  <2>7. /\ \A i \in DOMAIN r : \/ r[i].by = Caller(s) /\ r[i].label = label
                               \/ \E j \in DOMAIN queue[s] : queue[s][j].by # Caller(s) /\ r[i] = queue[s][j]
        /\ \A i, j \in DOMAIN r : r[i].by = r[j].by => i = j
    BY <2>1, <2>3, <2>5
  <2>8. Fits(s, Caller(s), label, r)
    BY <1>2, <2>6, <2>7, OrphanAssumption DEF Fits
  <2>9. ChannelsOK'
    BY <2>2, <2>4, <2>5, <2>8, Requeued DEF Labels
  <2>10. /\ queue'[s] = r /\ (\A q \in Server : q # s => queue'[q] = queue[q])
         /\ pc'[Caller(s)] = label
         /\ \A d \in Coroutine : (s \in Process => d # Caller(s)) => pc'[d] = pc[d]
    BY <1>2, <2>2, <2>4, Requeuing
  <2>11. Starts(s)
    <3>1. 1 \in DOMAIN r
      BY <2>5
    <3> QED BY <2>6, <2>10, <3>1 DEF Starts
  <2> QED BY <2>9, <2>10, <2>11 DEF Turn, Starts
<1> QED BY <1>1, <1>2

LEMMA NotWaiting ==
  ASSUME ChannelsOK, NEW c \in Coroutine, pc[c] \in {"idle", "probe"}
  PROVE  \A i \in DOMAIN queue[c[2]] : queue[c[2]][i].by # c
<1>1. c[2] \in Process /\ c[2] \in Server
  BY CoroutineFacts DEF Server
<1>2. \A i \in DOMAIN queue[c[2]] : /\ pc[queue[c[2]][i].by] = queue[c[2]][i].label
                                    /\ queue[c[2]][i].label \notin {"idle", "probe"}
  BY <1>1 DEF ChannelsOK, Waiting, Made, MadeBy
<1> QED BY <1>2

\* The head of p's queue is what it was, or has not begun.
SameHead(p) == queue'[p] # <<>> => \/ Begins(queue'[p][1])
                                   \/ queue[p] # <<>> /\ queue'[p][1] = queue[p][1]

LEMMA Requesting ==
  ASSUME ChannelsOK, NEW c \in Coroutine, NEW label \in Labels, NEW clips \in Plan,
         MadeBy(Call(c, label, clips, 0)), Request(c, label, clips)
  PROVE  /\ ChannelsOK' /\ (\A p \in Process : SameHead(p))
         /\ pc'[c] = label /\ \A d \in Coroutine : d # c => pc'[d] = pc[d]
<1> DEFINE s == c[2]
           q == queue[s]
           k == Call(c, label, clips, 0)
           r == Append(q, k)
<1>1. s \in Process /\ s \in Server /\ s \notin Orphan
  BY CoroutineFacts, OrphanAssumption DEF Server
<1>2. q \in Seq(CallSet)
  BY <1>1 DEF ChannelsOK
<1>3. k \in CallSet /\ Begins(k) /\ MadeBy(k) /\ k.by = c /\ k.label = label
  <2>1. k \in CallSet /\ Begins(k)
    BY NewCall, RetriesAssumption
  <2> QED BY <2>1 DEF Call
<1>4. \A i \in DOMAIN q : q[i].by # c
  BY NotWaiting DEF Request
<1>5. Requeue(s, c, label, r)
  BY <1>1 DEF Request, Requeue
<1>6. /\ \A i \in DOMAIN q : MadeBy(q[i]) /\ (i # 1 => Begins(q[i]))
      /\ \A i, j \in DOMAIN q : q[i].by = q[j].by => i = j
  BY <1>1 DEF ChannelsOK, Made, Behind, Once
<1>7. q # <<>> => 1 \in DOMAIN q
  BY <1>2
<1>8. \A p \in Process : p \in Server
  BY DEF Server
<1>9. q = queue[s]
  OBVIOUS
<1> HIDE DEF s, q, k
<1>10. /\ r \in Seq(CallSet) /\ r # <<>>
       /\ r[1] = IF q = <<>> THEN k ELSE q[1]
       /\ \A i \in DOMAIN r :
            \/ i \in DOMAIN q /\ r[i] = q[i]
            \/ i \notin DOMAIN q /\ i = Len(q) + 1 /\ r[i] = k
  BY <1>2, <1>3, AppendedFacts
<1> HIDE DEF r
<1>11. \A i \in DOMAIN r : MadeBy(r[i]) /\ (i # 1 => Begins(r[i]))
  BY <1>3, <1>6, <1>10
<1>12. /\ \A i \in DOMAIN r : \/ r[i].by = c /\ r[i].label = label
                              \/ \E j \in DOMAIN q : q[j].by # c /\ r[i] = q[j]
       /\ \A i, j \in DOMAIN r : r[i].by = r[j].by => i = j
  BY <1>3, <1>4, <1>6, <1>10
<1>13. Fits(s, c, label, r)
  BY <1>1, <1>9, <1>11, <1>12 DEF Fits
<1>14. ChannelsOK'
  BY <1>1, <1>5, <1>10, <1>13, Requeued DEF s
<1>15. /\ queue'[s] = r /\ (\A p \in Server : p # s => queue'[p] = queue[p])
       /\ s \in Process => pc'[c] = label
       /\ \A d \in Coroutine : (s \in Process => d # c) => pc'[d] = pc[d]
  BY <1>1, <1>5, Requeuing
<1>16. \A p \in Process : SameHead(p)
  <2> TAKE p \in Process
  <2>1. CASE p # s
    BY <1>8, <1>15, <2>1 DEF SameHead
  <2>2. CASE p = s
    BY <1>3, <1>9, <1>10, <1>15, <2>2 DEF SameHead
  <2> QED BY <2>1, <2>2
<1> QED BY <1>1, <1>14, <1>15, <1>16

LEMMA Publishing ==
  ASSUME ChannelsOK, NEW c \in Coroutine, pc[c] = "probe",
         pc' = [pc EXCEPT ![c] = "idle"], queue' = queue
  PROVE  /\ ChannelsOK' /\ pc'[c] = "idle" /\ \A d \in Coroutine : d # c => pc'[d] = pc[d]
<1> DEFINE r == queue[c[2]]
<1>1. c[2] \in Process /\ c[2] \in Server /\ c[2] \notin Orphan
  BY CoroutineFacts, OrphanAssumption DEF Server
<1>2. r \in Seq(CallSet) /\ queue = [queue EXCEPT ![c[2]] = r]
  BY <1>1 DEF ChannelsOK
<1>3. Fits(c[2], c, "idle", r)
  <2>1. \A i \in DOMAIN r : r[i].by # c
    BY NotWaiting
  <2> QED BY <1>1, <2>1 DEF Fits, ChannelsOK, Made, Behind, Once
<1>4. Requeue(c[2], c, "idle", r)
  BY <1>1, <1>2 DEF Requeue
<1> HIDE DEF r
<1>5. ChannelsOK'
  BY <1>1, <1>2, <1>3, <1>4, Requeued DEF Labels
<1> QED BY <1>1, <1>4, <1>5, Requeuing

LEMMA Dying ==
  ASSUME ChannelsOK, NEW p \in Process, Crash(p)
  PROVE  /\ ChannelsOK' /\ (\A q \in Process : SameHead(q))
         /\ \A d \in Coroutine : pc'[d] = "idle" \/ pc'[d] = pc[d]
<1>1. p \in Server /\ p \notin Orphan /\ \A q \in Process : q \in Server /\ q \notin Orphan
  BY OrphanAssumption DEF Server
<1>2. /\ pc \in [Coroutine -> Labels] /\ queue \in [Server -> Seq(CallSet)]
      /\ \A o \in Orphan : Inherited(queue[o])
      /\ Waiting /\ Once /\ Behind /\ Made
  BY DEF ChannelsOK
<1>3. /\ pc' \in [Coroutine -> Labels]
      /\ \A d \in Coroutine : pc'[d] = IF d[2] = p THEN "idle" ELSE pc[d]
  BY <1>2 DEF Crash, Labels
<1>4. \E o \in Orphan \cup {p} :
        /\ queue' \in [Server -> Seq(CallSet)]
        /\ \A q \in Server : q \notin {o, p} => queue'[q] = queue[q]
        /\ queue'[p] = <<>>
        /\ o # p => /\ queue[p] # <<>> /\ queue'[o] = <<Now(p)>>
                    /\ Now(p).label \in {"download", "mix", "compose"}
  <2>1. CASE queue' = [queue EXCEPT ![p] = <<>>]
    <3>1. /\ queue' \in [Server -> Seq(CallSet)] /\ queue'[p] = <<>>
          /\ \A q \in Server : q # p => queue'[q] = queue[q]
      BY <1>1, <1>2, <2>1
    <3> QED BY <3>1
  <2>2. CASE /\ Runs(p, "download") \/ Runs(p, "mix") \/ Runs(p, "compose")
             /\ \E o \in Orphan : /\ queue[o] = <<>>
                                  /\ queue' = [queue EXCEPT ![p] = <<>>, ![o] = <<Now(p)>>]
    <3>1. PICK o \in Orphan : queue' = [queue EXCEPT ![p] = <<>>, ![o] = <<Now(p)>>]
      BY <2>2
    <3>2. o \in Server /\ o # p
      BY <1>1 DEF Server
    <3>3. queue[p] # <<>> /\ Now(p).label \in {"download", "mix", "compose"}
      BY <2>2 DEF Runs
    <3>4. Now(p) \in CallSet
      BY <1>1, <3>3, CallFacts
    <3>5. <<Now(p)>> \in Seq(CallSet) /\ <<>> \in Seq(CallSet)
      BY <3>4
    <3>6. /\ queue' \in [Server -> Seq(CallSet)] /\ queue'[p] = <<>> /\ queue'[o] = <<Now(p)>>
          /\ \A q \in Server : q \notin {o, p} => queue'[q] = queue[q]
      BY <1>1, <1>2, <3>1, <3>2, <3>5
    <3> QED BY <3>2, <3>3, <3>6
  <2> QED BY <2>1, <2>2 DEF Crash
<1>5. PICK o \in Orphan \cup {p} :
        /\ queue' \in [Server -> Seq(CallSet)]
        /\ \A q \in Server : q \notin {o, p} => queue'[q] = queue[q]
        /\ queue'[p] = <<>>
        /\ o # p => /\ queue[p] # <<>> /\ queue'[o] = <<Now(p)>>
                    /\ Now(p).label \in {"download", "mix", "compose"}
  BY <1>4
<1>6. \A q \in Process : q # p => queue'[q] = queue[q]
  BY <1>1, <1>5
<1>7. \A q \in Process : q # p => \A i \in DOMAIN queue[q] :
        queue[q][i].by \in Coroutine /\ queue[q][i].by[2] = q
  <2> TAKE q \in Process
  <2> HAVE q # p
  <2> TAKE i \in DOMAIN queue[q]
  <2>1. queue[q] \in Seq(CallSet)
    BY <1>1, <1>2
  <2>2. queue[q][i] \in CallSet
    BY <2>1
  <2> QED BY <1>2, <2>2 DEF Waiting, CallSet
<1>8. Waiting'
  BY <1>2, <1>3, <1>5, <1>6, <1>7 DEF Waiting
<1>9. Once'
  BY <1>2, <1>5, <1>6 DEF Once
<1>10. o # p => /\ Len(queue'[o]) = 1 /\ DOMAIN queue'[o] = {1} /\ queue'[o][1] = Now(p)
                /\ MadeBy(Now(p))
  <2> HAVE o # p
  <2>1. MadeBy(Now(p))
    BY <1>1, <1>5, CallFacts
  <2>2. queue'[o] = <<Now(p)>>
    BY <1>5
  <2> QED BY <2>1, <2>2
<1>11. Behind' /\ Made'
  <2> SUFFICES ASSUME NEW q \in Server, NEW i \in DOMAIN queue'[q]
               PROVE  (i # 1 => Begins(queue'[q][i])) /\ MadeBy(queue'[q][i])
    BY DEF Behind, Made, Begins, MadeBy, Composer, Maker
  <2>1. CASE q \notin {o, p}
    BY <1>2, <1>5, <2>1 DEF Behind, Made
  <2>2. CASE q = p
    BY <1>5, <2>2
  <2>3. CASE q = o /\ o # p
    BY <1>10, <2>3
  <2> QED BY <2>1, <2>2, <2>3
<1>12. \A q \in Orphan : Inherited(queue'[q])
  <2> TAKE q \in Orphan
  <2>1. CASE q # o
    BY <1>1, <1>2, <1>5, <2>1 DEF Server
  <2>2. CASE q = o
    <3>1. /\ Len(queue'[o]) = 1 /\ DOMAIN queue'[o] = {1} /\ queue'[o][1] = Now(p)
          /\ Now(p).label \in {"download", "mix", "compose"}
      BY <1>1, <1>5, <1>10, <2>2
    <3> DEFINE r == queue'[o]
    <3>2. Len(r) <= 1 /\ \A i \in DOMAIN r : r[i].label \in {"download", "mix", "compose"}
      <4>1. Len(r) <= 1
        BY <3>1
      <4> QED BY <3>1, <4>1
    <3>3. Inherited(r)
      BY <3>2 DEF Inherited
    <3> QED BY <2>2, <3>3
  <2> QED BY <2>1, <2>2
<1>13. ChannelsOK'
  BY <1>3, <1>5, <1>8, <1>9, <1>11, <1>12 DEF ChannelsOK, Inherited
<1>14. \A q \in Process : SameHead(q)
  BY <1>5, <1>6 DEF SameHead
<1> QED BY <1>3, <1>13, <1>14

-----------------------------------------------------------------------------
(***************************************************************************)
(* What the others leave alone.                                            *)
(***************************************************************************)
LEMMA Remembering ==
  ASSUME Remember
  PROVE  MetOK' /\ \A c \in Coroutine : Exposed(c)' /\ ~met'[c] => ~met[c]
<1>1. /\ met' \in [Coroutine -> BOOLEAN]
      /\ \A c \in Coroutine : met'[c] = (Exposed(c)' /\ (met[c] \/ Disturbed(c)'))
  BY DEF Remember
<1>2. \A c \in Coroutine : Disturbed(c)' => Exposed(c)'
  BY DEF Disturbed
<1> QED BY <1>1, <1>2 DEF MetOK

\* Nobody has disturbed what no other server met.
LEMMA Undisturbed ==
  ASSUME MetOK, Remember, NEW c \in Coroutine, Exposed(c), Exposed(c)', ~met'[c]
  PROVE  ~met[c] /\ \A o \in Server : o # c[2] => ~Disturbs(o, c)
BY Remembering DEF MetOK, Disturbed

\* A coroutine whose call is at the head of its channel, and what it waits for.
LEMMA AtHead ==
  ASSUME ChannelsOK, NEW c \in Coroutine, queue[c[2]] # <<>>, Caller(c[2]) = c
  PROVE  /\ pc[c] = Now(c[2]).label
         /\ pc[c] \in {"download", "mix", "compose"} => Exposed(c)
<1>1. c[2] \in Process /\ c[2] \in Server
  BY CoroutineFacts DEF Server
<1> QED BY <1>1, CallFacts DEF Exposed

\* A composition that has just begun has done nothing.
LEMMA Begun ==
  ASSUME ChannelsOK', NEW p \in Process, queue'[p] # <<>>, Begins(queue'[p][1])
  PROVE  Composing(p)'
<1>1. queue'[p] \in Seq(CallSet)
  BY DEF ChannelsOK, Server
<1>2. Now(p)' = queue'[p][1] /\ Now(p)' \in CallSet
  BY <1>1, HeadFacts DEF Now
<1> DEFINE k == Now(p)'
<1>3. k.step = "start" /\ k.tried = 0 /\ k.list = <<>> /\ k.clips \in Seq(1..Segments)
  BY <1>2 DEF Begins, CallSet, Plan
<1>4. Len(k.clips) \in Nat /\ Increasing(k.list) /\ DOMAIN k.list = {}
  BY <1>3 DEF Increasing
<1> QED BY <1>3, <1>4 DEF Composing, Shows

\* A step that writes no file, goes on with no call it had begun, and brings no
\* video nearer to its publication.
LEMMA Quiet ==
  ASSUME IInv, ChannelsOK', FilesOK', Remember, UNCHANGED <<file, work, film>>,
         \A p \in Process : SameHead(p),
         \A d \in Coroutine : pc'[d] = pc[d] \/ pc'[d] \in {"idle", "submit", "compose"},
         \A d \in Maker : job'[d] = job[d] \/ pc'[d] \notin {"download", "mix", "probe"}
  PROVE  IInv'
<1>1. ChannelsOK /\ MetOK /\ (\A c \in Maker : Safe(c)) /\ (\A p \in Process : Composing(p))
  BY DEF IInv
<1>2. MetOK' /\ \A c \in Coroutine : Exposed(c)' /\ ~met'[c] => ~met[c]
  BY Remembering
<1>3. ASSUME NEW p \in Process, queue'[p] # <<>>
      PROVE  /\ Now(p)' = queue'[p][1] /\ Caller(p)' \in Coroutine
             /\ Caller(p)' = queue'[p][1].by /\ Caller(p)'[2] = p
             /\ pc'[Caller(p)'] = queue'[p][1].label
  <2>1. queue'[p] \in Seq(CallSet)
    BY DEF ChannelsOK, Server
  <2>2. Now(p)' = queue'[p][1] /\ queue'[p][1] \in CallSet /\ 1 \in DOMAIN queue'[p]
    BY <1>3, <2>1, HeadFacts DEF Now
  <2>3. Caller(p)' = queue'[p][1].by /\ Caller(p)' \in Coroutine
    BY <2>2 DEF Caller, CallSet
  <2> QED BY <2>2, <2>3 DEF ChannelsOK, Waiting
<1>4. ASSUME NEW p \in Process, queue'[p] # <<>>, ~Begins(queue'[p][1])
      PROVE  queue[p] # <<>> /\ Now(p)' = Now(p) /\ Caller(p)' = Caller(p)
  <2>1. queue[p] # <<>> /\ queue'[p][1] = queue[p][1]
    BY <1>4 DEF SameHead
  <2>2. Now(p) = queue[p][1]
    BY <1>1, <2>1, CallFacts DEF Server
  <2>3. Now(p)' = Now(p)
    BY <1>3, <1>4, <2>1, <2>2
  <2> QED BY <2>1, <2>3 DEF Caller
<1>5. ASSUME NEW d \in Maker PROVE Safe(d)'
  <2>1. d \in Coroutine /\ d[2] \in Process
    BY CoroutineFacts
  <2>2. Safe(d)
    BY <1>1
  <2>3. pc'[d] \in {"download", "mix", "probe"} => job'[d] = "succeeded"
    BY <2>1, <2>2 DEF Safe
  <2>4. ~met'[d] /\ pc'[d] \in {"mix", "probe"} => file'[d[1]] \in Whole
    BY <1>2, <2>1, <2>2 DEF Safe, Exposed
  <2>5. ~met'[d] /\ Opened(d)' => file'[d[1]] # "garbled"
    <3> HAVE ~met'[d] /\ Opened(d)'
    <3>1. /\ queue'[d[2]] # <<>> /\ Now(d[2])'.label = "download" /\ Now(d[2])'.step = "open"
          /\ Caller(d[2])' = d
      BY DEF Opened, At, Runs
    <3>2. pc'[d] = "download" /\ ~Begins(queue'[d[2]][1])
      BY <1>3, <2>1, <3>1 DEF Begins
    <3>3. Opened(d)
      BY <1>4, <2>1, <3>1, <3>2 DEF Opened, At, Runs
    <3>4. ~met[d]
      BY <1>2, <2>1, <3>1, <3>2 DEF Exposed
    <3> QED BY <2>2, <3>3, <3>4 DEF Safe
  <2> QED BY <2>3, <2>4, <2>5 DEF Safe
<1>6. ASSUME NEW p \in Process PROVE Composing(p)'
  <2> SUFFICES ASSUME queue'[p] # <<>>, Now(p)'.label = "compose", ~met'[Caller(p)']
               PROVE  Composing(p)'
    BY DEF Composing, Runs
  <2>1. CASE Begins(queue'[p][1])
    BY <1>3, <2>1, Begun
  <2>2. CASE ~Begins(queue'[p][1])
    <3>1. queue[p] # <<>> /\ Now(p)' = Now(p) /\ Caller(p)' = Caller(p) /\ Caller(p)' \in Coroutine
          /\ Caller(p)'[2] = p /\ pc'[Caller(p)'] = "compose"
      BY <1>3, <1>4, <2>2
    <3>2. ~met[Caller(p)]
      BY <1>2, <3>1 DEF Exposed
    <3>3. Composing(p)
      BY <1>1
    <3>4. norm' = norm /\ listed' = listed /\ film' = film
      BY DEF work
    <3>5. Subject(p)' = Subject(p)
      BY <3>1 DEF Subject
    <3> QED BY <3>1, <3>2, <3>3, <3>4, <3>5 DEF Composing, Runs, Shows
  <2> QED BY <2>1, <2>2
<1> QED BY <1>2, <1>5, <1>6 DEF IInv

\* What a server's call may change, and what remains to be shown of its own work.
Writes(s) == /\ \A v \in Video : file'[v] # file[v] =>
                  (Runs(s, "download") \/ Runs(s, "mix")) /\ v = Subject(s)
             /\ UNCHANGED <<work, film>> \/ Runs(s, "compose")
Own(s) == s \in Process => /\ \A d \in Maker : d = Caller(s) => Safe(d)'
                           /\ Composing(s)'

LEMMA Aside ==
  ASSUME IInv, ChannelsOK', FilesOK', Remember, NEW s \in Server, queue[s] # <<>>, Turn(s), Writes(s),
         \A d \in Maker : (s \in Process => d # Caller(s)) => job'[d] = job[d],
         Own(s)
  PROVE  IInv'
<1>1. ChannelsOK /\ MetOK /\ (\A c \in Maker : Safe(c)) /\ (\A p \in Process : Composing(p))
  BY DEF IInv
<1>2. MetOK' /\ \A c \in Coroutine : Exposed(c)' /\ ~met'[c] => ~met[c]
  BY Remembering
<1>3. \A q \in Server : q # s => queue'[q] = queue[q]
  BY DEF Turn
<1>4. ASSUME NEW d \in Maker PROVE Safe(d)'
  <2>1. d \in Coroutine /\ d[2] \in Process /\ d[2] \in Server /\ d[1] \in Video /\ d = <<d[1], d[2]>>
    BY CoroutineFacts DEF Server
  <2>2. CASE s \in Process /\ d = Caller(s)
    BY <2>2 DEF Own
  <2>3. CASE s \in Process => d # Caller(s)
    <3>1. pc'[d] = pc[d] /\ job'[d] = job[d]
      BY <2>1, <2>3 DEF Turn
    <3>2. Safe(d)
      BY <1>1
    <3>3. pc'[d] \in {"download", "mix", "probe"} => job'[d] = "succeeded"
      BY <3>1, <3>2 DEF Safe
    <3>4. ASSUME Exposed(d), Exposed(d)', ~met'[d], pc[d] # "compose"
          PROVE  ~met[d] /\ file'[d[1]] = file[d[1]]
      <4>1. ~met[d] /\ \A o \in Server : o # d[2] => ~Disturbs(o, d)
        BY <1>1, <2>1, <3>4, Undisturbed
      <4>2. CASE s # d[2]
        <5>1. ~Disturbs(s, d)
          BY <4>1, <4>2
        <5> QED BY <2>1, <3>4, <4>1, <5>1 DEF Disturbs, Writes
      <4>3. CASE s = d[2]
        <5>1. Caller(s) \in Coroutine /\ Caller(s)[2] = s /\ Caller(s) = <<Caller(s)[1], Caller(s)[2]>>
          BY <1>1, <2>1, <4>3, CallFacts, CoroutineFacts
        <5>2. Subject(s) # d[1]
          BY <2>1, <2>3, <4>3, <5>1 DEF Subject
        <5> QED BY <2>1, <4>1, <5>2 DEF Writes
      <4> QED BY <4>2, <4>3
    <3>5. ~met'[d] /\ pc'[d] \in {"mix", "probe"} => file'[d[1]] \in Whole
      <4> HAVE ~met'[d] /\ pc'[d] \in {"mix", "probe"}
      <4>1. Exposed(d) /\ Exposed(d)'
        BY <3>1 DEF Exposed
      <4> QED BY <3>1, <3>2, <3>4, <4>1 DEF Safe
    <3>6. ~met'[d] /\ Opened(d)' => file'[d[1]] # "garbled"
      <4> HAVE ~met'[d] /\ Opened(d)'
      <4>1. /\ queue'[d[2]] # <<>> /\ Now(d[2])'.label = "download" /\ Now(d[2])'.step = "open"
            /\ Caller(d[2])' = d
        BY DEF Opened, At, Runs
      <4>2. Now(d[2])' = queue'[d[2]][1]
        <5>1. queue'[d[2]] \in Seq(CallSet)
          BY <2>1 DEF ChannelsOK
        <5> QED BY <4>1, <5>1, HeadFacts DEF Now
      <4>3. d[2] # s
        BY <2>1, <2>3, <4>1, <4>2 DEF Turn, Begins, Caller
      <4>4. queue'[d[2]] = queue[d[2]] /\ Now(d[2])' = Now(d[2]) /\ Caller(d[2])' = Caller(d[2])
        BY <1>3, <2>1, <4>3 DEF Now, Caller
      <4>5. Opened(d) /\ queue[d[2]] # <<>> /\ Caller(d[2]) = d /\ Now(d[2]).label = "download"
        BY <4>1, <4>4 DEF Opened, At, Runs
      <4>6. pc[d] = "download" /\ Exposed(d)
        BY <1>1, <2>1, <4>5, AtHead
      <4>7. Exposed(d)'
        BY <3>1, <4>1, <4>6 DEF Exposed
      <4> QED BY <3>2, <3>4, <4>5, <4>6, <4>7 DEF Safe
    <3> QED BY <3>3, <3>5, <3>6 DEF Safe
  <2> QED BY <2>2, <2>3
<1>5. ASSUME NEW p \in Process PROVE Composing(p)'
  <2>1. CASE p = s
    BY <2>1 DEF Own
  <2>2. CASE p # s
    <3>1. p \in Server /\ queue'[p] = queue[p]
      BY <1>3, <2>2 DEF Server
    <3>2. Now(p)' = Now(p) /\ Caller(p)' = Caller(p) /\ Subject(p)' = Subject(p)
      BY <3>1 DEF Now, Caller, Subject
    <3> SUFFICES ASSUME queue[p] # <<>>, Now(p).label = "compose", ~met'[Caller(p)]
                 PROVE  Composing(p)'
      BY <3>1, <3>2 DEF Composing, Runs
    <3>0. PICK c \in Coroutine : c = Caller(p) /\ c[2] = p /\ pc[c] = "compose"
      BY <1>1, <3>1, CallFacts
    <3>3. c \in Coroutine /\ c[2] = p /\ pc[c] = "compose" /\ c = Caller(p) /\ ~met'[c]
      BY <3>0
    <3>4. s \in Process => Caller(s)[2] = s
      BY <1>1, CallFacts
    <3>5. pc'[c] = "compose"
      BY <2>2, <3>3, <3>4 DEF Turn
    <3>6. Exposed(c)
      BY <3>3 DEF Exposed
    <3>7. Exposed(c)'
      BY <3>1, <3>2, <3>3, <3>5 DEF Exposed
    <3>8. ~met[c] /\ ~Disturbs(s, c)
      BY <1>1, <2>2, <3>3, <3>6, <3>7, Undisturbed
    <3>9. ~Runs(s, "compose")
      BY <3>3, <3>8 DEF Disturbs
    <3>10. norm' = norm /\ listed' = listed /\ film' = film
      BY <3>9 DEF Writes, work
    <3>11. Composing(p)
      BY <1>1
    <3> QED BY <3>1, <3>2, <3>3, <3>8, <3>10, <3>11 DEF Composing, Runs, Shows
  <2> QED BY <2>1, <2>2
<1> QED BY <1>2, <1>4, <1>5 DEF IInv

\* When the call is over, or starts again, its coroutine's next step depends on
\* the provider's job and the file only.
Deserves(s) == s \in Process => \A d \in Maker : d = Caller(s) =>
  /\ pc'[d] \in {"download", "mix", "probe"} => job'[d] = "succeeded"
  /\ ~met'[d] /\ pc'[d] \in {"mix", "probe"} => file'[d[1]] \in Whole

LEMMA Answered ==
  ASSUME IInv, ChannelsOK', FilesOK', Remember, NEW s \in Server, queue[s] # <<>>, Turn(s), Starts(s),
         Writes(s), \A d \in Maker : (s \in Process => d # Caller(s)) => job'[d] = job[d], Deserves(s)
  PROVE  IInv'
<1>1. ASSUME s \in Process, NEW d \in Maker, d = Caller(s)
      PROVE  Safe(d)'
  <2>1. d[2] = s
    BY <1>1, CallFacts DEF IInv
  <2>2. ~Opened(d)'
    <3> SUFFICES ASSUME Opened(d)' PROVE FALSE
      OBVIOUS
    <3>1. queue'[s] # <<>> /\ Now(s)'.step = "open"
      BY <2>1 DEF Opened, At, Runs
    <3>2. queue'[s] \in Seq(CallSet)
      BY DEF ChannelsOK
    <3>3. Now(s)' = queue'[s][1]
      BY <3>1, <3>2, HeadFacts DEF Now
    <3> QED BY <3>1, <3>3 DEF Starts, Begins
  <2> QED BY <1>1, <2>2 DEF Deserves, Safe
<1>2. s \in Process => Composing(s)'
  <2> HAVE s \in Process
  <2>1. CASE queue'[s] = <<>>
    BY <2>1 DEF Composing, Runs
  <2>2. CASE queue'[s] # <<>>
    BY <2>2, Begun DEF Starts
  <2> QED BY <2>1, <2>2
<1>3. Own(s)
  BY <1>1, <1>2 DEF Own
<1> QED BY <1>3, Aside

\* What is known of a call that is made for a video, and of one for a film.
LEMMA MakerFacts ==
  ASSUME ChannelsOK, NEW s \in Server, queue[s] # <<>>, Now(s).label # "compose"
  PROVE  Caller(s) \in Maker /\ Subject(s) \in Video /\ (s \in Process => pc[Caller(s)] = Now(s).label)
<1>1. Caller(s) \in Maker
  BY CallFacts DEF MadeBy, Caller
<1> QED BY <1>1, CallFacts, CoroutineFacts DEF Subject

LEMMA ComposerFacts ==
  ASSUME ChannelsOK, NEW s \in Server, Runs(s, "compose")
  PROVE  /\ queue[s] # <<>> /\ Now(s) \in CallSet /\ Caller(s) \in Coroutine /\ Subject(s) \in Task
         /\ Now(s).clips \in Seq(1..Segments) /\ Increasing(Now(s).clips) /\ Len(Now(s).clips) <= Segments
         /\ Now(s).list \in Seq(Nat) /\ Now(s).tried \in Nat
         /\ s \in Process => pc[Caller(s)] = "compose" /\ Caller(s)[2] = s
<1>1. queue[s] # <<>> /\ Now(s).label = "compose"
  BY DEF Runs
<1>2. /\ Now(s) \in CallSet /\ Caller(s) \in Coroutine /\ Caller(s) \in Composer
      /\ s \in Process => pc[Caller(s)] = "compose" /\ Caller(s)[2] = s
  BY <1>1, CallFacts DEF MadeBy, Caller
<1>3. Now(s).clips \in Plan /\ Now(s).list \in Seq(Nat) /\ Now(s).tried \in Nat
  BY <1>2 DEF CallSet
<1> QED BY <1>1, <1>2, <1>3, CoroutineFacts DEF Subject, Plan

LEMMA Raising ==
  ASSUME IInv, FilesOK', Remember, NEW s \in Server, queue[s] # <<>>, Raise(s),
         UNCHANGED <<job, file, work>>, film' = film \/ Runs(s, "compose")
  PROVE  IInv'
<1>1. ChannelsOK /\ FilesOK /\ (\A c \in Maker : Safe(c))
  BY DEF IInv
<1>2. Writes(s)
  BY DEF Writes
<1>3. CASE Answer(s, "idle")
  <2>1. ChannelsOK' /\ Turn(s) /\ Starts(s) /\ (s \in Process => pc'[Caller(s)] = "idle")
    BY <1>1, <1>3, Answering DEF Labels
  <2>2. Deserves(s)
    BY <2>1 DEF Deserves
  <2> QED BY <1>2, <2>1, <2>2, Answered
<1>4. CASE s \in Process /\ Now(s).tries < Retries /\ Replace(s, Again(s))
  <2>1. Now(s) \in CallSet /\ Caller(s) \in Coroutine
    BY <1>1, CallFacts
  <2>2. Again(s) \in CallSet /\ Begins(Again(s)) /\ Again(s).by = Caller(s) /\ Again(s).label = Now(s).label
    <3>1. Now(s).label \in Labels /\ Now(s).clips \in Plan /\ Now(s).tries + 1 \in 0..Retries
      BY <1>4, <2>1, RetriesAssumption DEF CallSet
    <3>2. Again(s) \in CallSet /\ Begins(Again(s))
      BY <2>1, <3>1, NewCall DEF Again
    <3> QED BY <3>2 DEF Again, Call
  <2>3. ChannelsOK' /\ Turn(s) /\ Now(s)' = Again(s) /\ queue'[s] # <<>> /\ pc' = pc
    BY <1>1, <1>4, <2>2, Replacing
  <2>4. Starts(s)
    <3>1. queue'[s] \in Seq(CallSet)
      BY <2>3 DEF ChannelsOK
    <3>2. Now(s)' = queue'[s][1]
      BY <2>3, <3>1, HeadFacts DEF Now
    <3> QED BY <2>2, <2>3, <3>2 DEF Starts
  <2>5. Deserves(s)
    <3> SUFFICES ASSUME NEW d \in Maker
                 PROVE  /\ pc'[d] \in {"download", "mix", "probe"} => job'[d] = "succeeded"
                        /\ ~met'[d] /\ pc'[d] \in {"mix", "probe"} => file'[d[1]] \in Whole
      BY DEF Deserves
    <3>1. Safe(d) /\ d \in Coroutine
      BY <1>1, CoroutineFacts
    <3>2. ~met'[d] /\ pc'[d] \in {"mix", "probe"} => ~met[d]
      BY <3>1, Remembering DEF Exposed
    <3> QED BY <2>3, <3>1, <3>2 DEF Safe
  <2> QED BY <1>2, <2>3, <2>4, <2>5, Answered
<1> QED BY <1>3, <1>4 DEF Raise

-----------------------------------------------------------------------------
(***************************************************************************)
(* The calls for a video.                                                  *)
(***************************************************************************)
LEMMA SubmittedSafe ==
  ASSUME IInv, Remember, NEW s \in Server, Submitted(s)
  PROVE  IInv'
<1>1. ChannelsOK /\ FilesOK /\ queue[s] # <<>> /\ Now(s).label = "submit"
  BY DEF IInv, Submitted, At, Runs
<1>2. Caller(s) \in Maker /\ (s \in Process => pc[Caller(s)] = "submit")
  BY <1>1, MakerFacts
<1>3. s \in Process
  <2>1. s \in Orphan => Inherited(queue[s])
    BY <1>1 DEF ChannelsOK
  <2>2. queue[s] \in Seq(CallSet) /\ Now(s) = queue[s][1]
    BY <1>1, CallFacts
  <2>3. 1 \in DOMAIN queue[s]
    BY <1>1, <2>2, HeadFacts
  <2> QED BY <1>1, <2>1, <2>2, <2>3 DEF Inherited, Server
<1>4. ChannelsOK' /\ Turn(s) /\ Starts(s) /\ pc'[Caller(s)] = "poll"
  BY <1>1, <1>2, <1>3, Calling DEF Submitted
<1>5. job' = [job EXCEPT ![Caller(s)] = "running"] /\ UNCHANGED <<file, url, work, film, users>>
  BY DEF Submitted
<1>6. FilesOK'
  BY <1>1, <1>5 DEF FilesOK, work, users, Clips
<1>7. \A d \in Maker : (s \in Process => d # Caller(s)) => job'[d] = job[d]
  BY <1>1, <1>3, <1>5 DEF FilesOK
<1>8. Writes(s) /\ Deserves(s)
  BY <1>4, <1>5 DEF Writes, Deserves
<1> QED BY <1>1, <1>4, <1>6, <1>7, <1>8, Answered

LEMMA PolledSafe ==
  ASSUME IInv, Remember, NEW s \in Server, Polled(s) \/ PollGivesUp(s)
  PROVE  IInv'
<1>1. ChannelsOK /\ FilesOK /\ queue[s] # <<>> /\ Now(s).label = "poll"
  BY DEF IInv, Polled, PollGivesUp, At, Runs
<1>2. Caller(s) \in Maker
  BY <1>1, MakerFacts
<1>3. UNCHANGED <<job, file, url, work, film, users>>
  BY DEF Polled, PollGivesUp
<1>4. FilesOK'
  BY <1>1, <1>3 DEF FilesOK, work, users, Clips
<1>5. Writes(s)
  BY <1>3 DEF Writes
<1>6. CASE Polled(s)
  <2>1. ChannelsOK' /\ Turn(s) /\ Starts(s) /\ (s \in Process => pc'[Caller(s)] = "download")
    BY <1>1, <1>2, <1>6, Calling DEF Polled
  <2>2. Deserves(s)
    BY <1>3, <1>6, <2>1 DEF Deserves, Polled
  <2> QED BY <1>1, <1>3, <1>4, <1>5, <2>1, <2>2, Answered
<1>7. CASE PollGivesUp(s)
  <2>1. ChannelsOK' /\ Turn(s) /\ Starts(s) /\ (s \in Process => pc'[Caller(s)] = "idle")
    BY <1>1, <1>7, Answering DEF PollGivesUp, Labels
  <2>2. Deserves(s)
    BY <2>1 DEF Deserves
  <2> QED BY <1>1, <1>3, <1>4, <1>5, <2>1, <2>2, Answered
<1> QED BY <1>6, <1>7

\* A server at work on another's file.
LEMMA SharedDisturbs ==
  ASSUME IInv, Remember, NEW s \in Process, NEW d \in Maker, queue[s] # <<>>, d = Caller(s),
         pc[d] \in {"download", "mix"}, Exposed(d)', ~met'[d]
  PROVE  ~met[d] /\ ~Shared(s)
<1>1. ChannelsOK /\ MetOK /\ s \in Server
  BY DEF IInv, Server
<1>2. d \in Coroutine /\ d[2] = s
  BY <1>1, CallFacts
<1>3. Exposed(d)
  BY <1>2 DEF Exposed
<1>4. ~met[d] /\ \A o \in Server : o # s => ~Disturbs(o, d)
  BY <1>1, <1>2, <1>3, Undisturbed
<1>5. ASSUME NEW o \in Server \ {s}, At(o, "download", "open") \/ Runs(o, "mix"), Subject(o) = Subject(s)
      PROVE  FALSE
  BY <1>4, <1>5 DEF Disturbs, At, Subject
<1> QED BY <1>4, <1>5 DEF Shared

LEMMA DownloadOpensSafe ==
  ASSUME IInv, Remember, NEW s \in Server, DownloadOpens(s)
  PROVE  IInv'
<1>1. ChannelsOK /\ FilesOK /\ queue[s] # <<>> /\ Now(s).label = "download"
  BY DEF IInv, DownloadOpens, At, Runs
<1>2. Now(s) \in CallSet /\ Caller(s) \in Maker /\ Subject(s) \in Video
      /\ (s \in Process => pc[Caller(s)] = "download")
  BY <1>1, CallFacts, MakerFacts
<1> DEFINE k == [Now(s) EXCEPT !.step = "open"]
<1>3. k \in CallSet /\ k.by = Caller(s) /\ k.label = Now(s).label /\ k.step = "open"
  BY <1>2 DEF CallSet, Steps, Caller
<1>4. Replace(s, k)
  BY DEF DownloadOpens, Progress
<1> HIDE DEF k
<1>5. ChannelsOK' /\ Turn(s) /\ Now(s)' = k /\ queue'[s] # <<>> /\ pc' = pc
  BY <1>1, <1>3, <1>4, Replacing
<1>6. /\ file' = [file EXCEPT ![Subject(s)] = IF Shared(s) THEN "garbled" ELSE "partial"]
      /\ UNCHANGED <<job, url, work, film, users>>
  BY DEF DownloadOpens
<1>7. FilesOK'
  BY <1>1, <1>2, <1>6 DEF FilesOK, work, users, Clips
<1>8. Writes(s)
  BY <1>1, <1>2, <1>6 DEF FilesOK, Writes, Runs
<1>9. ASSUME s \in Process, NEW d \in Maker, d = Caller(s)
      PROVE  Safe(d)'
  <2>1. pc'[d] = "download" /\ job'[d] = "succeeded"
    <3>1. Safe(d)
      BY DEF IInv
    <3> QED BY <1>2, <1>5, <1>6, <1>9, <3>1 DEF Safe
  <2>2. ~met'[d] /\ Opened(d)' => file'[d[1]] # "garbled"
    <3> HAVE ~met'[d] /\ Opened(d)'
    <3>1. Exposed(d)'
      BY <2>1 DEF Exposed, Opened, At, Runs
    <3>2. ~Shared(s)
      BY <1>1, <1>2, <1>9, <3>1, SharedDisturbs
    <3>3. d[1] = Subject(s)
      BY <1>9 DEF Subject
    <3> QED BY <1>1, <1>2, <1>6, <3>2, <3>3 DEF FilesOK
  <2> QED BY <2>1, <2>2 DEF Safe
<1>10. Composing(s)'
  BY <1>1, <1>3, <1>5 DEF Composing, Runs
<1>11. Own(s)
  BY <1>9, <1>10 DEF Own
<1> QED BY <1>1, <1>5, <1>6, <1>7, <1>8, <1>11, Aside

LEMMA DownloadEndsSafe ==
  ASSUME IInv, Remember, NEW s \in Server, DownloadEnds(s)
  PROVE  IInv'
<1>1. ChannelsOK /\ FilesOK /\ queue[s] # <<>> /\ Now(s).label = "download" /\ Now(s).step = "open"
  BY DEF IInv, DownloadEnds, At, Runs
<1>2. Caller(s) \in Maker /\ Subject(s) \in Video /\ (s \in Process => pc[Caller(s)] = "download")
  BY <1>1, MakerFacts
<1>3. /\ ChannelsOK' /\ Turn(s) /\ Starts(s)
      /\ s \in Process => pc'[Caller(s)] \in {"mix", "probe"}
  <2>1. CASE Answer(s, "probe")
    BY <1>1, <2>1, Answering DEF Labels
  <2>2. CASE AnswerAndCall(s, "mix")
    BY <1>1, <1>2, <2>2, Calling
  <2> QED BY <2>1, <2>2 DEF DownloadEnds
<1>4. /\ file' = [file EXCEPT ![Subject(s)] = IF @ = "garbled" THEN @ ELSE "raw"]
      /\ UNCHANGED <<job, url, work, film, users>>
  BY DEF DownloadEnds
<1>5. FilesOK'
  BY <1>1, <1>2, <1>4 DEF FilesOK, work, users, Clips, Whole
<1>6. Writes(s)
  BY <1>1, <1>2, <1>4 DEF FilesOK, Writes, Runs
<1>7. ASSUME s \in Process, NEW d \in Maker, d = Caller(s)
      PROVE  job'[d] = "succeeded" /\ (~met'[d] => file'[d[1]] \in Whole)
  <2>1. Safe(d) /\ d \in Coroutine /\ d[1] = Subject(s) /\ d[2] = s
    BY <1>1, <1>7, CallFacts, CoroutineFacts DEF IInv, Subject
  <2>2. job[d] = "succeeded"
    BY <1>2, <1>7, <2>1 DEF Safe
  <2>3. ASSUME ~met'[d] PROVE file[d[1]] # "garbled"
    <3>1. Exposed(d)'
      BY <1>3, <1>7 DEF Exposed
    <3>2. ~met[d]
      BY <2>1, <2>3, <3>1, Remembering
    <3>3. Opened(d)
      BY <1>1, <1>7, <2>1 DEF Opened, At, Runs
    <3> QED BY <2>1, <3>2, <3>3 DEF Safe
  <2>4. file[d[1]] # "garbled" => file'[d[1]] = "raw"
    BY <1>1, <1>2, <1>4, <2>1 DEF FilesOK
  <2> QED BY <1>4, <2>2, <2>3, <2>4 DEF Whole
<1>8. Deserves(s)
  BY <1>7 DEF Deserves
<1> QED BY <1>1, <1>3, <1>4, <1>5, <1>6, <1>8, Answered

LEMMA MixedSafe ==
  ASSUME IInv, Remember, NEW s \in Server, Mixed(s)
  PROVE  IInv'
<1>1. ChannelsOK /\ FilesOK /\ queue[s] # <<>> /\ Now(s).label = "mix"
  BY DEF IInv, Mixed, At, Runs
<1>2. Caller(s) \in Maker /\ Subject(s) \in Video /\ (s \in Process => pc[Caller(s)] = "mix")
  BY <1>1, MakerFacts
<1>3. /\ ChannelsOK' /\ Turn(s) /\ Starts(s)
      /\ s \in Process => pc'[Caller(s)] = "probe"
  BY <1>1, Answering DEF Labels, Mixed
<1>4. PICK f \in {file[Subject(s)]}
                 \cup (IF file[Subject(s)] \in Whole THEN {"mixed"} ELSE {"garbled"})
                 \cup (IF Shared(s) THEN {"garbled"} ELSE {}) :
         file' = [file EXCEPT ![Subject(s)] = f]
  BY DEF Mixed
<1>5. UNCHANGED <<job, url, work, film, users>>
  BY DEF Mixed
<1>6. FilesOK'
  <2>1. f \in {None, "partial", "garbled"} \cup Whole
    BY <1>1, <1>2, <1>4 DEF FilesOK, Whole
  <2> QED BY <1>1, <1>2, <1>4, <1>5, <2>1 DEF FilesOK, work, users, Clips
<1>7. Writes(s)
  BY <1>1, <1>2, <1>4, <1>5 DEF FilesOK, Writes, Runs
<1>8. ASSUME s \in Process, NEW d \in Maker, d = Caller(s)
      PROVE  job'[d] = "succeeded" /\ (~met'[d] => file'[d[1]] \in Whole)
  <2>1. Safe(d) /\ d[1] = Subject(s)
    BY <1>8 DEF IInv, Subject
  <2>2. job[d] = "succeeded"
    BY <1>2, <1>8, <2>1 DEF Safe
  <2>3. ASSUME ~met'[d] PROVE f \in Whole
    <3>1. Exposed(d)'
      BY <1>3, <1>8 DEF Exposed
    <3>2. ~met[d] /\ ~Shared(s)
      BY <1>1, <1>2, <1>8, <2>3, <3>1, SharedDisturbs
    <3>3. file[d[1]] \in Whole
      BY <1>2, <1>8, <2>1, <3>2 DEF Safe
    <3> QED BY <1>4, <2>1, <3>2, <3>3 DEF Whole
  <2>4. file'[d[1]] = f
    BY <1>1, <1>2, <1>4, <2>1 DEF FilesOK
  <2> QED BY <1>5, <2>2, <2>3, <2>4
<1>9. Deserves(s)
  BY <1>8 DEF Deserves
<1> QED BY <1>1, <1>3, <1>5, <1>6, <1>7, <1>9, Answered

-----------------------------------------------------------------------------
(***************************************************************************)
(* The composition of a film.                                              *)
(***************************************************************************)
\* A composition goes on: what it has made when no other one ran is to be shown.
LEMMA Progressing ==
  ASSUME IInv, FilesOK', Remember, NEW s \in Server, Runs(s, "compose"),
         NEW k \in CallSet, k.by = Caller(s), k.label = "compose", Replace(s, k),
         UNCHANGED <<job, file>>,
         \A t \in Task : /\ t = Subject(s) /\ s \in Process /\ Shows(t, Now(s))
                         /\ \A o \in Server : o # s => ~Runs(o, "compose")
                         => Shows(t, k)'
  PROVE  IInv'
<1>1. ChannelsOK /\ MetOK /\ queue[s] # <<>> /\ Now(s).label = "compose" /\ Subject(s) \in Task
  BY ComposerFacts DEF IInv, Runs
<1>2. ChannelsOK' /\ Turn(s) /\ Now(s)' = k /\ queue'[s] # <<>> /\ pc' = pc
  BY <1>1, Replacing
<1>3. Caller(s)' = Caller(s) /\ Subject(s)' = Subject(s)
  BY <1>2 DEF Caller, Subject
<1>4. Writes(s)
  BY DEF Writes
<1>5. ASSUME s \in Process, NEW d \in Maker, d = Caller(s)
      PROVE  Safe(d)'
  <2>1. pc'[d] = "compose" /\ d[2] = s
    BY <1>1, <1>2, <1>5, CallFacts
  <2>2. ~Opened(d)'
    BY <1>2, <2>1 DEF Opened, At, Runs
  <2> QED BY <2>1, <2>2 DEF Safe
<1>6. ASSUME s \in Process PROVE Composing(s)'
  <2> SUFFICES ASSUME ~met'[Caller(s)] PROVE Shows(Subject(s), Now(s))'
    BY <1>3 DEF Composing
  <2>1. PICK c \in Coroutine : c = Caller(s) /\ c[2] = s /\ pc[c] = "compose"
    BY <1>1, <1>6, CallFacts
  <2>2. Exposed(c) /\ Exposed(c)'
    BY <1>1, <1>2, <1>3, <2>1 DEF Exposed
  <2>3. ~met[c] /\ \A o \in Server : o # s => ~Disturbs(o, c)
    BY <1>1, <2>1, <2>2, Undisturbed
  <2>4. \A o \in Server : o # s => ~Runs(o, "compose")
    BY <2>1, <2>3 DEF Disturbs
  <2>5. Composing(s)
    BY <1>6 DEF IInv
  <2>6. Shows(Subject(s), Now(s))
    BY <2>1, <2>3, <2>5 DEF Composing
  <2>7. PICK t \in Task : t = Subject(s)
    BY <1>1
  <2>8. Shows(t, k)'
    BY <1>6, <2>4, <2>6, <2>7
  <2>9. Subject(s)' = t /\ Now(s)' = k
    BY <1>2, <1>3, <2>7
  <2> QED BY <2>8, <2>9 DEF Shows
<1>7. Own(s)
  BY <1>5, <1>6 DEF Own
<1> QED BY <1>1, <1>2, <1>4, <1>7, Aside

\* The next clip is normalised or left out.
LEMMA NormalisedSafe ==
  ASSUME IInv, Remember, NEW s \in Server, Normalised(s)
  PROVE  IInv'
<1>1. ChannelsOK /\ FilesOK /\ Runs(s, "compose") /\ Now(s).step = "start" /\ Clip(s) <= Len(Now(s).clips)
  BY DEF IInv, Normalised, ClipsLeft, At
<1> DEFINE n == Now(s)
<1>2. /\ queue[s] # <<>> /\ n \in CallSet /\ Caller(s) \in Coroutine /\ Subject(s) \in Task
      /\ n.clips \in Seq(1..Segments) /\ Len(n.clips) <= Segments
      /\ n.list \in Seq(Nat) /\ n.tried \in Nat
  BY <1>1, ComposerFacts
<1>3. Clip(s) = n.tried + 1 /\ Clip(s) \in 1..Segments /\ Clip(s) \in 1..Len(n.clips) /\ Clip(s) \in Nat
      /\ Len(n.clips) \in Nat
  BY <1>1, <1>2, SegmentsAssumption DEF Clip
<1>4. /\ Append(n.list, Clip(s)) \in Seq(Nat) /\ Len(Append(n.list, Clip(s))) = Len(n.list) + 1
      /\ Append(n.list, Clip(s))[Len(n.list) + 1] = Clip(s) /\ Len(n.list) \in Nat
      /\ \A i \in 1..Len(n.list) : Append(n.list, Clip(s))[i] = n.list[i]
      /\ DOMAIN n.list = 1..Len(n.list)
      /\ DOMAIN Append(n.list, Clip(s)) = 1..(Len(n.list) + 1)
  BY <1>2, <1>3, AppendProperties
<1> DEFINE next == [n EXCEPT !.tried = @ + 1, !.list = Append(@, Clip(s))]
<1>5. /\ next \in CallSet /\ next.by = n.by /\ next.label = n.label /\ next.step = n.step
      /\ next.clips = n.clips /\ next.tried = n.tried + 1 /\ next.list = Append(n.list, Clip(s))
  <2> DEFINE more == n.tried + 1
             longer == Append(n.list, Clip(s))
  <2>1. more \in Nat /\ longer \in Seq(Nat)
    BY <1>2, <1>4
  <2>2. next = [n EXCEPT !.tried = more, !.list = longer]
    BY <1>2 DEF CallSet
  <2> HIDE DEF n, more, longer, next
  <2>3. /\ next \in CallSet /\ next.by = n.by /\ next.label = n.label /\ next.step = n.step
        /\ next.clips = n.clips /\ next.tried = more /\ next.list = longer
    BY <1>2, <2>1, <2>2 DEF CallSet
  <2> QED BY <2>3 DEF more, longer
<1>6. Replace(s, next) /\ UNCHANGED <<job, file, url, listed, film, users>>
  BY DEF Normalised
<1> HIDE DEF next
<1>7. PICK k \in CallSet : k = next
  BY <1>5
<1>8. /\ k.by = Caller(s) /\ k.label = "compose" /\ k.step = "start"
       /\ k.clips = n.clips /\ k.tried = n.tried + 1 /\ k.list = Append(n.list, Clip(s))
  BY <1>1, <1>5, <1>7 DEF Runs, Caller
<1>9. Replace(s, k) /\ UNCHANGED <<job, file, url, listed, film, users>>
  BY <1>6, <1>7
<1>10. PICK clip \in {Source(s)} \cup (IF Crowded(s) THEN {Broken} ELSE {}) :
        norm' = [norm EXCEPT ![Clip(s)] = clip]
  BY DEF Normalised
<1>11. Source(s) = <<Subject(s), n.clips[Clip(s)]>> /\ Source(s) \in Video
  <2>1. n.clips[Clip(s)] \in 1..Segments
    <3> HIDE DEF n
    <3> QED BY <1>2, <1>3, ElementOfSeq
  <2>2. Source(s) = <<Subject(s), n.clips[Clip(s)]>>
    BY DEF Source
  <2> HIDE DEF n
  <2> QED BY <1>2, <2>1, <2>2 DEF Video
<1>12. FilesOK'
  <2>1. clip \in Clips
    BY <1>10, <1>11 DEF Clips
  <2> QED BY <1>1, <1>9, <1>10, <2>1 DEF FilesOK, users, Clips
<1>13. ASSUME NEW t \in Task, t = Subject(s), s \in Process, Shows(t, n),
              \A o \in Server : o # s => ~Runs(o, "compose")
       PROVE  Shows(t, k)'
  <2>1. clip = <<t, n.clips[Clip(s)]>>
    BY <1>10, <1>11, <1>13 DEF Crowded
  <2>2. norm'[Clip(s)] = <<t, n.clips[Clip(s)]>> /\ \A i \in 1..Segments : i # Clip(s) => norm'[i] = norm[i]
    BY <1>1, <1>3, <1>10, <2>1 DEF FilesOK
  <2> DEFINE r == Append(n.list, Clip(s))
  <2>3. /\ Len(r) = Len(n.list) + 1 /\ DOMAIN r = 1..(Len(n.list) + 1)
        /\ r[Len(n.list) + 1] = Clip(s) /\ \A i \in 1..Len(n.list) : r[i] = n.list[i]
    BY <1>4
  <2>4. Increasing(n.list) /\ \A i \in 1..Len(n.list) : /\ n.list[i] \in 1..n.tried
                                                        /\ norm[n.list[i]] = <<t, n.clips[n.list[i]]>>
    BY <1>4, <1>13 DEF Shows
  <2> HIDE DEF r
  <2>5. \A i \in DOMAIN r : \/ i = Len(n.list) + 1 /\ r[i] = Clip(s)
                            \/ i \in 1..Len(n.list) /\ r[i] = n.list[i]
    BY <1>4, <2>3
  <2>6. Increasing(r)
    <3> SUFFICES ASSUME NEW i \in DOMAIN r, NEW j \in DOMAIN r, j < i PROVE r[j] < r[i]
      BY DEF Increasing
    <3>1. i \in Nat /\ j \in Nat
      BY <1>4, <2>3
    <3>2. j \in 1..Len(n.list) /\ r[j] = n.list[j] /\ n.list[j] \in 1..n.tried
      BY <1>4, <2>3, <2>4, <2>5, <3>1
    <3>3. CASE i = Len(n.list) + 1
      BY <1>2, <1>3, <2>3, <3>2, <3>3
    <3>4. CASE i \in 1..Len(n.list)
      BY <1>4, <2>3, <2>4, <3>2, <3>4 DEF Increasing
    <3> QED BY <2>5, <3>3, <3>4
  <2>7. \A i \in DOMAIN r : r[i] \in 1..(n.tried + 1) /\ norm'[r[i]] = <<t, n.clips[r[i]]>>
    <3> TAKE i \in DOMAIN r
    <3>1. CASE r[i] = Clip(s)
      BY <1>2, <1>3, <2>2, <3>1
    <3>2. CASE i \in 1..Len(n.list) /\ r[i] = n.list[i]
      <4>1. r[i] \in 1..n.tried /\ norm[r[i]] = <<t, n.clips[r[i]]>>
        BY <2>4, <3>2
      <4>2. r[i] # Clip(s) /\ r[i] \in 1..Segments /\ r[i] \in 1..(n.tried + 1)
        BY <1>2, <1>3, <4>1, SegmentsAssumption
      <4> QED BY <2>2, <4>1, <4>2
    <3> QED BY <2>5, <3>1, <3>2
  <2>8. r = Append(n.list, Clip(s))
    BY DEF r
  <2>9. /\ k.list = r /\ k.tried = n.tried + 1 /\ k.clips = n.clips /\ k.step = "start"
        /\ n.tried + 1 <= Len(n.clips)
    BY <1>1, <1>3, <1>8, <2>8
  <2>10. /\ Increasing(k.list) /\ k.tried <= Len(k.clips)
         /\ \A i \in DOMAIN k.list : /\ k.list[i] \in 1..k.tried
                                     /\ norm'[k.list[i]] = <<t, k.clips[k.list[i]]>>
    BY <2>6, <2>7, <2>9
  <2> HIDE DEF n
  <2> QED BY <2>9, <2>10 DEF Shows
<1> QED BY <1>1, <1>8, <1>9, <1>12, <1>13, Progressing

LEMMA SkippedSafe ==
  ASSUME IInv, Remember, NEW s \in Server, Skipped(s)
  PROVE  IInv'
<1>1. ChannelsOK /\ FilesOK /\ Runs(s, "compose") /\ Now(s).step = "start" /\ Clip(s) <= Len(Now(s).clips)
  BY DEF IInv, Skipped, ClipsLeft, At
<1> DEFINE n == Now(s)
           next == [n EXCEPT !.tried = @ + 1]
<1>2. /\ n \in CallSet /\ n.label = "compose"
      /\ n.clips \in Seq(1..Segments) /\ Len(n.clips) <= Segments
      /\ n.list \in Seq(Nat) /\ n.tried \in Nat
  BY <1>1, ComposerFacts DEF Runs
<1>3. Clip(s) = n.tried + 1 /\ Clip(s) \in 1..Segments /\ Clip(s) \in 1..Len(n.clips)
  BY <1>1, <1>2, SegmentsAssumption DEF Clip
<1>4. Replace(s, next) /\ UNCHANGED <<job, file, url, listed, film, users>>
  BY DEF Skipped
<1>5. /\ next \in CallSet /\ next.by = n.by /\ next.label = n.label /\ next.step = n.step
      /\ next.clips = n.clips /\ next.tried = n.tried + 1 /\ next.list = n.list
  BY <1>2 DEF CallSet
<1> HIDE DEF next
<1>6. PICK k \in CallSet : k = next
  BY <1>5
<1>7. /\ k.by = Caller(s) /\ k.label = "compose" /\ k.step = "start" /\ Replace(s, k)
      /\ k.clips = n.clips /\ k.tried = n.tried + 1 /\ k.list = n.list
  BY <1>1, <1>2, <1>4, <1>5, <1>6 DEF Caller
<1>8. norm' \in [1..Segments -> Clips] /\ \A i \in 1..Segments : i # Clip(s) => norm'[i] = norm[i]
  BY <1>1, <1>3 DEF FilesOK, Skipped, Clips
<1>9. FilesOK'
  BY <1>1, <1>4, <1>8 DEF FilesOK, users, Clips
<1>10. ASSUME NEW t \in Task, t = Subject(s), s \in Process, Shows(t, n),
              \A o \in Server : o # s => ~Runs(o, "compose")
       PROVE  Shows(t, k)'
  <2>1. Increasing(n.list) /\ \A i \in DOMAIN n.list : /\ n.list[i] \in 1..n.tried
                                                       /\ norm[n.list[i]] = <<t, n.clips[n.list[i]]>>
    BY <1>10 DEF Shows
  <2>2. \A i \in DOMAIN n.list : /\ n.list[i] \in 1..(n.tried + 1)
                                 /\ norm'[n.list[i]] = <<t, n.clips[n.list[i]]>>
    <3> TAKE i \in DOMAIN n.list
    <3>1. n.list[i] \in 1..n.tried
      BY <2>1
    <3>2. n.list[i] # Clip(s) /\ n.list[i] \in 1..Segments /\ n.list[i] \in 1..(n.tried + 1)
      BY <1>2, <1>3, <3>1, SegmentsAssumption
    <3> QED BY <1>8, <2>1, <3>2
  <2> HIDE DEF n
  <2>3. k.tried <= Len(k.clips)
    BY <1>3, <1>7
  <2> QED BY <1>7, <2>1, <2>2, <2>3 DEF Shows
<1> QED BY <1>1, <1>4, <1>7, <1>9, <1>10, Progressing

\* The list is what was normalised, ...
LEMMA ListWrittenSafe ==
  ASSUME IInv, Remember, NEW s \in Server, ListWritten(s)
  PROVE  IInv'
<1>1. ChannelsOK /\ FilesOK /\ Runs(s, "compose")
  BY DEF IInv, ListWritten, At
<1> DEFINE n == Now(s)
           next == [n EXCEPT !.step = "concat"]
<1>2. n \in CallSet /\ n.label = "compose"
  BY <1>1, ComposerFacts DEF Runs
<1>3. Replace(s, next) /\ listed' = n.list /\ UNCHANGED <<job, file, url, norm, film, users>>
  BY DEF ListWritten, Progress
<1>4. /\ next \in CallSet /\ next.by = n.by /\ next.label = n.label /\ next.step = "concat"
      /\ next.clips = n.clips /\ next.tried = n.tried /\ next.list = n.list
  BY <1>2 DEF CallSet, Steps
<1> HIDE DEF next
<1>5. PICK k \in CallSet : k = next
  BY <1>4
<1>6. /\ k.by = Caller(s) /\ k.label = "compose" /\ k.step = "concat" /\ Replace(s, k)
      /\ k.clips = n.clips /\ k.tried = n.tried /\ k.list = n.list
  BY <1>2, <1>3, <1>4, <1>5 DEF Caller
<1>7. FilesOK'
  BY <1>1, <1>3 DEF FilesOK, users, Clips
<1>8. ASSUME NEW t \in Task, Shows(t, n) PROVE Shows(t, k)'
  <2> HIDE DEF n
  <2> QED BY <1>3, <1>6, <1>8 DEF Shows
<1> QED BY <1>1, <1>3, <1>6, <1>7, <1>8, Progressing

\* ... and joined they are the task's own clips in order.
LEMMA JoinedSafe ==
  ASSUME IInv, Remember, NEW s \in Server, Joined(s)
  PROVE  IInv'
<1>1. ChannelsOK /\ FilesOK /\ Runs(s, "compose") /\ Now(s).step = "concat"
  BY DEF IInv, Joined, At
<1> DEFINE n == Now(s)
           next == [n EXCEPT !.step = "clean"]
           joined == [i \in DOMAIN listed |-> norm[listed[i]]]
<1>2. /\ n \in CallSet /\ n.label = "compose" /\ Subject(s) \in Task
      /\ n.clips \in Seq(1..Segments) /\ Increasing(n.clips) /\ n.tried \in Nat
  BY <1>1, ComposerFacts DEF Runs
<1>3. /\ Replace(s, next) /\ UNCHANGED <<job, file, url, work, users>>
      /\ film' = [film EXCEPT ![Subject(s)] = IF OwnClips(Subject(s), joined) THEN "own" ELSE "wrong"]
  BY DEF Joined, Progress
<1>4. /\ next \in CallSet /\ next.by = n.by /\ next.label = n.label /\ next.step = "clean"
      /\ next.clips = n.clips /\ next.tried = n.tried /\ next.list = n.list
  BY <1>2 DEF CallSet, Steps
<1> HIDE DEF next
<1>5. PICK k \in CallSet : k = next
  BY <1>4
<1>6. /\ k.by = Caller(s) /\ k.label = "compose" /\ k.step = "clean" /\ Replace(s, k)
      /\ k.clips = n.clips /\ k.tried = n.tried /\ k.list = n.list
  BY <1>2, <1>3, <1>4, <1>5 DEF Caller
<1>7. FilesOK'
  BY <1>1, <1>2, <1>3 DEF FilesOK, work, users, Clips
<1>8. ASSUME NEW t \in Task, t = Subject(s), Shows(t, n) PROVE Shows(t, k)'
  <2>1. listed = n.list /\ Increasing(n.list) /\ n.tried <= Len(n.clips)
        /\ \A i \in DOMAIN n.list : /\ n.list[i] \in 1..n.tried
                                    /\ norm[n.list[i]] = <<t, n.clips[n.list[i]]>>
    BY <1>1, <1>8 DEF Shows
  <2>2. \A i \in DOMAIN n.list : /\ n.list[i] \in DOMAIN n.clips
                                 /\ n.clips[n.list[i]] \in 1..Segments
    <3>1. \A i \in DOMAIN n.list : n.list[i] \in 1..Len(n.clips)
      BY <1>2, <2>1
    <3> HIDE DEF n
    <3> QED BY <1>2, <3>1, ElementOfSeq, LenProperties
  <2> HIDE DEF n
  <2>3. DOMAIN joined = DOMAIN n.list /\ \A i \in DOMAIN n.list : joined[i] = <<t, n.clips[n.list[i]]>>
    BY <2>1
  <2> HIDE DEF joined
  <2>4. OwnClips(t, joined)
    <3>1. ASSUME NEW i \in DOMAIN joined
          PROVE  joined[i] \in {t} \X (1..Segments)
      BY <2>2, <2>3
    <3>2. ASSUME NEW i \in DOMAIN joined, NEW j \in DOMAIN joined, j < i
          PROVE  joined[j][2] < joined[i][2]
      <4>1. n.list[j] < n.list[i]
        BY <2>1, <2>3, <3>2 DEF Increasing
      <4>2. n.clips[n.list[j]] < n.clips[n.list[i]]
        BY <1>2, <2>2, <2>3, <4>1 DEF Increasing
      <4> QED BY <2>3, <4>2
    <3> QED BY <3>1, <3>2 DEF OwnClips
  <2>5. film'[t] = "own"
    BY <1>1, <1>3, <1>8, <2>4 DEF FilesOK
  <2> QED BY <1>3, <1>6, <1>8, <2>1, <2>5 DEF Shows, work
<1> QED BY <1>1, <1>3, <1>6, <1>7, <1>8, Progressing

\* The film is there, or the attempt has failed.
LEMMA ComposedSafe ==
  ASSUME IInv, Remember, NEW s \in Server, Composed(s)
  PROVE  IInv'
<1>1. ChannelsOK /\ FilesOK /\ Runs(s, "compose")
  BY DEF IInv, Composed, At
<1>2. queue[s] # <<>>
  BY <1>1 DEF Runs
<1>3. ChannelsOK' /\ Turn(s) /\ Starts(s) /\ (s \in Process => pc'[Caller(s)] = "idle")
  BY <1>1, <1>2, Answering DEF Composed, Labels
<1>4. FilesOK'
  BY <1>1 DEF FilesOK, Composed, users, Clips
<1>5. Writes(s) /\ Deserves(s) /\ job' = job
  BY <1>1, <1>3 DEF Writes, Deserves, Composed
<1> QED BY <1>2, <1>3, <1>4, <1>5, Answered

LEMMA RaisedSafe ==
  ASSUME IInv, Remember, NEW s \in Server, CallRaises(s) \/ NothingToJoin(s) \/ JoinBreaks(s)
  PROVE  IInv'
<1>1. ChannelsOK /\ FilesOK
  BY DEF IInv
<1>2. CASE CallRaises(s) \/ NothingToJoin(s)
  <2>1. queue[s] # <<>> /\ Raise(s) /\ UNCHANGED <<job, file, url, work, film, users>>
    BY <1>2 DEF CallRaises, NothingToJoin, At, Runs
  <2>2. FilesOK'
    BY <1>1, <2>1 DEF FilesOK, work, users, Clips
  <2> QED BY <2>1, <2>2, Raising
<1>3. CASE JoinBreaks(s)
  <2>1. /\ queue[s] # <<>> /\ Runs(s, "compose") /\ Raise(s) /\ UNCHANGED <<job, file, url, work, users>>
        /\ film' = [film EXCEPT ![Subject(s)] = "wrong"]
    BY <1>3 DEF JoinBreaks, At, Runs
  <2>2. Subject(s) \in Task
    BY <1>1, <2>1, ComposerFacts
  <2>3. FilesOK'
    BY <1>1, <2>1, <2>2 DEF FilesOK, work, users, Clips
  <2> QED BY <2>1, <2>3, Raising
<1> QED BY <1>2, <1>3

-----------------------------------------------------------------------------
(***************************************************************************)
(* The users, the provider, and what dies.                                 *)
(***************************************************************************)
LEMMA RequestedSafe ==
  ASSUME IInv, Remember, (\E c \in Maker : Generate(c)) \/ (\E c \in Composer : Compose(c))
  PROVE  IInv'
<1>1. ChannelsOK /\ FilesOK
  BY DEF IInv
<1>2. ASSUME NEW c \in Maker, Generate(c)
      PROVE  IInv'
  <2>1. MadeBy(Call(c, "submit", <<>>, 0)) /\ c \in Coroutine
    BY CoroutineFacts DEF MadeBy, Call
  <2>2. Request(c, "submit", <<>>) /\ UNCHANGED <<file, url, work, film, crashes>>
        /\ job' = [job EXCEPT ![c] = "none"]
    BY <1>2 DEF Generate
  <2>3. /\ ChannelsOK' /\ (\A p \in Process : SameHead(p))
        /\ pc'[c] = "submit" /\ \A d \in Coroutine : d # c => pc'[d] = pc[d]
    BY <1>1, <2>1, <2>2, NoClips, Requesting DEF Labels
  <2>4. \A d \in Maker : job'[d] = job[d] \/ pc'[d] \notin {"download", "mix", "probe"}
    BY <1>1, <2>2, <2>3 DEF FilesOK
  <2>5. FilesOK'
    BY <1>1, <2>2, BoundsAssumption DEF FilesOK, work, Clips, Request
  <2> QED BY <2>2, <2>3, <2>4, <2>5, Quiet
<1>3. ASSUME NEW c \in Composer, Compose(c)
      PROVE  IInv'
  <2>1. c \in Coroutine /\ MadeBy(Call(c, "compose", Present(c[1]), 0)) /\ Present(c[1]) \in Plan
    BY PresentInOrder, CoroutineFacts DEF MadeBy, Call, Plan
  <2>2. Request(c, "compose", Present(c[1])) /\ UNCHANGED <<job, file, url, work, film, crashes>>
    BY <1>3 DEF Compose
  <2>3. /\ ChannelsOK' /\ (\A p \in Process : SameHead(p))
        /\ pc'[c] = "compose" /\ \A d \in Coroutine : d # c => pc'[d] = pc[d]
    BY <1>1, <2>1, <2>2, Requesting DEF Labels
  <2>4. FilesOK'
    BY <1>1, <2>2, BoundsAssumption DEF FilesOK, work, Clips, Request
  <2> QED BY <2>2, <2>3, <2>4, Quiet
<1> QED BY <1>2, <1>3

LEMMA EndedSafe ==
  ASSUME IInv, Remember, NEW c \in Maker,
         Published(c) \/ \E result \in {"succeeded", "failed"} : JobEnds(c, result)
  PROVE  IInv'
<1>1. ChannelsOK /\ FilesOK /\ c \in Coroutine /\ c[1] \in Video
  BY CoroutineFacts DEF IInv
<1>2. CASE Published(c)
  <2>1. /\ pc[c] = "probe" /\ pc' = [pc EXCEPT ![c] = "idle"] /\ url' = [url EXCEPT ![c[1]] = TRUE]
        /\ UNCHANGED <<queue, job, file, work, film, users>>
    BY <1>2 DEF Published
  <2>2. ChannelsOK' /\ pc'[c] = "idle" /\ \A d \in Coroutine : d # c => pc'[d] = pc[d]
    BY <1>1, <2>1, Publishing
  <2>3. FilesOK'
    BY <1>1, <2>1 DEF FilesOK, work, users, Clips
  <2>4. \A p \in Process : SameHead(p)
    BY <2>1 DEF SameHead
  <2> QED BY <2>1, <2>2, <2>3, <2>4, Quiet
<1>3. ASSUME NEW result \in {"succeeded", "failed"}, JobEnds(c, result)
      PROVE  IInv'
  <2>1. /\ job[c] = "running" /\ job' = [job EXCEPT ![c] = result]
        /\ UNCHANGED <<pc, queue, file, url, work, film, users>>
    BY <1>3 DEF JobEnds, calls
  <2>2. ChannelsOK'
    BY <1>1, <2>1 DEF ChannelsOK, Waiting, Once, Behind, Made, Inherited, MadeBy, Begins
  <2>3. FilesOK'
    BY <1>1, <2>1 DEF FilesOK, work, users, Clips
  <2>4. \A d \in Maker : job'[d] = job[d] \/ pc'[d] \notin {"download", "mix", "probe"}
    <3>1. Safe(c)
      BY DEF IInv
    <3>2. pc[c] \notin {"download", "mix", "probe"}
      BY <2>1, <3>1 DEF Safe
    <3> QED BY <1>1, <2>1, <3>2 DEF FilesOK
  <2>5. \A p \in Process : SameHead(p)
    BY <2>1 DEF SameHead
  <2> QED BY <2>1, <2>2, <2>3, <2>4, <2>5, Quiet
<1> QED BY <1>2, <1>3

LEMMA CrashSafe ==
  ASSUME IInv, Remember, NEW p \in Process, Crash(p)
  PROVE  IInv'
<1>1. ChannelsOK /\ FilesOK
  BY DEF IInv
<1>2. /\ ChannelsOK' /\ (\A q \in Process : SameHead(q))
      /\ \A d \in Coroutine : pc'[d] = "idle" \/ pc'[d] = pc[d]
  BY <1>1, Dying
<1>3. UNCHANGED <<job, file, url, work, film, asked>> /\ crashes < Crashes /\ crashes' = crashes + 1
  BY DEF Crash
<1>4. FilesOK'
  BY <1>1, <1>3, BoundsAssumption DEF FilesOK, work, Clips
<1> QED BY <1>2, <1>3, <1>4, Quiet

-----------------------------------------------------------------------------
(***************************************************************************)
(* The invariant holds.                                                    *)
(***************************************************************************)
LEMMA InitSafe == Init => IInv
<1> SUFFICES ASSUME Init PROVE IInv
  OBVIOUS
<1>1. queue \in [Server -> Seq(CallSet)] /\ \A s \in Server : queue[s] = <<>>
  BY DEF Init
<1>2. \A s \in Server : DOMAIN queue[s] = {} /\ Len(queue[s]) = 0
  BY <1>1
<1>3. Process \subseteq Server /\ Orphan \subseteq Server
  BY DEF Server
<1>4. pc \in [Coroutine -> Labels] /\ \A c \in Coroutine : pc[c] = "idle"
  BY DEF Init, Labels
<1>5. ChannelsOK
  BY <1>1, <1>2, <1>3, <1>4 DEF ChannelsOK, Waiting, Once, Behind, Made, Inherited
<1>6. FilesOK
  BY BoundsAssumption DEF Init, FilesOK, Whole, Clips
<1>7. \A c \in Coroutine : ~Exposed(c)
  BY <1>4 DEF Exposed
<1>8. MetOK
  BY <1>7 DEF Init, MetOK, Disturbed
<1>9. \A c \in Maker : Safe(c)
  <2> TAKE c \in Maker
  <2>1. pc[c] = "idle" /\ queue[c[2]] = <<>>
    BY <1>1, <1>3, <1>4, CoroutineFacts
  <2> QED BY <2>1 DEF Safe, Opened, At, Runs
<1>10. \A p \in Process : Composing(p)
  BY <1>1, <1>3 DEF Composing, Runs
<1> QED BY <1>5, <1>6, <1>8, <1>9, <1>10 DEF IInv

LEMMA StepSafe == IInv /\ [Next]_vars => IInv'
<1> SUFFICES ASSUME IInv, [Next]_vars PROVE IInv'
  OBVIOUS
<1>1. CASE Step /\ Remember
  <2>1. ASSUME NEW s \in Server, Channel(s) \/ CallRaises(s)
        PROVE  IInv'
    BY <1>1, <2>1, SubmittedSafe, PolledSafe, DownloadOpensSafe, DownloadEndsSafe, MixedSafe,
       NormalisedSafe, SkippedSafe, ListWrittenSafe, JoinedSafe, ComposedSafe, RaisedSafe DEF Channel
  <2> QED BY <1>1, <2>1, RequestedSafe, EndedSafe, CrashSafe DEF Step
<1>2. CASE UNCHANGED vars
  <2>1. UNCHANGED <<pc, queue, job, file, url, norm, listed, film, asked, crashes, met>>
    BY <1>2 DEF vars, calls, work, users
  <2>2. ChannelsOK'
    BY <2>1 DEF IInv, ChannelsOK, Waiting, Once, Behind, Made, Inherited, MadeBy, Begins
  <2>3. FilesOK'
    BY <2>1 DEF IInv, FilesOK, Clips
  <2>4. MetOK'
    BY <2>1 DEF IInv, MetOK, Disturbed, Exposed, Disturbs, Runs, Now, Caller, Subject
  <2>5. \A c \in Maker : Safe(c)'
    BY <2>1 DEF IInv, Safe, Opened, At, Runs, Now, Caller
  <2>6. \A p \in Process : Composing(p)'
    BY <2>1 DEF IInv, Composing, Shows, Runs, Now, Caller, Subject
  <2> QED BY <2>2, <2>3, <2>4, <2>5, <2>6 DEF IInv
<1> QED BY <1>1, <1>2 DEF Next

LEMMA Invariance == Spec => []IInv
BY InitSafe, StepSafe, PTL DEF Spec

\* The calls in the queues are those the coroutines wait for.
THEOREM TypeCorrect == Spec => []TypeOK
<1>1. IInv => TypeOK
  <2> SUFFICES ASSUME IInv PROVE TypeOK
    OBVIOUS
  <2>1. ChannelsOK /\ FilesOK /\ met \in [Coroutine -> BOOLEAN]
    BY DEF IInv, MetOK
  <2>2. DOMAIN queue = Server /\ \A s \in Server : queue[s] \in Seq(CallSet)
    BY <2>1 DEF ChannelsOK
  <2>3. \A s \in Server : \A i \in DOMAIN queue[s] : CallOK(queue[s][i])
    <3> TAKE s \in Server
    <3> TAKE i \in DOMAIN queue[s]
    <3>1. queue[s] \in Seq(CallSet)
      BY <2>2
    <3>2. queue[s][i] \in CallSet
      BY <3>1
    <3> QED BY <3>2 DEF CallOK, CallSet, Steps
  <2>4. \A p \in Process : \A i \in DOMAIN queue[p] :
          /\ queue[p][i].by[2] = p /\ pc[queue[p][i].by] = queue[p][i].label
          /\ queue[p][i].label \notin {"idle", "probe"}
    BY <2>1 DEF ChannelsOK, Waiting, Made, MadeBy, Server
  <2> QED BY <2>1, <2>2, <2>3, <2>4 DEF TypeOK, ChannelsOK, FilesOK, Labels, Inherited
<1> QED BY <1>1, Invariance, PTL

\* A film no other composition met shows the task's own clips, for any number of
\* tasks, processes, deaths and failures (compose_videos).
THEOREM FilmIsOwnHolds == Spec => []FilmIsOwn
<1>1. IInv => FilmIsOwn
  BY DEF IInv, FilmIsOwn, Composing, Shows, At
<1> QED BY <1>1, Invariance, PTL

\* A segment that gets its address has the whole video of a job that succeeded,
\* unless another server worked on it meanwhile (_generate_segment_video).
THEOREM DeliveredVideosPlayHolds == Spec => DeliveredVideosPlay
<1>1. IInv /\ [Next]_vars =>
        [\A c \in Maker : pc[c] = "probe" /\ pc'[c] = "idle" /\ crashes' = crashes /\ ~met[c]
           => file[c[1]] \in Whole /\ job[c] = "succeeded"]_vars
  BY DEF IInv, Safe
<1> QED BY <1>1, Invariance, PTL DEF Spec, DeliveredVideosPlay

=============================================================================
