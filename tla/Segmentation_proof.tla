------------------------- MODULE Segmentation_proof -------------------------
(***************************************************************************)
(* Proofs about Segmentation: for every script, every range of durations   *)
(* and every limit, the segments cut the shots into runs, each of one      *)
(* scene and within the limits, and the second look changes nothing.       *)
(*                                                                         *)
(* The durations of segments are sums over sequences of any length.  Their *)
(* facts are proved first, by looking at a smallest set of indices that    *)
(* violates them.                                                          *)
(***************************************************************************)
EXTENDS Segmentation, FiniteSets, FiniteSetTheorems, SequenceTheorems, NaturalsInduction,
        WellFoundedInduction, TLAPS

-----------------------------------------------------------------------------
(***************************************************************************)
(* Sums.  SumFunctionOnSet is a fold; its facts are proved by looking at a *)
(* smallest set that violates them.                                        *)
(***************************************************************************)
Pick(s) == CHOOSE x \in s : TRUE
Rest(s) == s \ {Pick(s)}

\* g adds up f over the subsets of I.
AddsUp(f, I, g) == g = [s \in SUBSET I |-> IF s = {} THEN 0 ELSE f[Pick(s)] + g[Rest(s)]]

Adder(f, I) == CHOOSE g : AddsUp(f, I, g)

LEMMA SumIsAdder ==
  ASSUME NEW f, NEW I
  PROVE  SumFunctionOnSet(f, I) = Adder(f, I)[I]
BY DEF SumFunctionOnSet, FoldFunctionOnSet, MapThenFoldSet, Adder, AddsUp, Pick, Rest

\* A family of finite sets that is not empty has a smallest member.
LEMMA SmallestSet ==
  ASSUME NEW I, NEW T \in SUBSET SUBSET I, T # {}, IsFiniteSet(I)
  PROVE  \E X \in T : IsFiniteSet(X) /\ \A Y \in T : ~(Y \subseteq X /\ Y # X)
<1>1. SUBSET I = FiniteSubsetsOf(I)
  BY FS_FiniteSubsetsOfFinite
<1>2. IsWellFoundedOn(StrictSubsetOrdering(I), FiniteSubsetsOf(I))
  BY FS_StrictSubsetOrderingWellFounded
<1>3. \E X \in T : \A Y \in T : ~(<<Y, X>> \in StrictSubsetOrdering(I))
  BY <1>1, <1>2, WFMin
<1> QED BY <1>3, FS_Subset DEF StrictSubsetOrdering

LEMMA PickIn == \A X : X # {} => Pick(X) \in X /\ Rest(X) \subseteq X /\ Rest(X) # X
BY DEF Pick, Rest

LEMMA AddsUpAt ==
  ASSUME NEW f, NEW I, NEW g, AddsUp(f, I, g), NEW X \in SUBSET I
  PROVE  g[X] = (IF X = {} THEN 0 ELSE f[Pick(X)] + g[Rest(X)])
<1> DEFINE h == [s \in SUBSET I |-> IF s = {} THEN 0 ELSE f[Pick(s)] + g[Rest(s)]]
<1>1. g = h
  BY DEF AddsUp
<1>2. h[X] = (IF X = {} THEN 0 ELSE f[Pick(X)] + g[Rest(X)])
  OBVIOUS
<1> HIDE DEF h
<1> QED BY <1>1, <1>2

LEMMA AdderUnique ==
  ASSUME NEW f, NEW I, IsFiniteSet(I), NEW J, NEW g, NEW h, AddsUp(f, I, g), AddsUp(f, J, h)
  PROVE  \A X : X \subseteq I /\ X \subseteq J => g[X] = h[X]
<1> DEFINE T == {X \in SUBSET I : X \subseteq J /\ g[X] # h[X]}
<1> SUFFICES ASSUME T # {} PROVE FALSE
  OBVIOUS
<1>1. PICK X \in T : \A Y \in T : ~(Y \subseteq X /\ Y # X)
  <2>1. T \in SUBSET SUBSET I
    OBVIOUS
  <2> HIDE DEF T
  <2> QED BY <2>1, SmallestSet
<1>2. X # {} => Rest(X) \subseteq I /\ Rest(X) \subseteq J /\ Rest(X) \notin T
  BY <1>1, PickIn
<1>5. X \in SUBSET I /\ X \in SUBSET J
  BY <1>1
<1> HIDE DEF T
<1>3. g[X] = (IF X = {} THEN 0 ELSE f[Pick(X)] + g[Rest(X)])
  BY <1>5, AddsUpAt
<1>4. h[X] = (IF X = {} THEN 0 ELSE f[Pick(X)] + h[Rest(X)])
  BY <1>5, AddsUpAt
<1> QED BY <1>1, <1>2, <1>3, <1>4, <1>5 DEF T

LEMMA AdderExists ==
  ASSUME NEW f, NEW I, IsFiniteSet(I)
  PROVE  AddsUp(f, I, Adder(f, I))
<1> DEFINE T == {X \in SUBSET I : ~\E g : AddsUp(f, X, g)}
<1>1. CASE T = {}
  <2>1. \E g : AddsUp(f, I, g)
    BY <1>1
  <2> QED BY <2>1 DEF Adder
<1>2. CASE T # {}
  <2>1. PICK X \in T : IsFiniteSet(X) /\ \A Y \in T : ~(Y \subseteq X /\ Y # X)
    <3>1. T \in SUBSET SUBSET I
      OBVIOUS
    <3> HIDE DEF T
    <3> QED BY <1>2, <3>1, SmallestSet
  <2>2. \A Y \in SUBSET X : Y # X => IsFiniteSet(Y) /\ AddsUp(f, Y, Adder(f, Y))
    <3> SUFFICES ASSUME NEW Y \in SUBSET X, Y # X PROVE IsFiniteSet(Y) /\ \E g : AddsUp(f, Y, g)
      BY DEF Adder
    <3> QED BY <2>1, FS_Subset
  <2> DEFINE V(Y) == Adder(f, Y)[Y]
             W(Y) == IF Y = {} THEN 0 ELSE f[Pick(Y)] + V(Rest(Y))
             g == [Y \in SUBSET X |-> W(Y)]
  <2>3. \A Y \in SUBSET X : Y # X => W(Y) = V(Y)
    <3> SUFFICES ASSUME NEW Y \in SUBSET X, Y # X PROVE W(Y) = V(Y)
      OBVIOUS
    <3>1. AddsUp(f, Y, Adder(f, Y)) /\ IsFiniteSet(Y)
      BY <2>2
    <3>2. V(Y) = (IF Y = {} THEN 0 ELSE f[Pick(Y)] + Adder(f, Y)[Rest(Y)])
      BY <3>1, AddsUpAt
    <3>3. ASSUME Y # {} PROVE Adder(f, Y)[Rest(Y)] = V(Rest(Y))
      <4>1. Rest(Y) \in SUBSET X /\ Rest(Y) # X /\ Rest(Y) \subseteq Y
        BY <3>3, PickIn
      <4>2. AddsUp(f, Rest(Y), Adder(f, Rest(Y)))
        BY <2>2, <4>1
      <4>3. Rest(Y) \subseteq Y /\ Rest(Y) \subseteq Rest(Y)
        BY <4>1
      <4> HIDE DEF W, g
      <4> QED BY <3>1, <4>2, <4>3, AdderUnique
    <3> QED BY <3>2, <3>3
  <2>4. \A Y \in SUBSET X : Y # {} => V(Rest(Y)) = g[Rest(Y)]
    <3> SUFFICES ASSUME NEW Y \in SUBSET X, Y # {} PROVE V(Rest(Y)) = g[Rest(Y)]
      OBVIOUS
    <3>1. Rest(Y) \in SUBSET X /\ Rest(Y) # X
      BY PickIn
    <3> HIDE DEF V, W
    <3> QED BY <2>3, <3>1
  <2>5. g = [Y \in SUBSET X |-> IF Y = {} THEN 0 ELSE f[Pick(Y)] + g[Rest(Y)]]
    <3>1. \A Y \in SUBSET X : W(Y) = IF Y = {} THEN 0 ELSE f[Pick(Y)] + g[Rest(Y)]
      BY <2>4
    <3> HIDE DEF W
    <3>2. \A Y \in SUBSET X : g[Y] = IF Y = {} THEN 0 ELSE f[Pick(Y)] + g[Rest(Y)]
      BY <3>1
    <3>3. g = [Y \in SUBSET X |-> g[Y]]
      OBVIOUS
    <3> HIDE DEF g
    <3> QED BY <3>2, <3>3
  <2> HIDE DEF g
  <2>6. AddsUp(f, X, g)
    BY <2>5 DEF AddsUp
  <2> QED BY <2>1, <2>6
<1> QED BY <1>1, <1>2

\* A sum takes an element of the set and adds the rest.
LEMMA SumEquation ==
  ASSUME NEW f, NEW I, IsFiniteSet(I)
  PROVE  SumFunctionOnSet(f, I) = IF I = {} THEN 0 ELSE f[Pick(I)] + SumFunctionOnSet(f, Rest(I))
<1>1. AddsUp(f, I, Adder(f, I))
  BY AdderExists
<1>2. Adder(f, I)[I] = (IF I = {} THEN 0 ELSE f[Pick(I)] + Adder(f, I)[Rest(I)])
  BY <1>1, AddsUpAt
<1>3. ASSUME I # {} PROVE Adder(f, I)[Rest(I)] = Adder(f, Rest(I))[Rest(I)]
  <2>1. Rest(I) \in SUBSET I /\ IsFiniteSet(Rest(I))
    BY <1>3, PickIn, FS_Subset
  <2>2. AddsUp(f, Rest(I), Adder(f, Rest(I)))
    BY <2>1, AdderExists
  <2>3. Rest(I) \subseteq I /\ Rest(I) \subseteq Rest(I)
    BY <2>1
  <2> QED BY <1>1, <2>2, <2>3, AdderUnique
<1> QED BY <1>2, <1>3, SumIsAdder

LEMMA SumNat ==
  ASSUME NEW I, IsFiniteSet(I), NEW f, \A i \in I : f[i] \in Nat
  PROVE  SumFunctionOnSet(f, I) \in Nat
<1> DEFINE T == {X \in SUBSET I : SumFunctionOnSet(f, X) \notin Nat}
<1> SUFFICES ASSUME T # {} PROVE FALSE
  OBVIOUS
<1>1. PICK X \in T : IsFiniteSet(X) /\ \A Y \in T : ~(Y \subseteq X /\ Y # X)
  <2>1. T \in SUBSET SUBSET I
    OBVIOUS
  <2> HIDE DEF T
  <2> QED BY <2>1, SmallestSet
<1>2. X # {} => Rest(X) \notin T /\ Rest(X) \in SUBSET I /\ Pick(X) \in I
  BY <1>1, PickIn
<1> QED BY <1>1, <1>2, SumEquation

\* Any element will do.
LEMMA SumRemove ==
  ASSUME NEW I, IsFiniteSet(I), NEW f, \A i \in I : f[i] \in Nat
  PROVE  \A x \in I : SumFunctionOnSet(f, I) = f[x] + SumFunctionOnSet(f, I \ {x})
<1> DEFINE S(X) == SumFunctionOnSet(f, X)
           T == {X \in SUBSET I : ~\A x \in X : S(X) = f[x] + S(X \ {x})}
<1> SUFFICES ASSUME T # {} PROVE FALSE
  OBVIOUS
<1>0. \A X \in SUBSET I : IsFiniteSet(X) /\ S(X) \in Nat
  BY FS_Subset, SumNat
<1>1. PICK X \in T : IsFiniteSet(X) /\ \A Y \in T : ~(Y \subseteq X /\ Y # X)
  <2>1. T \in SUBSET SUBSET I
    OBVIOUS
  <2> HIDE DEF T
  <2> QED BY <2>1, SmallestSet
<1>2. PICK x \in X : S(X) # f[x] + S(X \ {x})
  BY <1>1
<1> DEFINE c == Pick(X)
           Z == (X \ {x}) \ {c}
<1>3. c \in X /\ S(X) = f[c] + S(X \ {c})
  BY <1>1, PickIn, SumEquation DEF Rest
<1>4. x # c
  BY <1>2, <1>3
<1>5. X \ {c} \notin T /\ X \ {x} \notin T
  BY <1>1, <1>2, <1>3
<1>6. S(X \ {c}) = f[x] + S((X \ {c}) \ {x})
  BY <1>2, <1>4, <1>5
<1>7. S(X \ {x}) = f[c] + S(Z)
  BY <1>3, <1>4, <1>5
<1>8. (X \ {c}) \ {x} = Z
  OBVIOUS
<1>9. S(Z) \in Nat /\ f[x] \in Nat /\ f[c] \in Nat /\ S(X \ {x}) \in Nat
  BY <1>0, <1>1, <1>2, <1>3
<1>10. S(X) = f[c] + (f[x] + S(Z)) /\ S(X) # f[x] + (f[c] + S(Z))
  BY <1>2, <1>3, <1>6, <1>7, <1>8
<1> HIDE DEF S, c, Z
<1> QED BY <1>9, <1>10

LEMMA SumAgree ==
  ASSUME NEW I, IsFiniteSet(I), NEW f, NEW g, \A i \in I : f[i] = g[i]
  PROVE  SumFunctionOnSet(f, I) = SumFunctionOnSet(g, I)
<1> DEFINE T == {X \in SUBSET I : SumFunctionOnSet(f, X) # SumFunctionOnSet(g, X)}
<1> SUFFICES ASSUME T # {} PROVE FALSE
  OBVIOUS
<1>1. PICK X \in T : IsFiniteSet(X) /\ \A Y \in T : ~(Y \subseteq X /\ Y # X)
  <2>1. T \in SUBSET SUBSET I
    OBVIOUS
  <2> HIDE DEF T
  <2> QED BY <2>1, SmallestSet
<1>2. X # {} => Rest(X) \notin T /\ Rest(X) \in SUBSET I /\ Pick(X) \in I
  BY <1>1, PickIn
<1> QED BY <1>1, <1>2, SumEquation

\* A part of a family of durations lasts no longer than the whole.
LEMMA SumSubset ==
  ASSUME NEW I, IsFiniteSet(I), NEW f, \A i \in I : f[i] \in Nat, NEW X \in SUBSET I
  PROVE  SumFunctionOnSet(f, X) <= SumFunctionOnSet(f, I)
<1> DEFINE S(J) == SumFunctionOnSet(f, J)
           T == {J \in SUBSET I : X \subseteq J /\ ~(S(X) <= S(J))}
<1> SUFFICES ASSUME T # {} PROVE FALSE
  OBVIOUS
<1>0. \A J \in SUBSET I : IsFiniteSet(J) /\ S(J) \in Nat
  BY FS_Subset, SumNat
<1>1. PICK J \in T : IsFiniteSet(J) /\ \A Y \in T : ~(Y \subseteq J /\ Y # J)
  <2>1. T \in SUBSET SUBSET I
    OBVIOUS
  <2> HIDE DEF T
  <2> QED BY <2>1, SmallestSet
<1>2. J \in SUBSET I /\ X \subseteq J /\ ~(S(X) <= S(J)) /\ S(X) \in Nat /\ S(J) \in Nat
  BY <1>0, <1>1
<1>3. PICK j \in J : j \notin X
  <2>1. J # X
    BY <1>2
  <2> QED BY <1>2, <2>1
<1>4. J \ {j} \in SUBSET I /\ X \subseteq J \ {j} /\ J \ {j} \notin T
  BY <1>1, <1>2, <1>3
<1>5. S(X) <= S(J \ {j}) /\ S(J \ {j}) \in Nat
  BY <1>0, <1>4
<1>6. S(J) = f[j] + S(J \ {j}) /\ f[j] \in Nat
  <2>1. \A i \in J : f[i] \in Nat
    BY <1>2
  <2> QED BY <1>0, <1>2, <2>1, SumRemove
<1> HIDE DEF S, T
<1> QED BY <1>2, <1>5, <1>6

-----------------------------------------------------------------------------
\* What a sequence of durations adds up to.
LEMMA SumOfSeq ==
  ASSUME NEW s \in Seq(Nat)
  PROVE  SumFunction(s) = SumFunctionOnSet(s, 1..Len(s)) /\ SumFunction(s) \in Nat
<1>1. IsFiniteSet(1..Len(s)) /\ DOMAIN s = 1..Len(s)
  BY FS_Interval
<1> QED BY <1>1, SumNat DEF SumFunction

LEMMA SumEmpty == SumFunction(<<>>) = 0
<1>1. DOMAIN <<>> = {}
  OBVIOUS
<1> QED BY <1>1, SumEquation, FS_EmptySet DEF SumFunction

LEMMA SumAppend ==
  ASSUME NEW s \in Seq(Nat), NEW d \in Nat
  PROVE  SumFunction(Append(s, d)) = SumFunction(s) + d
<1> DEFINE a == Append(s, d)
           m == Len(s) + 1
<1>1. a \in Seq(Nat) /\ Len(a) = m /\ a[m] = d /\ \A i \in 1..Len(s) : a[i] = s[i]
  BY AppendProperties
<1>2. m \in Nat /\ IsFiniteSet(1..m) /\ IsFiniteSet(1..Len(s)) /\ (1..m) \ {m} = 1..Len(s)
  BY FS_Interval
<1>0. \A i \in 1..m : a[i] \in Nat
  BY <1>1, ElementOfSeq
<1> HIDE DEF a
<1>3. SumFunctionOnSet(a, 1..m) = a[m] + SumFunctionOnSet(a, (1..m) \ {m})
  <2>1. m \in 1..m
    OBVIOUS
  <2> HIDE DEF m
  <2> QED BY <1>0, <1>2, <2>1, SumRemove
<1>5. SumFunctionOnSet(a, 1..Len(s)) = SumFunctionOnSet(s, 1..Len(s))
  BY <1>1, <1>2, SumAgree
<1>6. SumFunction(a) = SumFunctionOnSet(a, 1..m) /\ SumFunction(s) = SumFunctionOnSet(s, 1..Len(s))
      /\ SumFunction(s) \in Nat
  BY <1>1, SumOfSeq
<1>7. SumFunction(a) = d + SumFunction(s)
  BY <1>1, <1>2, <1>3, <1>5, <1>6
<1>8. SumFunction(a) = SumFunction(s) + d
  BY <1>6, <1>7
<1> QED BY <1>8 DEF a

LEMMA SumOne == ASSUME NEW d \in Nat PROVE SumFunction(<<d>>) = d
<1>1. <<d>> = Append(<<>>, d) /\ <<>> \in Seq(Nat)
  OBVIOUS
<1>2. SumFunction(Append(<<>>, d)) = 0 + d
  BY <1>1, SumAppend, SumEmpty
<1> QED BY <1>1, <1>2

-----------------------------------------------------------------------------
(***************************************************************************)
(* The invariant.                                                          *)
(***************************************************************************)
\* What the shots `ids' last when the shots of the script last d.
Lasts(d, ids) == SumFunction([i \in DOMAIN ids |-> d[ids[i]]])

SegmentRec == [segment_id : Nat, shot_ids : Seq(Nat), duration : Nat, scene_key : Keys]

\* A finished segment shows its scene, within the limits, and its duration is
\* that of its shots, in a script whose shots have the scenes ky and last du.
Good(seg, ky, du) ==
  LET ids == seg.shot_ids
  IN  /\ seg \in SegmentRec
      /\ ids # <<>> /\ Len(ids) <= ShotLimit
      /\ \A i \in DOMAIN ids : ids[i] \in DOMAIN ky /\ ky[ids[i]] = seg.scene_key
      /\ seg.duration = Lasts(du, ids)
      /\ seg.duration <= SegMax \/ Len(ids) = 1

\* The segments of a list follow each other, and end with shot m.
Before(s, t) == \A i \in DOMAIN s.shot_ids, j \in DOMAIN t.shot_ids : s.shot_ids[i] < t.shot_ids[j]

Cuts(list, m, ky, du) ==
  /\ list \in Seq(SegmentRec) /\ m \in Nat
  /\ \A s \in DOMAIN list : Good(list[s], ky, du)
  /\ Runs(list, m)
  /\ \A s, t \in DOMAIN list : s < t => Before(list[s], list[t])
  /\ \A s \in DOMAIN list : \A i \in DOMAIN list[s].shot_ids : list[s].shot_ids[i] <= m

\* Why a shot of the same scene did not join the segment.
Full(seg, j, ky, gi) ==
  ky[j] = seg.scene_key => Len(seg.shot_ids) = ShotLimit \/ seg.duration + gi[j] > SegMax

Merged(list, ky, gi) ==
  \A s \in DOMAIN list : s + 1 \in DOMAIN list => Full(list[s], list[s + 1].shot_ids[1], ky, gi)

\* The open segment of _assign_segments: the shots before n that are in no
\* finished segment.
OpenOK == /\ Len(cur) < n /\ (cur = <<>> => n = 1 /\ segs = <<>>)
          /\ \A i \in DOMAIN cur : cur[i] = n - 1 - Len(cur) + i
          /\ \A i \in DOMAIN cur : key[cur[i]] = key[cur[Len(cur)]]
          /\ Len(cur) <= ShotLimit
          /\ curDur <= SegMax \/ Len(cur) <= 1

Assigning ==
  /\ old = <<>> /\ k = 1
  /\ OpenOK
  /\ Cuts(segs, n - 1 - Len(cur), key, dur)
  /\ \A s \in DOMAIN segs : segs[s].segment_id = s
  /\ Merged(segs, key, given)
  /\ segs # <<>> => Full(segs[Len(segs)], cur[1], key, given)
  /\ \A j \in Shots : j >= n => dur[j] = given[j]

Compressing ==
  /\ SameScene /\ UnderShotLimit /\ ~FitsDuration
  /\ scaled \in Seq(DurMin..DurMax) /\ Len(scaled) = Len(cur) + 1

\* The second look collects the shots of old[k] again, up to n.
CollectOK == IF k \in DOMAIN old
             THEN LET a == First(old, k)
                      l == Len(old[k].shot_ids)
                  IN  /\ \A i \in DOMAIN cur : cur[i] = a + i - 1
                      /\ Len(cur) = IF n <= a THEN 0 ELSE IF n <= a + l THEN n - a ELSE l
             ELSE cur = <<>>

\* A segment is what it was, under its new id.
Same(seg, was) == seg.shot_ids = was.shot_ids /\ seg.duration = was.duration /\ seg.scene_key = was.scene_key

Enforcing ==
  /\ Cuts(old, Len(key), key, dur) /\ Merged(old, key, given)
  /\ Len(segs) = k - 1 /\ segs \in Seq(SegmentRec)
  /\ \A s \in DOMAIN segs : /\ Same(segs[s], old[s])
                            /\ segs[s].segment_id = Len(old) + s
                            /\ \A i \in DOMAIN segs[s].shot_ids :
                                 part[segs[s].shot_ids[i]] = segs[s].segment_id
  /\ CollectOK

IInv ==
  /\ TypeOK
  /\ curDur = Lasts(dur, cur)
  /\ pc = "read" => n = 1 /\ cur = <<>> /\ dur = given
  /\ pc \in {"read", "assign", "compress"} => Assigning
  /\ pc = "compress" => Compressing
  /\ pc \in {"enforce", "check", "ready", "failed"} => Enforcing
  /\ pc \in {"check", "ready", "failed"} => k = Len(old) + 1

-----------------------------------------------------------------------------
(***************************************************************************)
(* What the shots of a segment last.                                       *)
(***************************************************************************)
LEMMA LastsNat ==
  ASSUME NEW d \in Seq(Nat), NEW ids \in Seq(DOMAIN d)
  PROVE  /\ [i \in DOMAIN ids |-> d[ids[i]]] \in Seq(Nat)
         /\ Len([i \in DOMAIN ids |-> d[ids[i]]]) = Len(ids)
         /\ Lasts(d, ids) \in Nat
<1> DEFINE f == [i \in DOMAIN ids |-> d[ids[i]]]
<1>1. \A x \in DOMAIN d : d[x] \in Nat
  OBVIOUS
<1>2. DOMAIN ids = 1..Len(ids) /\ Len(ids) \in Nat /\ \A i \in DOMAIN ids : ids[i] \in DOMAIN d
  OBVIOUS
<1>3. f = [i \in 1..Len(ids) |-> d[ids[i]]] /\ \A i \in 1..Len(ids) : d[ids[i]] \in Nat
  BY <1>1, <1>2
<1>4. f \in Seq(Nat) /\ Len(f) = Len(ids)
  BY <1>2, <1>3
<1>5. SumFunction(f) \in Nat
  BY <1>4, SumOfSeq
<1> QED BY <1>4, <1>5 DEF Lasts

LEMMA LastsAppend ==
  ASSUME NEW d \in Seq(Nat), NEW ids \in Seq(DOMAIN d), NEW x \in DOMAIN d
  PROVE  Lasts(d, Append(ids, x)) = Lasts(d, ids) + d[x]
<1> DEFINE f == [i \in DOMAIN ids |-> d[ids[i]]]
           a == Append(ids, x)
           g == [i \in DOMAIN a |-> d[a[i]]]
<1>1. f \in Seq(Nat) /\ Len(f) = Len(ids) /\ d[x] \in Nat
  BY LastsNat
<1>2. DOMAIN a = 1..(Len(ids) + 1) /\ a[Len(ids) + 1] = x /\ \A i \in 1..Len(ids) : a[i] = ids[i]
  OBVIOUS
<1>3. a \in Seq(DOMAIN d)
  OBVIOUS
<1>4. g \in Seq(Nat) /\ Len(g) = Len(ids) + 1
  <2>1. Len(a) = Len(ids) + 1
    OBVIOUS
  <2> HIDE DEF a
  <2> QED BY <1>3, <2>1, LastsNat
<1>5. g = Append(f, d[x])
  <2>1. Append(f, d[x]) \in Seq(Nat) /\ Len(Append(f, d[x])) = Len(ids) + 1
    BY <1>1
  <2>2. \A i \in 1..(Len(ids) + 1) : g[i] = Append(f, d[x])[i]
    <3> TAKE i \in 1..(Len(ids) + 1)
    <3>1. g[i] = d[a[i]]
      BY <1>2
    <3>2. CASE i = Len(ids) + 1
      <4>1. Append(f, d[x])[i] = d[x]
        BY <1>1, <3>2
      <4> QED BY <1>2, <3>1, <3>2, <4>1
    <3>3. CASE i # Len(ids) + 1
      <4>1. i \in 1..Len(ids) /\ i \in DOMAIN ids
        BY <3>3
      <4>2. Append(f, d[x])[i] = f[i]
        BY <1>1, <4>1
      <4> QED BY <1>2, <3>1, <4>1, <4>2
    <3> QED BY <3>2, <3>3
  <2> HIDE DEF f, g
  <2> QED BY <1>4, <2>1, <2>2, SeqEqual
<1>6. SumFunction(g) = SumFunction(f) + d[x]
  <2> HIDE DEF f, g
  <2> QED BY <1>1, <1>5, SumAppend
<1> QED BY <1>6 DEF Lasts

LEMMA LastsEmpty == ASSUME NEW d PROVE Lasts(d, <<>>) = 0
<1>1. [i \in DOMAIN <<>> |-> d[<<>>[i]]] = <<>>
  OBVIOUS
<1> QED BY <1>1, SumEmpty DEF Lasts

LEMMA LastsOne ==
  ASSUME NEW d \in Seq(Nat), NEW x \in DOMAIN d
  PROVE  Lasts(d, <<x>>) = d[x]
<1>1. <<x>> = Append(<<>>, x) /\ <<>> \in Seq(DOMAIN d) /\ d[x] \in Nat
  OBVIOUS
<1>2. Lasts(d, Append(<<>>, x)) = Lasts(d, <<>>) + d[x]
  BY <1>1, LastsAppend
<1> QED BY <1>1, <1>2, LastsEmpty

\* Other durations of the same shots do not matter.
LEMMA LastsAgree ==
  ASSUME NEW d, NEW e, NEW ids, \A i \in DOMAIN ids : d[ids[i]] = e[ids[i]]
  PROVE  Lasts(d, ids) = Lasts(e, ids)
<1>1. [i \in DOMAIN ids |-> d[ids[i]]] = [i \in DOMAIN ids |-> e[ids[i]]]
  OBVIOUS
<1> QED BY <1>1 DEF Lasts

\* The first shots of a segment last no longer than the segment.
LEMMA LastsPrefix ==
  ASSUME NEW d \in Seq(Nat), NEW ids \in Seq(DOMAIN d), NEW was \in Seq(DOMAIN d),
         Len(ids) <= Len(was), \A i \in DOMAIN ids : ids[i] = was[i]
  PROVE  Lasts(d, ids) <= Lasts(d, was)
<1> DEFINE f == [i \in DOMAIN ids |-> d[ids[i]]]
           g == [i \in DOMAIN was |-> d[was[i]]]
<1>1. f \in Seq(Nat) /\ Len(f) = Len(ids) /\ g \in Seq(Nat) /\ Len(g) = Len(was)
  BY LastsNat
<1>2. \A i \in 1..Len(ids) : f[i] = g[i]
  OBVIOUS
<1>3. IsFiniteSet(1..Len(ids)) /\ IsFiniteSet(1..Len(was)) /\ 1..Len(ids) \in SUBSET (1..Len(was))
  BY FS_Interval
<1>4. \A i \in 1..Len(was) : g[i] \in Nat
  BY <1>1
<1> HIDE DEF f, g
<1>5. SumFunctionOnSet(f, 1..Len(ids)) = SumFunctionOnSet(g, 1..Len(ids))
  BY <1>2, <1>3, SumAgree
<1>6. SumFunctionOnSet(g, 1..Len(ids)) <= SumFunctionOnSet(g, 1..Len(was))
  BY <1>3, <1>4, SumSubset
<1>7. SumFunction(f) <= SumFunction(g)
  BY <1>1, <1>5, <1>6, SumOfSeq
<1> QED BY <1>7 DEF Lasts, f, g

-----------------------------------------------------------------------------
(***************************************************************************)
(* The invariant is inductive.                                             *)
(***************************************************************************)
\* A compression shortens.
LEMMA Shortened ==
  ASSUME NEW d \in Nat, NEW s \in Nat, NEW t \in Nat, s < t
  PROVE  (d * s) \div t \in 0..d
<1> DEFINE q == (d * s) \div t
<1>1. q \in Int /\ q * t <= d * s /\ d * s < (q + 1) * t
  BY SMTT(30)
<1>2. d * s <= d * t /\ 0 <= d * s
  BY SMTT(30)
<1> HIDE DEF q
<1>3. q <= d
  <2> SUFFICES ASSUME q >= d + 1 PROVE FALSE
    BY <1>1
  <2>1. q * t >= (d + 1) * t
    BY <1>1, SMTT(30)
  <2>2. (d + 1) * t = d * t + t
    BY SMTT(30)
  <2> QED BY <1>1, <1>2, <2>1, <2>2, SMTT(30)
<1>4. q >= 0
  <2> SUFFICES ASSUME q + 1 <= 0 PROVE FALSE
    BY <1>1
  <2>1. (q + 1) * t <= 0
    BY <1>1, SMTT(30)
  <2> QED BY <1>1, <1>2, <2>1, SMTT(30)
<1> QED BY <1>1, <1>3, <1>4 DEF q

LEMMA SeqOver ==
  ASSUME NEW S, NEW s \in Seq(S), NEW T, \A i \in 1..Len(s) : s[i] \in T
  PROVE  s \in Seq(T)
<1>1. s = [i \in 1..Len(s) |-> s[i]] /\ Len(s) \in Nat
  OBVIOUS
<1>2. [i \in 1..Len(s) |-> s[i]] \in Seq(T)
  BY <1>1
<1> QED BY <1>1, <1>2

LEMMA Basics ==
  ASSUME TypeOK
  PROVE  /\ Len(key) \in Nat /\ Shots = 1..Len(key) /\ key \in Seq(Keys)
         /\ DOMAIN dur = Shots /\ dur \in Seq(Nat) /\ given \in Seq(Nat) /\ DOMAIN given = Shots
         /\ \A j \in Shots : dur[j] \in DurMin..DurMax /\ given[j] \in DurMin..DurMax
         /\ \A j \in Shots : key[j] \in Keys /\ part[j] \in Nat
         /\ DurMin..DurMax \subseteq Nat /\ DurMin \in Nat \ {0} /\ SegMax \in Nat /\ ShotLimit \in Nat \ {0}
         /\ cur \in Seq(Shots) /\ cur \in Seq(DOMAIN dur) /\ Len(cur) \in Nat /\ DOMAIN cur = 1..Len(cur)
         /\ n \in Nat /\ n >= 1
<1>1. DurMin..DurMax \subseteq Nat /\ DurMin \in Nat \ {0} /\ SegMax \in Nat /\ ShotLimit \in Nat \ {0}
  BY RangeAssumption, SegMaxAssumption, ShotLimitAssumption
<1>2. /\ key \in Seq(Keys) /\ given \in Seq(DurMin..DurMax) /\ dur \in Seq(DurMin..DurMax)
      /\ part \in Seq(Nat) /\ Len(given) = Len(key) /\ Len(dur) = Len(key) /\ Len(part) = Len(key)
      /\ cur \in Seq(Shots) /\ n \in 1..Len(key) + 1
  BY DEF TypeOK, Durations
<1>3. Len(key) \in Nat /\ Shots = 1..Len(key) /\ DOMAIN dur = Shots /\ DOMAIN given = Shots
  BY <1>2 DEF Shots
<1>4. \A j \in Shots : dur[j] \in DurMin..DurMax /\ given[j] \in DurMin..DurMax /\ key[j] \in Keys /\ part[j] \in Nat
  <2> TAKE j \in Shots
  <2>1. j \in 1..Len(dur) /\ j \in 1..Len(given) /\ j \in 1..Len(key) /\ j \in 1..Len(part)
    BY <1>2, <1>3
  <2> QED BY <1>2, <2>1, ElementOfSeq
<1>5. dur \in Seq(Nat) /\ given \in Seq(Nat)
  <2>1. \A j \in 1..Len(dur) : dur[j] \in Nat /\ given[j] \in Nat
    BY <1>1, <1>2, <1>3, <1>4
  <2> QED BY <1>2, <2>1, SeqOver
<1> QED BY <1>1, <1>2, <1>3, <1>4, <1>5

LEMMA InitIInv == Init => IInv
<1> SUFFICES ASSUME Init PROVE IInv
  OBVIOUS
<1> USE DEF Init
<1>1. TypeOK
  BY RangeAssumption, MaxShotsAssumption DEF TypeOK, Durations, Shots
<1>2. curDur = Lasts(dur, cur)
  BY LastsEmpty
<1>3. Assigning
  <2>1. OpenOK
    BY ShotLimitAssumption, SegMaxAssumption DEF OpenOK
  <2>2. Cuts(segs, n - 1 - Len(cur), key, dur)
    BY DEF Cuts, Runs, First
  <2> QED BY <2>1, <2>2 DEF Assigning, Merged, Shots
<1> QED BY <1>1, <1>2, <1>3 DEF IInv

-----------------------------------------------------------------------------
\* What is finished stays good when the durations of other shots change.
LEMMA CutsFrame ==
  ASSUME NEW list, NEW m, NEW ky, NEW du, NEW du2, Cuts(list, m, ky, du),
         \A j \in DOMAIN ky : j <= m => du2[j] = du[j]
  PROVE  Cuts(list, m, ky, du2)
<1>1. ASSUME NEW s \in DOMAIN list PROVE Good(list[s], ky, du2)
  <2>1. Good(list[s], ky, du) /\ \A i \in DOMAIN list[s].shot_ids : list[s].shot_ids[i] <= m
    BY <1>1 DEF Cuts
  <2>2. \A i \in DOMAIN list[s].shot_ids : du[list[s].shot_ids[i]] = du2[list[s].shot_ids[i]]
    BY <2>1 DEF Good
  <2>3. Lasts(du, list[s].shot_ids) = Lasts(du2, list[s].shot_ids)
    BY <2>2, LastsAgree
  <2> QED BY <2>1, <2>3 DEF Good
<1> QED BY <1>1 DEF Cuts

\* The shots after m are the next segment.
LEMMA CutsAppend ==
  ASSUME NEW list, NEW m, NEW ky, NEW du, NEW seg, Cuts(list, m, ky, du), Good(seg, ky, du),
         \A i \in DOMAIN seg.shot_ids : seg.shot_ids[i] = m + i
  PROVE  Cuts(Append(list, seg), m + Len(seg.shot_ids), ky, du)
<1> DEFINE a == Append(list, seg)
           l == Len(seg.shot_ids)
<1>1. list \in Seq(SegmentRec) /\ m \in Nat /\ seg \in SegmentRec /\ seg.shot_ids \in Seq(Nat)
      /\ seg.shot_ids # <<>> /\ Len(list) \in Nat /\ l \in Nat /\ l >= 1 /\ DOMAIN seg.shot_ids = 1..l
  BY DEF Cuts, Good, SegmentRec
<1>2. /\ a \in Seq(SegmentRec) /\ Len(a) = Len(list) + 1 /\ DOMAIN a = 1..(Len(list) + 1)
      /\ a[Len(list) + 1] = seg /\ \A s \in 1..Len(list) : a[s] = list[s]
  BY <1>1, AppendProperties
<1>3. DOMAIN list = 1..Len(list)
  BY <1>1
<1>4. \A s \in DOMAIN a : (s \in DOMAIN list /\ a[s] = list[s]) \/ (s = Len(list) + 1 /\ a[s] = seg)
  BY <1>1, <1>2, <1>3
<1> HIDE DEF a
<1>5. \A s \in DOMAIN a : Good(a[s], ky, du)
  BY <1>4 DEF Cuts
<1>6. First(list, Len(list) + 1) = m + 1 /\ \A s \in DOMAIN list : First(a, s) = First(list, s)
  <2>1. \A s \in DOMAIN list : s # 1 => s - 1 \in 1..Len(list)
    BY <1>1, <1>3
  <2> QED BY <1>2, <2>1 DEF Cuts, Runs, First
<1>7. First(a, Len(list) + 1) = m + 1
  <2>1. Len(list) + 1 # 1 => (Len(list) + 1) - 1 \in 1..Len(list)
    BY <1>1
  <2> QED BY <1>2, <1>6, <2>1 DEF First
<1>8. First(a, Len(a) + 1) = (m + l) + 1
  <2>1. Len(a) + 1 # 1 /\ (Len(a) + 1) - 1 = Len(list) + 1
    BY <1>1, <1>2
  <2>2. First(a, Len(a) + 1) = seg.shot_ids[l] + 1
    BY <1>2, <2>1 DEF First
  <2>3. seg.shot_ids[l] = m + l
    BY <1>1
  <2> QED BY <2>2, <2>3
<1>9. Runs(a, m + l)
  <2>1. ASSUME NEW s \in DOMAIN a
        PROVE  a[s].shot_ids # <<>> /\ \A i \in DOMAIN a[s].shot_ids : a[s].shot_ids[i] = First(a, s) + i - 1
    <3>1. CASE s \in DOMAIN list /\ a[s] = list[s]
      BY <1>6, <3>1 DEF Cuts, Runs
    <3>2. CASE s = Len(list) + 1 /\ a[s] = seg
      <4>1. seg.shot_ids # <<>> /\ First(a, s) = m + 1
        BY <1>1, <1>7, <3>2
      <4>2. \A i \in DOMAIN seg.shot_ids : seg.shot_ids[i] = (m + 1) + i - 1
        <5> TAKE i \in DOMAIN seg.shot_ids
        <5>1. seg.shot_ids[i] = m + i /\ i \in Nat
          BY <1>1
        <5> QED BY <1>1, <5>1
      <4> QED BY <3>2, <4>1, <4>2
    <3> QED BY <1>4, <2>1, <3>1, <3>2
  <2> QED BY <1>8, <2>1 DEF Runs
<1>10. \A s \in DOMAIN a : \A i \in DOMAIN a[s].shot_ids : a[s].shot_ids[i] <= m + l
  <2> TAKE s \in DOMAIN a
  <2>1. CASE s \in DOMAIN list /\ a[s] = list[s]
    <3> TAKE i \in DOMAIN a[s].shot_ids
    <3>1. list[s].shot_ids[i] <= m
      BY <2>1 DEF Cuts
    <3>2. list[s].shot_ids[i] \in Nat
      <4>1. list[s] \in SegmentRec
        BY <1>1, <2>1
      <4> QED BY <2>1, <4>1 DEF SegmentRec
    <3> QED BY <1>1, <2>1, <3>1, <3>2
  <2>2. CASE a[s] = seg
    <3>1. \A i \in DOMAIN seg.shot_ids : seg.shot_ids[i] = m + i /\ i <= l /\ i \in Nat
      BY <1>1
    <3>2. \A i \in DOMAIN seg.shot_ids : seg.shot_ids[i] <= m + l
      BY <1>1, <3>1
    <3> QED BY <2>2, <3>2
  <2> QED BY <1>4, <2>1, <2>2
<1>11. \A s, t \in DOMAIN a : s < t => Before(a[s], a[t])
  <2> SUFFICES ASSUME NEW s \in DOMAIN a, NEW t \in DOMAIN a, s < t PROVE Before(a[s], a[t])
    OBVIOUS
  <2>1. s \in DOMAIN list /\ a[s] = list[s]
    BY <1>1, <1>2, <1>3
  <2>2. CASE t \in DOMAIN list /\ a[t] = list[t]
    BY <2>1, <2>2 DEF Cuts
  <2>3. CASE a[t] = seg
    <3> SUFFICES ASSUME NEW i \in DOMAIN list[s].shot_ids, NEW j \in DOMAIN seg.shot_ids
                 PROVE  list[s].shot_ids[i] < seg.shot_ids[j]
      BY <2>1, <2>3 DEF Before
    <3>1. list[s].shot_ids[i] <= m
      BY <2>1 DEF Cuts
    <3>2. list[s].shot_ids[i] \in Nat
      <4>1. list[s] \in SegmentRec
        BY <1>1, <2>1
      <4> QED BY <4>1 DEF SegmentRec
    <3> QED BY <1>1, <3>1, <3>2
  <2> QED BY <1>4, <2>2, <2>3
<1>12. m + l \in Nat
  BY <1>1
<1> QED BY <1>2, <1>5, <1>9, <1>10, <1>11, <1>12 DEF a, Cuts

LEMMA MergedAppend ==
  ASSUME NEW list \in Seq(SegmentRec), NEW ky, NEW gi, NEW seg, Merged(list, ky, gi),
         list # <<>> => Full(list[Len(list)], seg.shot_ids[1], ky, gi)
  PROVE  Merged(Append(list, seg), ky, gi)
<1> DEFINE a == Append(list, seg)
<1>1. /\ Len(list) \in Nat /\ DOMAIN list = 1..Len(list) /\ DOMAIN a = 1..(Len(list) + 1)
      /\ a[Len(list) + 1] = seg /\ \A s \in 1..Len(list) : a[s] = list[s]
  BY AppendProperties
<1> HIDE DEF a
<1> SUFFICES ASSUME NEW s \in DOMAIN a, s + 1 \in DOMAIN a
             PROVE  Full(a[s], a[s + 1].shot_ids[1], ky, gi)
  BY DEF Merged, a
<1>2. s \in 1..Len(list) /\ a[s] = list[s]
  BY <1>1
<1>3. CASE s + 1 \in 1..Len(list)
  BY <1>1, <1>2, <1>3 DEF Merged
<1>4. CASE s = Len(list)
  <2>1. list # <<>>
    BY <1>2, <1>4
  <2> QED BY <1>1, <1>2, <1>4, <2>1
<1> QED BY <1>1, <1>2, <1>3, <1>4

\* The open segment can be closed.
LEMMA ClosedGood ==
  ASSUME TypeOK, cur # <<>>, curDur = Lasts(dur, cur), NEW id \in Nat, NEW scene,
         \A i \in DOMAIN cur : key[cur[i]] = scene,
         Len(cur) <= ShotLimit, curDur <= SegMax \/ Len(cur) <= 1,
         NEW seg, seg = [segment_id |-> id, shot_ids |-> cur, duration |-> curDur, scene_key |-> scene]
  PROVE  Good(seg, key, dur)
<1>1. curDur \in Nat
  BY Basics, LastsNat
<1>2. cur \in Seq(Nat) /\ Len(cur) \in Nat /\ Len(cur) # 0 /\ 1 \in DOMAIN cur
  <2>1. \A i \in 1..Len(cur) : cur[i] \in Nat
    BY Basics
  <2> QED BY <2>1, Basics, SeqOver
<1>3. scene \in Keys
  <2>1. cur[1] \in Shots
    BY <1>2, Basics
  <2>2. key[cur[1]] \in Keys
    BY <2>1, Basics
  <2> QED BY <1>2, <2>2
<1>4. seg \in SegmentRec
  BY <1>1, <1>2, <1>3 DEF SegmentRec
<1>5. \A i \in DOMAIN cur : cur[i] \in DOMAIN key
  BY Basics DEF Shots
<1>6. seg.shot_ids = cur /\ seg.duration = curDur /\ seg.scene_key = scene
  OBVIOUS
<1>7. curDur <= SegMax \/ Len(cur) = 1
  <2>1. Len(cur) \in Nat /\ Len(cur) # 0
    BY <1>2
  <2>2. \A x \in Nat : x # 0 /\ x <= 1 => x = 1
    OBVIOUS
  <2> QED BY <2>1, <2>2
<1>8. \A i \in DOMAIN cur : cur[i] \in DOMAIN key /\ key[cur[i]] = scene
  BY <1>5
<1> HIDE DEF SegmentRec
<1> QED BY <1>2, <1>4, <1>6, <1>7, <1>8 DEF Good

LEMMA NoCuts == \A ky, du : Cuts(<<>>, 0, ky, du)
BY DEF Cuts, Runs, First

LEMMA ReadShotIInv ==
  ASSUME IInv, NEW scene \in Scenes \cup {NoScene}, NEW d \in Answers \cup {Unreadable}, ReadShot(scene, d)
  PROVE  IInv'
<1>1. /\ pc = "read" /\ n = 1 /\ cur = <<>> /\ dur = given /\ segs = <<>> /\ old = <<>> /\ k = 1
      /\ TypeOK /\ curDur = Lasts(dur, cur)
  BY DEF IInv, Assigning, OpenOK, ReadShot
<1>2. UNCHANGED <<pc, cast, n, cur, curDur, scaled, segs, old, k>>
  BY DEF ReadShot, loop
<1>3. Clamp(d) \in DurMin..DurMax
  BY RangeAssumption, AnswersAssumption DEF Clamp, LesserOf, GreaterOf
<1>4. Len(key) \in Nat /\ Len(key) < MaxShots /\ MaxShots \in Nat
  BY <1>1, Basics, MaxShotsAssumption DEF ReadShot
<1> DEFINE kk == IF scene = NoScene THEN OwnKey(Len(key) + 1) ELSE scene
<1>5. kk \in Keys
  <2>1. Len(key) + 1 \in 1..MaxShots
    BY <1>4
  <2> QED BY <2>1 DEF Keys
<1>6. key' = Append(key, kk) /\ given' = Append(given, Clamp(d)) /\ dur' = Append(dur, Clamp(d)) /\ part' = Append(part, 0)
  BY DEF ReadShot
<1> HIDE DEF kk
<1>7. TypeOK'
  <2>1. key' \in Seq(Keys) /\ Len(key') = Len(key) + 1 /\ Len(key') <= MaxShots
    BY <1>1, <1>4, <1>5, <1>6 DEF TypeOK
  <2>2. given' \in Seq(DurMin..DurMax) /\ Len(given') = Len(key')
    BY <1>1, <1>3, <1>6, <2>1 DEF TypeOK, Durations
  <2>3. dur' \in Seq(DurMin..DurMax) /\ Len(dur') = Len(key')
    BY <1>1, <2>2, <1>6
  <2>4. part' \in Seq(Nat) /\ Len(part') = Len(key')
    BY <1>1, <1>6, <2>1 DEF TypeOK
  <2>5. n' \in 1..Len(key') + 1 /\ cur' \in Seq(Shots') /\ k' \in 1..Len(old') + 1
    BY <1>1, <1>2, <1>4, <2>1 DEF TypeOK
  <2> QED BY <1>1, <1>2, <2>1, <2>2, <2>3, <2>4, <2>5 DEF TypeOK, Durations
<1>8. curDur' = Lasts(dur', cur')
  BY <1>1, <1>2, LastsEmpty
<1>9. dur' = given'
  BY <1>1, <1>6
<1>10. Assigning'
  <2>1. OpenOK'
    BY <1>1, <1>2, ShotLimitAssumption DEF OpenOK
  <2>2. Cuts(segs', n' - 1 - Len(cur'), key', dur')
    BY <1>1, <1>2, NoCuts
  <2>3. Merged(segs', key', given')
    BY <1>1, <1>2 DEF Merged
  <2> QED BY <1>1, <1>2, <1>9, <2>1, <2>2, <2>3 DEF Assigning
<1> QED BY <1>1, <1>2, <1>7, <1>8, <1>9, <1>10 DEF IInv

LEMMA AssigningStays ==
  ASSUME Assigning, UNCHANGED <<key, given, dur, n, cur, curDur, segs, old, k>>
  PROVE  Assigning'
<1>1. OpenOK'
  BY DEF Assigning, OpenOK
<1>2. Cuts(segs', n' - 1 - Len(cur'), key', dur') /\ Merged(segs', key', given')
  BY DEF Assigning
<1> QED BY <1>1, <1>2 DEF Assigning, Shots

LEMMA StartAssignIInv == ASSUME IInv, StartAssign PROVE IInv'
<1>1. pc = "read" /\ pc' = "assign" /\ UNCHANGED <<script, loop, segs, old, k>>
  BY DEF StartAssign
<1>2. Assigning'
  BY <1>1, AssigningStays DEF IInv, script, loop
<1>3. TypeOK'
  BY <1>1 DEF IInv, TypeOK, script, loop, Shots
<1> QED BY <1>1, <1>2, <1>3 DEF IInv, script, loop

\* Shot n joins the open segment, whose other shots may have been shortened.
LEMMA Grown ==
  ASSUME TypeOK, Assigning, n \in Shots, cur # <<>> => SameScene /\ UnderShotLimit,
         cur' = Append(cur, n), n' = n + 1, UNCHANGED <<key, given, segs, old, k>>,
         curDur' <= SegMax \/ cur = <<>>,
         \A j \in Shots : j < n - Len(cur) \/ j > n => dur'[j] = dur[j]
  PROVE  Assigning'
<1>1. n \in Nat /\ Len(cur) \in Nat /\ cur \in Seq(Shots) /\ Shots = 1..Len(key) /\ Len(key) \in Nat
      /\ ShotLimit \in Nat \ {0}
  BY Basics
<1>2. /\ cur' \in Seq(Shots) /\ Len(cur') = Len(cur) + 1 /\ DOMAIN cur' = 1..(Len(cur) + 1)
      /\ cur'[Len(cur) + 1] = n /\ \A i \in 1..Len(cur) : cur'[i] = cur[i]
      /\ DOMAIN cur = 1..Len(cur)
  BY <1>1, AppendProperties
<1>3. n' - 1 - Len(cur') = n - 1 - Len(cur)
  BY <1>1, <1>2
<1>4. OpenOK'
  <2>1. Len(cur') < n' /\ cur' # <<>>
    BY <1>1, <1>2 DEF Assigning, OpenOK
  <2>2. \A i \in DOMAIN cur' : cur'[i] = n' - 1 - Len(cur') + i
    <3> TAKE i \in DOMAIN cur'
    <3>1. CASE i \in 1..Len(cur)
      BY <1>2, <1>3, <3>1 DEF Assigning, OpenOK
    <3>2. CASE i = Len(cur) + 1
      BY <1>1, <1>2, <1>3, <3>2
    <3> QED BY <1>1, <1>2, <3>1, <3>2
  <2>3. \A i \in DOMAIN cur' : key'[cur'[i]] = key'[cur'[Len(cur')]]
    <3> TAKE i \in DOMAIN cur'
    <3>1. CASE i \in 1..Len(cur)
      <4>1. cur # <<>> /\ key[cur[i]] = key[cur[Len(cur)]]
        BY <1>2, <3>1 DEF Assigning, OpenOK
      <4> QED BY <1>2, <3>1, <4>1 DEF SameScene
    <3>2. CASE i = Len(cur) + 1
      BY <1>2, <3>2
    <3> QED BY <1>1, <1>2, <3>1, <3>2
  <2>4. Len(cur') <= ShotLimit
    BY <1>1, <1>2 DEF UnderShotLimit
  <2>5. curDur' <= SegMax \/ Len(cur') <= 1
    BY <1>1, <1>2
  <2> QED BY <2>1, <2>2, <2>3, <2>4, <2>5 DEF OpenOK
<1>5. Cuts(segs', n' - 1 - Len(cur'), key', dur')
  <2>1. Cuts(segs, n - 1 - Len(cur), key, dur)
    BY DEF Assigning
  <2>2. \A j \in DOMAIN key : j <= n - 1 - Len(cur) => dur'[j] = dur[j]
    BY <1>1 DEF Shots
  <2>3. Cuts(segs, n - 1 - Len(cur), key, dur')
    BY <2>1, <2>2, CutsFrame
  <2> QED BY <1>3, <2>3
<1>6. segs' # <<>> => Full(segs'[Len(segs')], cur'[1], key', given')
  <2> SUFFICES ASSUME segs # <<>> PROVE Full(segs[Len(segs)], cur'[1], key, given)
    OBVIOUS
  <2>1. cur # <<>>
    BY DEF Assigning, OpenOK
  <2>2. cur'[1] = cur[1]
    BY <1>1, <1>2, <2>1
  <2> QED BY <2>2 DEF Assigning
<1>7. \A j \in Shots' : j >= n' => dur'[j] = given'[j]
  BY <1>1 DEF Assigning, Shots
<1>8. /\ old' = <<>> /\ k' = 1 /\ Merged(segs', key', given')
      /\ \A s \in DOMAIN segs' : segs'[s].segment_id = s
  BY DEF Assigning
<1> QED BY <1>4, <1>5, <1>6, <1>7, <1>8 DEF Assigning

LEMMA JoinIInv == ASSUME IInv, Join PROVE IInv'
<1>1. /\ TypeOK /\ Assigning /\ curDur = Lasts(dur, cur) /\ pc = "assign" /\ n \in Shots
      /\ cur # <<>> => SameScene /\ UnderShotLimit /\ FitsDuration
      /\ cur' = Append(cur, n) /\ curDur' = curDur + dur[n] /\ n' = n + 1
      /\ UNCHANGED <<pc, cast, key, given, dur, part, scaled, segs, old, k>>
  BY DEF IInv, Join, Meeting, Take, script
<1>2. Assigning'
  <2>1. curDur' <= SegMax \/ cur = <<>>
    BY <1>1 DEF FitsDuration
  <2> QED BY <1>1, <2>1, Grown
<1>3. curDur' = Lasts(dur', cur')
  <2>1. dur \in Seq(Nat) /\ cur \in Seq(DOMAIN dur) /\ n \in DOMAIN dur
    BY <1>1, Basics
  <2> QED BY <1>1, <2>1, LastsAppend
<1>4. TypeOK'
  <2>1. cur' \in Seq(Shots) /\ n' \in 1..Len(key) + 1
    BY <1>1, Basics
  <2>2. curDur' \in Int
    <3>1. cur' \in Seq(DOMAIN dur) /\ dur \in Seq(Nat)
      BY <1>1, <2>1, Basics
    <3> QED BY <1>1, <1>3, <3>1, LastsNat
  <2> QED BY <1>1, <2>1, <2>2 DEF TypeOK, Shots
<1> QED BY <1>1, <1>2, <1>3, <1>4 DEF IInv

\* The open segment with shot n, and what it lasts.
LEMMA GroupFacts ==
  ASSUME IInv, n \in Shots
  PROVE  /\ Group \in Seq(DOMAIN dur) /\ Len(Group) = Len(cur) + 1 /\ DOMAIN Group = 1..(Len(cur) + 1)
         /\ \A i \in DOMAIN Group : Group[i] \in Shots
         /\ GroupDurs \in Seq(Nat) /\ Len(GroupDurs) = Len(cur) + 1
         /\ \A i \in DOMAIN Group : GroupDurs[i] \in DurMin..DurMax
         /\ Total \in Nat /\ Total = curDur + dur[n] /\ curDur \in Nat
<1>1. TypeOK /\ curDur = Lasts(dur, cur)
  BY DEF IInv
<1>2. dur \in Seq(Nat) /\ cur \in Seq(DOMAIN dur) /\ n \in DOMAIN dur /\ DOMAIN dur = Shots
  BY <1>1, Basics
<1>3. Group \in Seq(DOMAIN dur) /\ Len(Group) = Len(cur) + 1 /\ DOMAIN Group = 1..(Len(cur) + 1)
  BY <1>2 DEF Group
<1>4. \A i \in DOMAIN Group : Group[i] \in Shots
  BY <1>2, <1>3
<1>5. GroupDurs \in Seq(Nat) /\ Len(GroupDurs) = Len(cur) + 1
  BY <1>2, <1>3, LastsNat DEF GroupDurs
<1>6. \A i \in DOMAIN Group : GroupDurs[i] \in DurMin..DurMax
  BY <1>1, <1>4, Basics DEF GroupDurs
<1>7. Total = Lasts(dur, Group)
  BY DEF Total, GroupDurs, Lasts
<1>8. Total = curDur + dur[n]
  BY <1>1, <1>2, <1>7, LastsAppend DEF Group
<1>9. curDur \in Nat /\ Total \in Nat
  BY <1>1, <1>2, <1>3, <1>7, LastsNat
<1> QED BY <1>3, <1>4, <1>5, <1>6, <1>8, <1>9

\* Compressed durations stay in the range of the video model.
LEMMA CompressedInRange ==
  ASSUME IInv, n \in Shots
  PROVE  Compressed \in Seq(DurMin..DurMax) /\ Len(Compressed) = Len(cur) + 1
<1>1. /\ DOMAIN Group = 1..(Len(cur) + 1) /\ DOMAIN GroupDurs = DOMAIN Group /\ Len(cur) \in Nat
      /\ \A i \in DOMAIN Group : GroupDurs[i] \in DurMin..DurMax
      /\ GroupDurs \in Seq(Nat) /\ Len(GroupDurs) = Len(cur) + 1
      /\ Total \in Nat /\ TypeOK
  BY GroupFacts, Basics DEF IInv, GroupDurs
<1>2. SegMax \in Nat /\ DurMin \in Nat /\ DurMax \in Nat /\ DurMin <= DurMax
  BY RangeAssumption, SegMaxAssumption
<1>3. CASE Total <= SegMax
  <2>1. Compressed = GroupDurs
    BY <1>3 DEF Compressed
  <2>2. \A i \in 1..Len(GroupDurs) : GroupDurs[i] \in DurMin..DurMax
    BY <1>1
  <2>3. GroupDurs \in Seq(DurMin..DurMax)
    BY <1>1, <2>2, SeqOver
  <2> QED BY <1>1, <2>1, <2>3
<1>4. CASE ~(Total <= SegMax)
  <2>1. Compressed = [i \in 1..(Len(cur) + 1) |->
                        GreaterOf(DurMin, (GroupDurs[i] * SegMax) \div Total)]
    BY <1>1, <1>4 DEF Compressed
  <2>2. ASSUME NEW i \in 1..(Len(cur) + 1)
        PROVE  GreaterOf(DurMin, (GroupDurs[i] * SegMax) \div Total) \in DurMin..DurMax
    <3>1. GroupDurs[i] \in DurMin..DurMax /\ GroupDurs[i] \in Nat /\ SegMax < Total
      BY <1>1, <1>2, <1>4, <2>2
    <3>2. (GroupDurs[i] * SegMax) \div Total \in 0..GroupDurs[i]
      BY <1>1, <1>2, <3>1, Shortened
    <3> DEFINE q == (GroupDurs[i] * SegMax) \div Total
    <3>3. q \in 0..GroupDurs[i]
      BY <3>2
    <3> HIDE DEF q
    <3>4. GreaterOf(DurMin, q) \in DurMin..DurMax
      BY <1>2, <3>1, <3>3 DEF GreaterOf
    <3> QED BY <3>4 DEF q
  <2> DEFINE h(i) == GreaterOf(DurMin, (GroupDurs[i] * SegMax) \div Total)
  <2>3. Compressed = [i \in 1..(Len(cur) + 1) |-> h(i)] /\ \A i \in 1..(Len(cur) + 1) : h(i) \in DurMin..DurMax
    BY <2>1, <2>2
  <2> HIDE DEF h
  <2>4. Len(cur) + 1 \in Nat
    BY <1>1
  <2> QED BY <2>3, <2>4, IsASeq
<1> QED BY <1>3, <1>4

LEMMA CompressIInv == ASSUME IInv, Compress PROVE IInv'
<1>1. /\ TypeOK /\ Assigning /\ pc = "assign" /\ n \in Shots /\ cur # <<>>
      /\ SameScene /\ UnderShotLimit /\ ~FitsDuration
      /\ scaled' = Compressed /\ pc' = "compress"
      /\ UNCHANGED <<cast, key, given, dur, part, n, cur, curDur, segs, old, k>>
  BY DEF IInv, Compress, Meeting, script
<1>2. Assigning'
  BY <1>1, AssigningStays
<1>3. TypeOK'
  BY <1>1 DEF TypeOK, Shots
<1>4. Compressing'
  <2>1. scaled' \in Seq(DurMin..DurMax) /\ Len(scaled') = Len(cur) + 1
    BY <1>1, CompressedInRange
  <2> QED BY <1>1, <2>1 DEF Compressing, SameScene, UnderShotLimit, FitsDuration
<1> QED BY <1>1, <1>2, <1>3, <1>4 DEF IInv

LEMMA TrimIInv == ASSUME IInv, Trim PROVE IInv'
<1>1. /\ TypeOK /\ Assigning /\ Compressing /\ pc = "compress"
      /\ scaled[Longest] > DurMin /\ scaled' = [scaled EXCEPT ![Longest] = @ - 1]
      /\ UNCHANGED <<pc, cast, key, given, dur, part, n, cur, curDur, segs, old, k>>
  BY DEF IInv, Trim, script
<1>2. Assigning'
  BY <1>1, AssigningStays
<1>3. TypeOK'
  BY <1>1 DEF TypeOK, Shots
<1>4. Compressing'
  <2>1. scaled' \in Seq(DurMin..DurMax) /\ Len(scaled') = Len(scaled)
    <3>1. scaled \in Seq(DurMin..DurMax)
      BY <1>1 DEF Compressing
    <3>2. CASE Longest \in 1..Len(scaled)
      <4>1. scaled[Longest] \in DurMin..DurMax
        BY <3>1, <3>2, ElementOfSeq
      <4>2. scaled[Longest] - 1 \in DurMin..DurMax
        BY <1>1, <4>1, RangeAssumption
      <4> QED BY <1>1, <3>1, <3>2, <4>2, ExceptSeq
    <3>3. CASE Longest \notin 1..Len(scaled)
      <4>1. scaled' = scaled
        BY <1>1, <3>1, <3>3
      <4> QED BY <3>1, <4>1
    <3> QED BY <3>2, <3>3
  <2> QED BY <1>1, <2>1 DEF Compressing, SameScene, UnderShotLimit, FitsDuration
<1> QED BY <1>1, <1>2, <1>3, <1>4 DEF IInv

LEMMA MergeIInv == ASSUME IInv, Merge PROVE IInv'
<1> DEFINE at(j) == CHOOSE i \in DOMAIN Group : Group[i] = j
           in(j) == \E i \in DOMAIN Group : Group[i] = j
<1>1. /\ TypeOK /\ Assigning /\ Compressing /\ pc = "compress" /\ ~TooLong
      /\ dur' = [j \in Shots |-> IF in(j) THEN scaled[at(j)] ELSE dur[j]]
      /\ cur' = Group /\ curDur' = SumFunction(scaled) /\ scaled' = <<>>
      /\ n' = n + 1 /\ pc' = "assign"
      /\ UNCHANGED <<cast, key, given, part, segs, old, k>>
  BY DEF IInv, Merge
<1>2. /\ n \in Shots /\ cur # <<>> /\ n \in Nat /\ Len(cur) \in Nat /\ Shots = 1..Len(key) /\ Len(key) \in Nat
      /\ DOMAIN dur = Shots /\ \A j \in Shots : dur[j] \in DurMin..DurMax
      /\ DurMin..DurMax \subseteq Nat /\ SegMax \in Nat /\ DOMAIN cur = 1..Len(cur) /\ cur \in Seq(Shots)
  BY <1>1, Basics DEF TypeOK
<1>3. scaled \in Seq(DurMin..DurMax) /\ Len(scaled) = Len(cur) + 1 /\ DOMAIN scaled = 1..(Len(cur) + 1)
  BY <1>1 DEF Compressing
<1>4. /\ Group \in Seq(Shots) /\ Len(Group) = Len(cur) + 1 /\ DOMAIN Group = 1..(Len(cur) + 1)
      /\ \A i \in DOMAIN Group : Group[i] \in Shots
  BY <1>2, GroupFacts
\* The shots of the group follow each other.
<1>5. \A i \in DOMAIN Group : Group[i] = n - 1 - Len(cur) + i
  <2> TAKE i \in DOMAIN Group
  <2>1. CASE i \in 1..Len(cur)
    BY <1>1, <1>2, <2>1 DEF Group, Assigning, OpenOK
  <2>2. CASE i = Len(cur) + 1
    BY <1>2, <2>2 DEF Group
  <2> QED BY <1>2, <1>4, <2>1, <2>2
<1>6. \A i \in DOMAIN Group : at(Group[i]) = i
  <2> TAKE i \in DOMAIN Group
  <2>1. at(Group[i]) \in DOMAIN Group /\ Group[at(Group[i])] = Group[i]
    OBVIOUS
  <2>2. n - 1 - Len(cur) + at(Group[i]) = n - 1 - Len(cur) + i
    BY <1>5, <2>1
  <2>3. at(Group[i]) \in Nat /\ i \in Nat
    BY <1>2, <1>4, <2>1
  <2> HIDE DEF at
  <2> QED BY <1>2, <2>2, <2>3
<1>7. \A i \in DOMAIN Group : dur'[Group[i]] = scaled[i]
  <2> TAKE i \in DOMAIN Group
  <2>1. in(Group[i]) /\ Group[i] \in Shots /\ at(Group[i]) = i
    BY <1>4, <1>6
  <2> HIDE DEF in, at
  <2> QED BY <1>1, <2>1
<1>8. \A j \in Shots : ~in(j) => dur'[j] = dur[j]
  <2> HIDE DEF in, at
  <2> QED BY <1>1
<1>9. dur' \in Seq(DurMin..DurMax) /\ Len(dur') = Len(key)
  <2>1. ASSUME NEW j \in Shots PROVE dur'[j] \in DurMin..DurMax
    <3>1. CASE in(j)
      <4>1. PICK i \in DOMAIN Group : Group[i] = j
        BY <3>1
      <4>2. i \in 1..Len(scaled)
        BY <1>3, <1>4, <4>1
      <4> QED BY <1>3, <1>7, <4>1, <4>2, ElementOfSeq
    <3>2. CASE ~in(j)
      BY <1>2, <1>8, <3>2
    <3> QED BY <3>1, <3>2
  <2>2. dur' = [j \in 1..Len(key) |-> dur'[j]]
    <3> DEFINE e(j) == IF in(j) THEN scaled[at(j)] ELSE dur[j]
    <3>1. dur' = [j \in Shots |-> e(j)]
      BY <1>1
    <3> HIDE DEF e
    <3> QED BY <1>2, <3>1
  <2>3. \A j \in 1..Len(key) : dur'[j] \in DurMin..DurMax
    BY <1>2, <2>1
  <2>4. [j \in 1..Len(key) |-> dur'[j]] \in Seq(DurMin..DurMax) /\ Len([j \in 1..Len(key) |-> dur'[j]]) = Len(key)
    BY <1>2, <2>3
  <2> QED BY <2>2, <2>4
<1>10. Assigning'
  <2>1. \A j \in Shots : j < n - Len(cur) \/ j > n => dur'[j] = dur[j]
    <3> SUFFICES ASSUME NEW j \in Shots, j < n - Len(cur) \/ j > n PROVE ~in(j)
      BY <1>8
    <3> SUFFICES ASSUME NEW i \in 1..(Len(cur) + 1), Group[i] = j PROVE FALSE
      BY <1>4
    <3>1. j = n - 1 - Len(cur) + i
      BY <1>4, <1>5
    <3> HIDE DEF in
    <3> QED BY <1>2, <3>1
  <2>2. curDur' <= SegMax
    <3>1. curDur' \in Nat
      <4>1. scaled \in Seq(Nat)
        <5>1. \A i \in 1..Len(scaled) : scaled[i] \in Nat
          BY <1>2, <1>3, ElementOfSeq
        <5> QED BY <1>3, <5>1, SeqOver
      <4> QED BY <1>1, <4>1, SumOfSeq
    <3> QED BY <1>1, <1>2, <3>1 DEF TooLong
  <2>3. SameScene /\ UnderShotLimit
    BY <1>1 DEF Compressing
  <2>4. cur' = Append(cur, n)
    BY <1>1 DEF Group
  <2> HIDE DEF in, at
  <2> QED BY <1>1, <1>2, <2>1, <2>2, <2>3, <2>4, Grown
<1>11. curDur' = Lasts(dur', cur') /\ curDur' \in Int
  <2>1. scaled = [i \in DOMAIN Group |-> dur'[Group[i]]]
    <3>1. scaled = [i \in DOMAIN Group |-> scaled[i]]
      BY <1>3, <1>4
    <3> HIDE DEF in, at
    <3> QED BY <1>7, <3>1
  <2>2. curDur' = Lasts(dur', cur')
    BY <1>1, <2>1 DEF Lasts
  <2>3. scaled \in Seq(Nat)
    <3>1. \A i \in 1..Len(scaled) : scaled[i] \in Nat
      BY <1>2, <1>3, ElementOfSeq
    <3> QED BY <1>3, <3>1, SeqOver
  <2> HIDE DEF in, at
  <2>4. SumFunction(scaled) \in Nat
    BY <2>3, SumOfSeq
  <2> QED BY <1>1, <2>2, <2>4
<1>12. TypeOK'
  <2>1. cur' \in Seq(Shots) /\ n' \in 1..Len(key) + 1
    BY <1>1, <1>2, <1>4
  <2> HIDE DEF in, at
  <2> QED BY <1>1, <1>9, <1>11, <2>1 DEF TypeOK, Durations, Shots
<1> QED BY <1>1, <1>10, <1>11, <1>12 DEF IInv

LEMMA SplitIInv == ASSUME IInv, Split PROVE IInv'
<1> DEFINE seg == [segment_id |-> Len(segs) + 1, shot_ids |-> cur, duration |-> curDur,
                   scene_key |-> key[cur[Len(cur)]]]
<1>1. /\ TypeOK /\ Assigning /\ curDur = Lasts(dur, cur) /\ n \in Shots /\ cur # <<>> /\ Refused
      /\ pc = "compress" => Compressing
      /\ segs' = Append(segs, seg) /\ cur' = <<n>> /\ curDur' = dur[n] /\ scaled' = <<>>
      /\ n' = n + 1 /\ pc' = "assign"
      /\ UNCHANGED <<cast, key, given, dur, part, old, k>>
  BY DEF IInv, Split, Refused, Meeting, TypeOK, Segment, script
<1>2. n \in Nat /\ Len(cur) \in Nat /\ Len(cur) # 0 /\ Shots = 1..Len(key) /\ Len(key) \in Nat
      /\ dur \in Seq(Nat) /\ DOMAIN dur = Shots /\ ShotLimit \in Nat \ {0} /\ cur \in Seq(Shots)
  BY <1>1, Basics
<1>3. segs \in Seq(SegmentRec) /\ Len(segs) \in Nat
  BY <1>1 DEF Assigning, Cuts
<1>4. Good(seg, key, dur)
  <2>1. /\ \A i \in DOMAIN cur : key[cur[i]] = key[cur[Len(cur)]]
        /\ Len(cur) <= ShotLimit /\ (curDur <= SegMax \/ Len(cur) <= 1)
    BY <1>1 DEF Assigning, OpenOK
  <2>2. Len(segs) + 1 \in Nat
    BY <1>3
  <2> QED BY <1>1, <2>1, <2>2, ClosedGood
<1>5. seg \in SegmentRec /\ seg.shot_ids = cur /\ seg.duration = curDur
      /\ seg.scene_key = key[cur[Len(cur)]] /\ seg.segment_id = Len(segs) + 1
  BY <1>4 DEF Good
<1> HIDE DEF seg
<1>6. Cuts(segs', n' - 1 - Len(cur'), key', dur')
  <2>1. Cuts(segs, n - 1 - Len(cur), key, dur)
    BY <1>1 DEF Assigning
  <2>2. \A i \in DOMAIN seg.shot_ids : seg.shot_ids[i] = (n - 1 - Len(cur)) + i
    BY <1>1, <1>5 DEF Assigning, OpenOK
  <2>3. Cuts(Append(segs, seg), (n - 1 - Len(cur)) + Len(seg.shot_ids), key, dur)
    BY <1>4, <2>1, <2>2, CutsAppend
  <2>4. (n - 1 - Len(cur)) + Len(seg.shot_ids) = n' - 1 - Len(cur')
    BY <1>1, <1>2, <1>5
  <2> QED BY <1>1, <2>3, <2>4
\* The shot did not join the segment because that is full or of another scene.
<1>7. Full(seg, n, key, given)
  <2> SUFFICES ASSUME key[n] = key[cur[Len(cur)]], Len(cur) # ShotLimit
               PROVE  curDur + given[n] > SegMax
    BY <1>5 DEF Full
  <2>1. SameScene /\ UnderShotLimit
    BY <1>1, <1>2 DEF SameScene, UnderShotLimit, Assigning, OpenOK
  <2>2. ~FitsDuration
    BY <1>1, <2>1 DEF Refused, Compressing
  <2>3. dur[n] = given[n]
    BY <1>1, <1>2 DEF Assigning
  <2>4. curDur \in Nat /\ dur[n] \in Nat /\ SegMax \in Nat
    BY <1>1, GroupFacts, Basics
  <2> QED BY <2>2, <2>3, <2>4 DEF FitsDuration
<1>8. Merged(segs', key', given')
  <2>1. Merged(segs, key, given) /\ (segs # <<>> => Full(segs[Len(segs)], cur[1], key, given))
    BY <1>1 DEF Assigning
  <2> QED BY <1>1, <1>3, <1>5, <2>1, MergedAppend
<1>9. /\ segs' # <<>> /\ Len(segs') = Len(segs) + 1 /\ segs'[Len(segs')] = seg
      /\ \A s \in DOMAIN segs' : segs'[s] = IF s = Len(segs) + 1 THEN seg ELSE segs[s]
      /\ DOMAIN segs' = 1..(Len(segs) + 1) /\ DOMAIN segs = 1..Len(segs)
  <2>1. /\ segs' = Append(segs, seg) /\ Append(segs, seg) \in Seq(SegmentRec)
        /\ Len(Append(segs, seg)) = Len(segs) + 1 /\ Append(segs, seg)[Len(segs) + 1] = seg
        /\ \A s \in 1..Len(segs) : Append(segs, seg)[s] = segs[s]
    BY <1>1, <1>3, <1>5, AppendProperties
  <2>2. DOMAIN segs' = 1..(Len(segs) + 1) /\ DOMAIN segs = 1..Len(segs) /\ Len(segs') = Len(segs) + 1
    BY <1>3, <2>1
  <2>3. \A s \in 1..(Len(segs) + 1) : s = Len(segs) + 1 \/ s \in 1..Len(segs)
    BY <1>3
  <2>4. segs' # <<>>
    BY <1>3, <2>2
  <2>5. \A s \in DOMAIN segs' : segs'[s] = IF s = Len(segs) + 1 THEN seg ELSE segs[s]
    BY <2>1, <2>2, <2>3
  <2> QED BY <2>1, <2>2, <2>4, <2>5
<1>10. \A s \in DOMAIN segs' : segs'[s].segment_id = s
  BY <1>1, <1>3, <1>5, <1>9 DEF Assigning
<1>11. OpenOK'
  <2>1. Len(cur') = 1 /\ DOMAIN cur' = {1} /\ cur'[1] = n
    BY <1>1
  <2>2. 1 < n + 1
    BY <1>1, <1>2
  <2> QED BY <1>1, <1>2, <2>1, <2>2 DEF OpenOK
<1>12. Assigning'
  <2>1. Full(segs'[Len(segs')], cur'[1], key', given')
    BY <1>1, <1>7, <1>9
  <2>2. old' = <<>> /\ k' = 1 /\ \A j \in Shots' : j >= n' => dur'[j] = given'[j]
    BY <1>1, <1>2 DEF Assigning, Shots
  <2> QED BY <1>6, <1>8, <1>10, <1>11, <2>1, <2>2 DEF Assigning
<1>13. curDur' = Lasts(dur', cur') /\ curDur' \in Int
  BY <1>1, <1>2, LastsOne
<1>14. TypeOK'
  BY <1>1, <1>2, <1>13 DEF TypeOK, Shots
<1> QED BY <1>1, <1>12, <1>13, <1>14 DEF IInv

LEMMA FinishAssignIInv == ASSUME IInv, FinishAssign PROVE IInv'
<1> DEFINE id  == Len(segs) + 1
           seg == [segment_id |-> id, shot_ids |-> cur, duration |-> curDur,
                   scene_key |-> key[cur[Len(cur)]]]
           all == WithOpen(id)
<1>1. /\ TypeOK /\ Assigning /\ curDur = Lasts(dur, cur) /\ pc = "assign" /\ n \notin Shots
      /\ old' = Numbered(all) /\ part' = Relabel(all, part) /\ segs' = <<>>
      /\ n' = 1 /\ cur' = <<>> /\ curDur' = 0 /\ k' = 1 /\ pc' = "enforce"
      /\ UNCHANGED <<cast, key, given, dur, scaled>>
  BY DEF IInv, FinishAssign, ToEnforce
<1>2. Len(key) \in Nat /\ n = Len(key) + 1 /\ Len(cur) \in Nat /\ Shots = 1..Len(key)
  BY <1>1, Basics DEF TypeOK
<1>3. segs \in Seq(SegmentRec) /\ Len(segs) \in Nat
  BY <1>1 DEF Assigning, Cuts
<1>4. Cuts(all, Len(key), key, dur) /\ Merged(all, key, given)
  <2>1. CASE cur = <<>>
    <3>1. all = segs /\ segs = <<>> /\ n - 1 - Len(cur) = Len(key)
      BY <1>1, <1>2, <2>1 DEF WithOpen, Assigning, OpenOK
    <3> HIDE DEF all
    <3> QED BY <1>1, <3>1 DEF Assigning
  <2>2. CASE cur # <<>>
    <3>1. all = Append(segs, seg)
      BY <2>2 DEF WithOpen, Segment
    <3>2. Good(seg, key, dur)
      <4>1. /\ \A i \in DOMAIN cur : key[cur[i]] = key[cur[Len(cur)]]
            /\ Len(cur) <= ShotLimit /\ (curDur <= SegMax \/ Len(cur) <= 1)
        BY <1>1 DEF Assigning, OpenOK
      <4>2. id \in Nat
        BY <1>3
      <4> HIDE DEF id
      <4> QED BY <1>1, <2>2, <4>1, <4>2, ClosedGood
    <3>3. seg \in SegmentRec /\ seg.shot_ids = cur
      BY <3>2 DEF Good
    <3> HIDE DEF seg, all
    <3>4. Cuts(segs, n - 1 - Len(cur), key, dur) /\ Merged(segs, key, given)
          /\ (segs # <<>> => Full(segs[Len(segs)], seg.shot_ids[1], key, given))
      BY <1>1, <3>3 DEF Assigning
    <3>5. \A i \in DOMAIN seg.shot_ids : seg.shot_ids[i] = (n - 1 - Len(cur)) + i
      BY <1>1, <3>3 DEF Assigning, OpenOK
    <3>6. Cuts(Append(segs, seg), (n - 1 - Len(cur)) + Len(seg.shot_ids), key, dur)
      BY <3>2, <3>4, <3>5, CutsAppend
    <3>7. (n - 1 - Len(cur)) + Len(seg.shot_ids) = Len(key)
      BY <1>2, <3>3
    <3>8. Merged(Append(segs, seg), key, given)
      BY <1>3, <3>3, <3>4, MergedAppend
    <3> QED BY <3>1, <3>6, <3>7, <3>8
  <2> QED BY <2>1, <2>2
<1> HIDE DEF all
\* The durations are added up again and are what they were.
<1>5. Numbered(all) = all
  <2>1. all \in Seq(SegmentRec)
    BY <1>4 DEF Cuts
  <2>2. ASSUME NEW j \in DOMAIN all
        PROVE  [all[j] EXCEPT !.duration = SumFunction([i \in DOMAIN all[j].shot_ids |->
                                                          dur[all[j].shot_ids[i]]])] = all[j]
    <3>1. Good(all[j], key, dur)
      BY <1>4 DEF Cuts
    <3>2. all[j] \in SegmentRec
          /\ SumFunction([i \in DOMAIN all[j].shot_ids |-> dur[all[j].shot_ids[i]]]) = all[j].duration
      BY <3>1 DEF Good, Lasts
    <3> QED BY <3>2 DEF SegmentRec
  <2>3. Numbered(all) = [j \in DOMAIN all |-> all[j]]
    BY <2>2 DEF Numbered
  <2> QED BY <2>1, <2>3
<1>6. part' \in Seq(Nat) /\ Len(part') = Len(key)
  <2> DEFINE own(j) == \E s \in DOMAIN all : j \in Range(all[s].shot_ids)
             at(j)  == CHOOSE s \in DOMAIN all : j \in Range(all[s].shot_ids)
             p(j)   == IF own(j) THEN all[at(j)].segment_id ELSE part[j]
  <2>1. part' = [j \in 1..Len(key) |-> p(j)]
    BY <1>1, <1>2 DEF Relabel
  <2>2. ASSUME NEW j \in 1..Len(key) PROVE p(j) \in Nat
    <3>1. CASE own(j)
      <4>1. at(j) \in DOMAIN all
        BY <3>1
      <4>2. all[at(j)] \in SegmentRec
        <5>1. all \in Seq(SegmentRec)
          BY <1>4 DEF Cuts
        <5> HIDE DEF at
        <5> QED BY <4>1, <5>1
      <4> HIDE DEF at
      <4> QED BY <3>1, <4>2 DEF SegmentRec
    <3>2. CASE ~own(j)
      <4>1. part[j] \in Nat
        BY <1>1, <1>2, Basics
      <4> QED BY <3>2, <4>1
    <3> QED BY <3>1, <3>2
  <2> HIDE DEF p
  <2> QED BY <1>2, <2>1, <2>2
<1>7. TypeOK'
  <2>1. all \in Seq(SegmentRec)
    BY <1>4 DEF Cuts
  <2> QED BY <1>1, <1>2, <1>5, <1>6, <2>1 DEF TypeOK, Shots
<1>8. curDur' = Lasts(dur', cur')
  BY <1>1, LastsEmpty
<1>9. Enforcing'
  <2>1. CollectOK'
    BY <1>1 DEF CollectOK, First
  <2>2. Len(segs') = k' - 1 /\ segs' \in Seq(SegmentRec) /\ DOMAIN segs' = {}
    BY <1>1
  <2> QED BY <1>1, <1>4, <1>5, <2>1, <2>2 DEF Enforcing
<1> QED BY <1>1, <1>7, <1>8, <1>9 DEF IInv

\* A segment is a run of the script's shots.
LEMMA OldFacts ==
  ASSUME TypeOK, Cuts(old, Len(key), key, dur), NEW s \in DOMAIN old,
         NEW a, a = First(old, s), NEW ids, ids = old[s].shot_ids
  PROVE  /\ a \in Nat /\ a >= 1 /\ Len(ids) \in Nat /\ Len(ids) >= 1 /\ a + Len(ids) - 1 <= Len(key)
         /\ ids \in Seq(Shots) /\ DOMAIN ids = 1..Len(ids)
         /\ \A i \in 1..Len(ids) : ids[i] = a + i - 1
         /\ \A j \in Nat : j \in Range(ids) <=> a <= j /\ j < a + Len(ids)
<1>1. Good(old[s], key, dur) /\ \A i \in DOMAIN ids : ids[i] <= Len(key) /\ ids[i] = a + i - 1
  BY DEF Cuts, Runs
<1>2. ids \in Seq(Nat) /\ ids # <<>> /\ \A i \in DOMAIN ids : ids[i] \in Shots
  BY <1>1 DEF Good, SegmentRec, Shots
<1>3. Len(ids) \in Nat /\ Len(ids) >= 1 /\ DOMAIN ids = 1..Len(ids) /\ Shots \subseteq Nat \ {0}
  BY <1>2, Basics
<1>4. ids[1] = a /\ ids[1] \in Nat \ {0}
  <2>1. ids[1] = a + 1 - 1 /\ ids[1] \in Nat \ {0}
    BY <1>1, <1>2, <1>3
  <2>2. a \in Nat
    <3>1. s # 1 => s - 1 \in DOMAIN old
      <4>1. old \in Seq(SegmentRec)
        BY DEF Cuts
      <4> QED BY <4>1
    <3>2. CASE s = 1
      BY <3>2 DEF First
    <3>3. CASE s # 1
      <4> DEFINE w == old[s - 1].shot_ids
      <4>1. Good(old[s - 1], key, dur) /\ \A i \in DOMAIN w : w[i] \in DOMAIN key
        BY <3>1, <3>3 DEF Cuts, Good
      <4>2. w \in Seq(Nat) /\ w # <<>>
        BY <4>1 DEF Good, SegmentRec
      <4>3. Len(w) \in DOMAIN w
        BY <4>2
      <4>4. w[Len(w)] \in Nat
        BY <4>2, <4>3
      <4> QED BY <3>3, <4>4 DEF First
    <3> QED BY <3>2, <3>3
  <2> QED BY <2>1, <2>2
<1>5. a + Len(ids) - 1 <= Len(key)
  <2>1. Len(ids) \in DOMAIN ids
    BY <1>3
  <2> QED BY <1>1, <2>1
<1>6. ids \in Seq(Shots)
  BY <1>2, <1>3, SeqOver
<1>7. ASSUME NEW j \in Nat PROVE j \in Range(ids) <=> a <= j /\ j < a + Len(ids)
  <2>1. ASSUME j \in Range(ids) PROVE a <= j /\ j < a + Len(ids)
    <3>1. PICK i \in DOMAIN ids : ids[i] = j
      BY <2>1 DEF Range
    <3>2. j = a + i - 1 /\ i \in 1..Len(ids)
      BY <1>1, <1>3, <3>1
    <3> QED BY <1>3, <1>4, <3>2
  <2>2. ASSUME a <= j, j < a + Len(ids) PROVE j \in Range(ids)
    <3>1. j - a + 1 \in DOMAIN ids
      BY <1>3, <1>4, <2>2
    <3>2. ids[j - a + 1] = j
      BY <1>1, <1>3, <1>4, <3>1
    <3> QED BY <3>1, <3>2 DEF Range
  <2> QED BY <2>1, <2>2
<1> QED BY <1>1, <1>3, <1>4, <1>5, <1>6, <1>7

\* The second look never finds a shot too many.
LEMMA NoOverflow ==
  ASSUME IInv, Enforcing, k \in DOMAIN old, n \in Range(old[k].shot_ids), n \in Shots
  PROVE  ~Overflows
<1> DEFINE ids == old[k].shot_ids
           a == First(old, k)
           c == Append(cur, n)
<1>1. TypeOK /\ curDur = Lasts(dur, cur) /\ Cuts(old, Len(key), key, dur)
      /\ n \in Nat /\ Len(cur) \in Nat /\ dur \in Seq(Nat) /\ DOMAIN dur = Shots /\ cur \in Seq(Shots)
  BY Basics DEF IInv, Enforcing
<1>2. /\ a \in Nat /\ Len(ids) \in Nat /\ Len(ids) >= 1 /\ ids \in Seq(Shots) /\ DOMAIN ids = 1..Len(ids)
      /\ \A i \in 1..Len(ids) : ids[i] = a + i - 1
      /\ \A j \in Nat : j \in Range(ids) <=> a <= j /\ j < a + Len(ids)
  BY <1>1, OldFacts
<1>3. /\ \A i \in DOMAIN cur : cur[i] = a + i - 1
      /\ Len(cur) = IF n <= a THEN 0 ELSE IF n <= a + Len(ids) THEN n - a ELSE Len(ids)
  BY DEF Enforcing, CollectOK
<1>4. Good(old[k], key, dur)
  BY <1>1 DEF Cuts
<1> HIDE DEF ids, a, c
<1>5. a <= n /\ n < a + Len(ids)
  BY <1>1, <1>2 DEF ids
<1>6. Len(cur) = n - a
  BY <1>1, <1>2, <1>3, <1>5
<1>7. c \in Seq(Shots) /\ Len(c) = n - a + 1 /\ DOMAIN c = 1..(n - a + 1) /\ Len(c) <= Len(ids)
      /\ c[n - a + 1] = n
  BY <1>1, <1>2, <1>5, <1>6 DEF c
<1>8. \A i \in DOMAIN c : c[i] = ids[i]
  <2> TAKE i \in DOMAIN c
  <2>0. i \in Nat /\ 1 <= i /\ i <= n - a + 1 /\ n - a + 1 <= Len(ids) /\ n - a \in Nat
    BY <1>1, <1>2, <1>5, <1>7
  <2>1. i \in 1..Len(ids) /\ ids[i] = a + i - 1
    BY <1>2, <2>0
  <2>4. i \in 1..Len(cur) \/ i = n - a + 1
    BY <1>6, <2>0
  <2>2. CASE i \in 1..Len(cur)
    <3>1. c[i] = cur[i] /\ i \in DOMAIN cur
      BY <1>1, <2>2 DEF c
    <3> QED BY <1>3, <2>1, <3>1
  <2>3. CASE i = n - a + 1
    BY <1>1, <1>2, <1>7, <2>1, <2>3
  <2> QED BY <2>2, <2>3, <2>4
<1>9. Lasts(dur, c) <= Lasts(dur, ids)
  BY <1>1, <1>2, <1>7, <1>8, LastsPrefix
<1>10. Lasts(dur, c) = curDur + dur[n]
  BY <1>1, LastsAppend DEF c
<1>11. old[k].duration = Lasts(dur, ids) /\ (old[k].duration <= SegMax \/ Len(ids) = 1)
  BY <1>4 DEF Good, ids
<1>12. curDur \in Nat /\ dur[n] \in Nat /\ Lasts(dur, ids) \in Nat /\ SegMax \in Nat
  BY <1>1, <1>2, LastsNat, Basics
<1>13. CASE old[k].duration <= SegMax
  BY <1>9, <1>10, <1>11, <1>12, <1>13 DEF Overflows
<1>14. CASE Len(ids) = 1
  <2>1. Len(cur) = 0
    BY <1>1, <1>2, <1>5, <1>6, <1>14
  <2> QED BY <1>1, <2>1 DEF Overflows
<1> QED BY <1>11, <1>13, <1>14

LEMMA EnforceShotIInv == ASSUME IInv, EnforceShot PROVE IInv'
<1> DEFINE ids == old[k].shot_ids
           a == First(old, k)
<1>1. /\ TypeOK /\ Enforcing /\ curDur = Lasts(dur, cur) /\ pc = "enforce" /\ k \in DOMAIN old /\ n \in Shots
      /\ n' = n + 1 /\ UNCHANGED <<pc, cast, key, given, dur, scaled, old, k>>
  BY DEF IInv, EnforceShot
<1>2. /\ n \in Nat /\ Len(cur) \in Nat /\ dur \in Seq(Nat) /\ DOMAIN dur = Shots /\ cur \in Seq(Shots)
      /\ Shots = 1..Len(key) /\ Len(key) \in Nat /\ DOMAIN cur = 1..Len(cur)
  BY <1>1, Basics
<1>3. /\ a \in Nat /\ Len(ids) \in Nat /\ Len(ids) >= 1
      /\ \A j \in Nat : j \in Range(ids) <=> a <= j /\ j < a + Len(ids)
  BY <1>1, OldFacts DEF Enforcing
<1>4. /\ \A i \in DOMAIN cur : cur[i] = a + i - 1
      /\ Len(cur) = IF n <= a THEN 0 ELSE IF n <= a + Len(ids) THEN n - a ELSE Len(ids)
  BY <1>1 DEF Enforcing, CollectOK
<1>5. /\ UNCHANGED <<segs, part>>
      /\ IF n \in Range(ids) THEN cur' = Append(cur, n) /\ curDur' = curDur + dur[n] ELSE UNCHANGED <<cur, curDur>>
  BY <1>1, NoOverflow DEF EnforceShot, Take
<1> HIDE DEF ids, a
<1>6. /\ \A i \in DOMAIN cur' : cur'[i] = a + i - 1
      /\ Len(cur') = IF n' <= a THEN 0 ELSE IF n' <= a + Len(ids) THEN n' - a ELSE Len(ids)
      /\ cur' \in Seq(Shots) /\ curDur' = Lasts(dur, cur')
  <2>1. CASE n \in Range(ids)
    <3>1. a <= n /\ n < a + Len(ids) /\ Len(cur) = n - a
      BY <1>2, <1>3, <1>4, <2>1
    <3>2. /\ cur' = Append(cur, n) /\ cur' \in Seq(Shots) /\ Len(cur') = n - a + 1 /\ DOMAIN cur' = 1..(n - a + 1)
          /\ cur'[n - a + 1] = n /\ \A i \in 1..Len(cur) : cur'[i] = cur[i]
      <4>1. cur' = Append(cur, n) /\ Len(cur) = n - a
        BY <1>5, <2>1, <3>1
      <4>2. Append(cur, n) \in Seq(Shots) /\ Len(Append(cur, n)) = Len(cur) + 1
            /\ Append(cur, n)[Len(cur) + 1] = n /\ \A i \in 1..Len(cur) : Append(cur, n)[i] = cur[i]
        BY <1>1, <1>2, AppendProperties
      <4>3. DOMAIN cur' = 1..Len(cur')
        BY <4>1, <4>2
      <4> QED BY <4>1, <4>2, <4>3
    <3>3. \A i \in DOMAIN cur' : cur'[i] = a + i - 1
      <4> TAKE i \in DOMAIN cur'
      <4>3. n - a \in Nat /\ i \in 1..(n - a + 1)
        BY <1>2, <1>3, <3>1, <3>2
      <4>4. i \in 1..Len(cur) \/ i = n - a + 1
        BY <3>1, <4>3
      <4>1. CASE i \in 1..Len(cur)
        BY <1>2, <1>4, <3>2, <4>1
      <4>2. CASE i = n - a + 1
        BY <1>2, <1>3, <3>2, <4>2
      <4> QED BY <4>1, <4>2, <4>4
    <3>4. curDur' = Lasts(dur, cur')
      BY <1>1, <1>2, <1>5, <2>1, LastsAppend
    <3> QED BY <1>1, <1>2, <1>3, <3>1, <3>2, <3>3, <3>4
  <2>2. CASE n \notin Range(ids)
    <3>1. UNCHANGED <<cur, curDur>> /\ ~(a <= n /\ n < a + Len(ids))
      BY <1>2, <1>3, <1>5, <2>2
    <3>2. Len(cur) = IF n' <= a THEN 0 ELSE IF n' <= a + Len(ids) THEN n' - a ELSE Len(ids)
      BY <1>1, <1>2, <1>3, <1>4, <3>1
    <3> QED BY <1>1, <1>2, <1>4, <3>1, <3>2
  <2> QED BY <2>1, <2>2
<1>7. TypeOK'
  <2>1. curDur' \in Int
    <3>1. cur' \in Seq(DOMAIN dur)
      BY <1>2, <1>6
    <3>2. Lasts(dur, cur') \in Nat
      BY <1>2, <3>1, LastsNat
    <3> QED BY <1>6, <3>2
  <2>2. n' \in 1..Len(key) + 1 /\ cur' \in Seq(Shots)
    BY <1>1, <1>2, <1>6
  <2> QED BY <1>1, <1>5, <2>1, <2>2 DEF TypeOK, Shots
<1>8. CollectOK'
  BY <1>1, <1>6 DEF CollectOK, ids, a
<1>9. Enforcing'
  BY <1>1, <1>5, <1>8 DEF Enforcing
<1> QED BY <1>1, <1>6, <1>7, <1>9 DEF IInv


LEMMA EnforceNextIInv == ASSUME IInv, EnforceNext PROVE IInv'
<1> DEFINE ids == old[k].shot_ids
           a == First(old, k)
           seg == [segment_id |-> Fresh, shot_ids |-> cur, duration |-> curDur, scene_key |-> old[k].scene_key]
<1>1. /\ TypeOK /\ Enforcing /\ curDur = Lasts(dur, cur) /\ pc = "enforce" /\ k \in DOMAIN old /\ n \notin Shots
      /\ cur' = <<>> /\ curDur' = 0 /\ n' = 1 /\ k' = k + 1
      /\ UNCHANGED <<pc, cast, key, given, dur, scaled, old>>
  BY DEF IInv, EnforceNext
<1>2. /\ Len(cur) \in Nat /\ dur \in Seq(Nat) /\ DOMAIN dur = Shots /\ cur \in Seq(Shots)
      /\ Shots = 1..Len(key) /\ Len(key) \in Nat /\ DOMAIN cur = 1..Len(cur)
      /\ n = Len(key) + 1
  BY <1>1, Basics DEF TypeOK
<1>3. /\ a \in Nat /\ Len(ids) \in Nat /\ Len(ids) >= 1 /\ a + Len(ids) - 1 <= Len(key)
      /\ ids \in Seq(Shots) /\ DOMAIN ids = 1..Len(ids)
      /\ \A i \in 1..Len(ids) : ids[i] = a + i - 1
  BY <1>1, OldFacts DEF Enforcing
<1>4. /\ \A i \in DOMAIN cur : cur[i] = a + i - 1
      /\ Len(cur) = IF n <= a THEN 0 ELSE IF n <= a + Len(ids) THEN n - a ELSE Len(ids)
  BY <1>1 DEF Enforcing, CollectOK
<1>5. old \in Seq(SegmentRec) /\ DOMAIN old = 1..Len(old) /\ Len(old) \in Nat /\ k \in Nat /\ k >= 1 /\ k <= Len(old)
      /\ old[k] \in SegmentRec /\ Good(old[k], key, dur)
  <2>1. old \in Seq(SegmentRec) /\ Good(old[k], key, dur)
    BY <1>1 DEF Enforcing, Cuts
  <2> QED BY <1>1, <2>1
\* The whole segment has been collected again.
<1>6. cur = ids
  <2> HIDE DEF ids, a
  <2>1. Len(cur) = Len(ids)
    <3>1. ~(n <= a) /\ (n <= a + Len(ids) => n - a = Len(ids))
      <4> DEFINE l == Len(ids)
      <4>1. n = Len(key) + 1 /\ Len(key) \in Nat /\ a \in Nat /\ l \in Nat /\ l >= 1 /\ a + l - 1 <= Len(key)
        BY <1>2, <1>3
      <4> HIDE DEF l
      <4>2. ~(n <= a) /\ (n <= a + l => n - a = l)
        BY <4>1
      <4> QED BY <4>2 DEF l
    <3> QED BY <1>4, <3>1
  <2>2. \A i \in 1..Len(cur) : cur[i] = ids[i]
    BY <1>2, <1>3, <1>4, <2>1
  <2> QED BY <1>2, <1>3, <2>1, <2>2, SeqEqual
<1>7. cur # <<>>
  BY <1>3, <1>6
<1>8. segs' = Append(segs, seg) /\ part' = [j \in Shots |-> IF j \in Range(cur) THEN Fresh ELSE part[j]]
  BY <1>1, <1>7 DEF EnforceNext, CloseOpen, Segment
<1>9. Len(segs) = k - 1 /\ segs \in Seq(SegmentRec) /\ Fresh = Len(old) + k /\ Fresh \in Nat
  BY <1>1, <1>5 DEF Enforcing, Fresh
<1>10. seg \in SegmentRec /\ Same(seg, old[k]) /\ seg.segment_id = Len(old) + k /\ seg.shot_ids = cur
  <2>1. old[k].shot_ids = cur /\ old[k].duration = curDur
    BY <1>1, <1>5, <1>6 DEF Good
  <2>2. cur \in Seq(Nat) /\ curDur \in Nat /\ old[k].scene_key \in Keys
    BY <1>5, <2>1 DEF SegmentRec
  <2> QED BY <1>9, <2>1, <2>2 DEF Same, SegmentRec
<1> HIDE DEF seg
<1>11. /\ segs' \in Seq(SegmentRec) /\ Len(segs') = k /\ DOMAIN segs' = 1..k
       /\ segs'[k] = seg /\ \A s \in 1..(k - 1) : segs'[s] = segs[s]
       /\ DOMAIN segs = 1..(k - 1)
  <2>1. /\ Append(segs, seg) \in Seq(SegmentRec) /\ Len(Append(segs, seg)) = Len(segs) + 1
        /\ Append(segs, seg)[Len(segs) + 1] = seg
        /\ \A s \in 1..Len(segs) : Append(segs, seg)[s] = segs[s]
    BY <1>9, <1>10, AppendProperties
  <2>2. Len(segs) + 1 = k
    BY <1>5, <1>9
  <2>3. segs' \in Seq(SegmentRec) /\ Len(segs') = k /\ segs'[k] = seg
        /\ \A s \in 1..(k - 1) : segs'[s] = segs[s]
    BY <1>8, <1>9, <2>1, <2>2
  <2> QED BY <1>9, <2>3
<1>12. part' \in Seq(Nat) /\ Len(part') = Len(key)
  <2> DEFINE p(j) == IF j \in Range(cur) THEN Fresh ELSE part[j]
  <2>1. part' = [j \in 1..Len(key) |-> p(j)]
    BY <1>2, <1>8
  <2>2. \A j \in 1..Len(key) : p(j) \in Nat
    BY <1>1, <1>2, <1>9, Basics
  <2> HIDE DEF p
  <2> QED BY <1>2, <2>1, <2>2
<1>13. TypeOK'
  <2>1. k' \in 1..Len(old) + 1
    BY <1>1, <1>5
  <2> QED BY <1>1, <1>2, <1>12, <2>1 DEF TypeOK, Shots
<1>14. ASSUME NEW s \in DOMAIN segs'
       PROVE  /\ Same(segs'[s], old[s])
              /\ segs'[s].segment_id = Len(old) + s
              /\ \A i \in DOMAIN segs'[s].shot_ids : part'[segs'[s].shot_ids[i]] = segs'[s].segment_id
  <2>1. CASE s = k
    <3>1. \A i \in DOMAIN cur : cur[i] \in Shots /\ cur[i] \in Range(cur)
      BY <1>2 DEF Range
    <3>2. \A i \in DOMAIN cur : part'[cur[i]] = Fresh
      BY <1>8, <3>1
    <3> QED BY <1>9, <1>10, <1>11, <2>1, <3>2
  <2>2. CASE s \in 1..(k - 1)
    <3>1. segs'[s] = segs[s] /\ s \in DOMAIN segs /\ s \in DOMAIN old /\ s < k
      BY <1>5, <1>11, <2>2
    <3>2. /\ Same(segs[s], old[s]) /\ segs[s].segment_id = Len(old) + s
          /\ \A i \in DOMAIN segs[s].shot_ids : part[segs[s].shot_ids[i]] = segs[s].segment_id
      BY <1>1, <3>1 DEF Enforcing
    <3>3. ASSUME NEW i \in DOMAIN old[s].shot_ids PROVE part'[old[s].shot_ids[i]] = part[old[s].shot_ids[i]]
      <4>1. Before(old[s], old[k])
        BY <1>1, <3>1 DEF Enforcing, Cuts
      <4>2. \A j \in DOMAIN cur : old[s].shot_ids[i] < cur[j]
        BY <1>6, <4>1 DEF Before
      <4>3. old[s].shot_ids[i] \in Shots
        <5>1. Good(old[s], key, dur)
          BY <1>1, <3>1 DEF Enforcing, Cuts
        <5> QED BY <5>1 DEF Good, Shots
      <4>4. old[s].shot_ids[i] \notin Range(cur)
        <5> SUFFICES ASSUME NEW j \in DOMAIN cur, cur[j] = old[s].shot_ids[i] PROVE FALSE
          BY DEF Range
        <5>1. cur[j] \in Nat /\ cur[j] < cur[j]
          BY <1>2, <4>2, <4>3
        <5> QED BY <5>1
      <4> QED BY <1>8, <4>3, <4>4
    <3> QED BY <3>1, <3>2, <3>3 DEF Same
  <2> QED BY <1>5, <1>11, <2>1, <2>2
<1>15. CollectOK'
  <2>1. CASE k' \in DOMAIN old
    <3>1. First(old, k') \in Nat /\ First(old, k') >= 1
      BY <1>1, <2>1, OldFacts DEF Enforcing
    <3> QED BY <1>1, <3>1 DEF CollectOK
  <2>2. CASE k' \notin DOMAIN old
    BY <1>1, <2>2 DEF CollectOK
  <2> QED BY <2>1, <2>2
<1>16. Enforcing'
  <2>1. Cuts(old', Len(key'), key', dur') /\ Merged(old', key', given')
    BY <1>1 DEF Enforcing
  <2>2. Len(segs') = k' - 1
    BY <1>1, <1>5, <1>11
  <2> QED BY <1>1, <1>11, <1>14, <1>15, <2>1, <2>2 DEF Enforcing
<1> QED BY <1>1, <1>13, <1>16, LastsEmpty DEF IInv

LEMMA DecidingIInv == ASSUME IInv, EnforceEnd \/ SelfCheck \/ Decided PROVE IInv'
<1>1. /\ TypeOK /\ Enforcing /\ curDur = Lasts(dur, cur) /\ pc' \in {"check", "ready", "failed"}
      /\ k \in 1..Len(old) + 1 /\ old \in Seq(SegmentRec)
      /\ (k = Len(old) + 1 \/ k \notin DOMAIN old)
      /\ UNCHANGED <<cast, key, given, dur, part, n, cur, curDur, scaled, segs, old, k>>
  BY DEF IInv, EnforceEnd, SelfCheck, Decided, TypeOK, Enforcing, Cuts, vars, script, loop
<1>2. k = Len(old) + 1
  BY <1>1
<1>3. Enforcing'
  <2>1. CollectOK'
    BY <1>1 DEF Enforcing, CollectOK
  <2> QED BY <1>1, <2>1 DEF Enforcing
<1>4. TypeOK'
  BY <1>1 DEF TypeOK, Shots
<1> QED BY <1>1, <1>2, <1>3, <1>4 DEF IInv


LEMMA NextIInv == IInv /\ [Next]_vars => IInv'
<1> SUFFICES ASSUME IInv, [Next]_vars PROVE IInv'
  OBVIOUS
<1>1. ASSUME NEW scene \in Scenes \cup {NoScene}, NEW d \in Answers \cup {Unreadable}, ReadShot(scene, d)
      PROVE  IInv'
  BY <1>1, ReadShotIInv
<1>2. CASE StartAssign
  BY <1>2, StartAssignIInv
<1>3. CASE Join
  BY <1>3, JoinIInv
<1>4. CASE Compress
  BY <1>4, CompressIInv
<1>5. CASE Trim
  BY <1>5, TrimIInv
<1>6. CASE Merge
  BY <1>6, MergeIInv
<1>7. CASE Split
  BY <1>7, SplitIInv
<1>8. CASE FinishAssign
  BY <1>8, FinishAssignIInv
<1>9. CASE EnforceShot
  BY <1>9, EnforceShotIInv
<1>10. CASE EnforceNext
  BY <1>10, EnforceNextIInv
<1>11. CASE EnforceEnd \/ SelfCheck \/ Decided
  BY <1>11, DecidingIInv
<1>12. CASE UNCHANGED vars
  <2>1. UNCHANGED <<pc, cast, key, given, dur, part, n, cur, curDur, scaled, segs, old, k>>
    BY <1>12 DEF vars, script, loop
  <2>2. TypeOK'
    BY <2>1 DEF IInv, TypeOK, Shots
  <2>3. pc \in {"read", "assign", "compress"} => Assigning'
    BY <2>1, AssigningStays DEF IInv
  <2>4. pc = "compress" => Compressing'
    BY <2>1 DEF IInv, Compressing, SameScene, UnderShotLimit, FitsDuration
  <2>5. pc \in {"enforce", "check", "ready", "failed"} => Enforcing'
    <3>1. CollectOK => CollectOK'
      BY <2>1 DEF CollectOK
    <3> QED BY <2>1, <3>1 DEF IInv, Enforcing
  <2> QED BY <2>1, <2>2, <2>3, <2>4, <2>5 DEF IInv
<1> QED BY <1>1, <1>2, <1>3, <1>4, <1>5, <1>6, <1>7, <1>8, <1>9, <1>10, <1>11, <1>12 DEF Next

\* What holds while and after the shots are cut into segments.
THEOREM Invariance == Spec => []IInv
<1>1. Init => IInv
  BY InitIInv
<1>2. IInv /\ [Next]_vars => IInv'
  BY NextIInv
<1> QED BY <1>1, <1>2, PTL DEF Spec

-----------------------------------------------------------------------------
\* Compressed or not, a duration stays within what the video model can
\* produce, and the loops' indices stay within the script
\* (_compress_durations, _assign_segments).
THEOREM TypeCorrect == Spec => []TypeOK
<1>1. IInv => TypeOK
  BY DEF IInv
<1> QED BY <1>1, Invariance, PTL

LEMMA IInvSegs ==
  ASSUME IInv, pc \in {"check", "ready", "failed"}
  PROVE  /\ Enforcing /\ Len(segs) = Len(old) /\ DOMAIN segs = DOMAIN old
         /\ \A s \in DOMAIN old : Same(segs[s], old[s])
         /\ old \in Seq(SegmentRec) /\ segs \in Seq(SegmentRec)
<1>1. Enforcing /\ k = Len(old) + 1
  BY DEF IInv
<1>2. old \in Seq(SegmentRec) /\ segs \in Seq(SegmentRec) /\ Len(segs) = Len(old)
  BY <1>1 DEF Enforcing, Cuts
<1>3. DOMAIN segs = DOMAIN old
  BY <1>2
<1> QED BY <1>1, <1>2, <1>3 DEF Enforcing

\* No shot is lost, repeated or moved on its way into a segment, for every
\* script: the segments cut the shots into runs, in order, and each shot
\* carries the id of the segment it is in (step1_parse_script).
THEOREM PartitionHolds == Spec => []Partition
<1>1. IInv => Partition
  <2> SUFFICES ASSUME IInv, pc \in {"check", "ready", "failed"} PROVE Partition
    BY DEF Partition
  <2>1. /\ Enforcing /\ Len(segs) = Len(old) /\ DOMAIN segs = DOMAIN old
        /\ \A s \in DOMAIN old : segs[s].shot_ids = old[s].shot_ids
        /\ old \in Seq(SegmentRec)
    BY IInvSegs DEF Same
  <2>2. \A s \in DOMAIN segs : \A i \in DOMAIN segs[s].shot_ids :
          part[segs[s].shot_ids[i]] = segs[s].segment_id
    BY <2>1 DEF Enforcing
  <2>3. Runs(old, Len(key))
    BY <2>1 DEF Enforcing, Cuts
  <2>4. \A s \in 1..(Len(old) + 1) : First(segs, s) = First(old, s)
    <3> TAKE s \in 1..(Len(old) + 1)
    <3>1. s # 1 => s - 1 \in DOMAIN old
      BY <2>1
    <3> QED BY <2>1, <3>1 DEF First
  <2>5. Runs(segs, Len(key))
    <3>1. Len(old) + 1 \in 1..(Len(old) + 1) /\ DOMAIN old \subseteq 1..(Len(old) + 1)
      BY <2>1
    <3> QED BY <2>1, <2>3, <2>4, <3>1 DEF Runs
  <2> QED BY <2>2, <2>5 DEF Partition
<1> QED BY <1>1, Invariance, PTL

\* Every segment is of one scene and within the limits of shots and seconds,
\* and its duration is the sum of its shots' durations at every moment:
\* a later compression never touches a shot of a finished segment.
THEOREM WithinLimitsHolds == Spec => []WithinLimits
<1> DEFINE Fine(seg) == LET ids == seg.shot_ids
                        IN  /\ Len(ids) <= ShotLimit
                            /\ \A i \in DOMAIN ids : key[ids[i]] = seg.scene_key
                            /\ seg.duration = SumFunction([i \in DOMAIN ids |-> dur[ids[i]]])
                            /\ seg.duration <= SegMax \/ Len(ids) = 1
<1>1. \A seg : Good(seg, key, dur) => Fine(seg)
  BY DEF Good, Lasts
<1>2. IInv => \A list \in {segs, old} : \A s \in DOMAIN list : Fine(list[s])
  <2> SUFFICES ASSUME IInv PROVE \A list \in {segs, old} : \A s \in DOMAIN list : Fine(list[s])
    OBVIOUS
  <2>1. CASE pc \in {"read", "assign", "compress"}
    <3>1. old = <<>> /\ \A s \in DOMAIN segs : Good(segs[s], key, dur)
      BY <2>1 DEF IInv, Assigning, Cuts
    <3> HIDE DEF Fine
    <3> QED BY <1>1, <3>1
  <2>2. CASE pc \in {"enforce", "check", "ready", "failed"}
    <3>1. Enforcing /\ TypeOK
      BY <2>2 DEF IInv
    <3>2. \A s \in DOMAIN old : Fine(old[s])
      BY <1>1, <3>1 DEF Enforcing, Cuts
    <3>3. \A s \in DOMAIN segs : s \in DOMAIN old /\ Same(segs[s], old[s])
      <4>1. segs \in Seq(SegmentRec) /\ old \in Seq(SegmentRec) /\ Len(segs) = k - 1 /\ k \in 1..Len(old) + 1
        BY <3>1 DEF Enforcing, Cuts, TypeOK
      <4>2. DOMAIN segs \subseteq DOMAIN old
        BY <4>1
      <4> QED BY <3>1, <4>2 DEF Enforcing
    <3>4. \A s \in DOMAIN segs : Fine(segs[s])
      BY <3>2, <3>3 DEF Same
    <3> QED BY <3>2, <3>4
  <2> QED BY <2>1, <2>2 DEF IInv, TypeOK
<1>3. IInv => WithinLimits
  BY <1>2 DEF WithinLimits
<1> QED BY <1>3, Invariance, PTL

\* _enforce_segment_duration never cuts: its comment, that _assign_segments has
\* already ensured the limit, is right for every script.
THEOREM NothingLeftToCutHolds == Spec => []NothingLeftToCut
<1>1. IInv => NothingLeftToCut
  BY IInvSegs DEF NothingLeftToCut, Same
<1> QED BY <1>1, Invariance, PTL

\* Two neighbouring segments of one scene could not have been one: the first
\* had as many shots as it may, or the next shot would have exceeded the hard
\* limit (_assign_segments).
THEOREM MergedFirstHolds == Spec => []MergedFirst
<1>1. IInv => MergedFirst
  <2> SUFFICES ASSUME IInv, NEW s \in DOMAIN old, s + 1 \in DOMAIN old,
                      old[s].scene_key = old[s + 1].scene_key
               PROVE  \/ Len(old[s].shot_ids) = ShotLimit
                      \/ old[s].duration + given[old[s + 1].shot_ids[1]] > SegMax
    BY DEF MergedFirst
  <2>1. Enforcing
    BY DEF IInv, Assigning, TypeOK
  <2>2. Full(old[s], old[s + 1].shot_ids[1], key, given)
    BY <2>1 DEF Enforcing, Merged
  <2>3. Good(old[s + 1], key, dur)
    BY <2>1 DEF Enforcing, Cuts
  <2>4. 1 \in DOMAIN old[s + 1].shot_ids
    BY <2>3 DEF Good, SegmentRec
  <2>5. key[old[s + 1].shot_ids[1]] = old[s].scene_key
    BY <2>3, <2>4 DEF Good
  <2> QED BY <2>2, <2>5 DEF Full
<1> QED BY <1>1, Invariance, PTL

-----------------------------------------------------------------------------
(***************************************************************************)
(* The parsing comes to an end.  What is left of it is measured by the     *)
(* phase, the rounds of the outer loop, those of the inner one, and the    *)
(* seconds a compression may still take.                                   *)
(***************************************************************************)
Phase == CASE pc = "read" -> 4
           [] pc \in {"assign", "compress"} -> 3
           [] pc = "enforce" -> 2
           [] pc = "check" -> 1
           [] OTHER -> 0

Outer == CASE pc = "read" -> MaxShots - Len(key)
           [] pc \in {"assign", "compress"} -> Len(key) + 1 - n
           [] pc = "enforce" -> Len(old) + 1 - k
           [] OTHER -> 0

Inner == CASE pc = "assign" -> 1
           [] pc = "enforce" -> Len(key) + 1 - n
           [] OTHER -> 0

Seconds == IF pc = "compress" THEN SumFunction(scaled) ELSE 0

Remaining == <<Phase, <<Outer, <<Inner, Seconds>>>>>>

Less    == OpToRel(<, Nat)
Span    == Nat \X (Nat \X (Nat \X Nat))
Shorter == LexPairOrdering(Less, LexPairOrdering(Less, LexPairOrdering(Less, Less, Nat, Nat),
                                                 Nat, Nat \X Nat),
                           Nat, Nat \X (Nat \X Nat))

\* Remaining cannot get shorter for ever.
LEMMA ShorterWellFounded == IsWellFoundedOn(Shorter, Span)
<1>1. IsWellFoundedOn(Less, Nat)
  BY NatLessThanWellFounded DEF Less
<1>2. IsWellFoundedOn(LexPairOrdering(Less, Less, Nat, Nat), Nat \X Nat)
  BY <1>1, WFLexPairOrdering
<1>3. IsWellFoundedOn(LexPairOrdering(Less, LexPairOrdering(Less, Less, Nat, Nat), Nat, Nat \X Nat),
                      Nat \X (Nat \X Nat))
  BY <1>1, <1>2, WFLexPairOrdering
<1> QED BY <1>1, <1>3, WFLexPairOrdering DEF Shorter, Span

LEMMA ShorterIf ==
  ASSUME NEW x \in Span, NEW y \in Span,
         \/ x[1] < y[1]
         \/ x[1] = y[1] /\ \/ x[2][1] < y[2][1]
                           \/ x[2][1] = y[2][1] /\ \/ x[2][2][1] < y[2][2][1]
                                                   \/ x[2][2][1] = y[2][2][1] /\ x[2][2][2] < y[2][2][2]
  PROVE  <<x, y>> \in Shorter
<1> DEFINE L2 == LexPairOrdering(Less, Less, Nat, Nat)
           L3 == LexPairOrdering(Less, L2, Nat, Nat \X Nat)
           c2 == \/ x[2][2][1] < y[2][2][1]
                 \/ x[2][2][1] = y[2][2][1] /\ x[2][2][2] < y[2][2][2]
           c3 == x[2][1] < y[2][1] \/ (x[2][1] = y[2][1] /\ c2)
<1>1. \A i, j \in Nat : i < j => <<i, j>> \in Less
  BY DEF Less, OpToRel
<1>2. /\ x[1] \in Nat /\ x[2] \in Nat \X (Nat \X Nat) /\ x[2][1] \in Nat
      /\ x[2][2] \in Nat \X Nat /\ x[2][2][1] \in Nat /\ x[2][2][2] \in Nat
      /\ y[1] \in Nat /\ y[2] \in Nat \X (Nat \X Nat) /\ y[2][1] \in Nat
      /\ y[2][2] \in Nat \X Nat /\ y[2][2][1] \in Nat /\ y[2][2][2] \in Nat
  BY DEF Span
<1>3. c2 => <<x[2][2], y[2][2]>> \in L2
  BY <1>1, <1>2 DEF LexPairOrdering
<1>4. c3 => <<x[2], y[2]>> \in L3
  <2> HIDE DEF L2, c2
  <2> QED BY <1>1, <1>2, <1>3 DEF LexPairOrdering
<1>5. x[1] < y[1] \/ (x[1] = y[1] /\ c3)
  OBVIOUS
<1> HIDE DEF L3, c3
<1>6. <<x, y>> \in LexPairOrdering(Less, L3, Nat, Nat \X (Nat \X Nat))
  BY <1>1, <1>2, <1>4, <1>5 DEF LexPairOrdering, Span
<1> QED BY <1>6 DEF Shorter, L3, L2

LEMMA SmallestNat ==
  ASSUME NEW T \in SUBSET Nat, T # {}
  PROVE  \E m \in T : \A j \in T : m <= j
<1>1. PICK m \in T : \A j \in T : <<j, m>> \notin OpToRel(<, Nat)
  BY NatLessThanWellFounded, WFMin
<1>2. \A j \in T : ~(j < m)
  BY <1>1 DEF OpToRel
<1> QED BY <1>2

\* A sequence of durations has a longest one, and a first of these.
LEMMA LongestIn ==
  ASSUME NEW s \in Seq(DurMin..DurMax), s # <<>>
  PROVE  FirstLongest(s) \in 1..Len(s)
<1>1. Len(s) \in Nat \ {0} /\ DOMAIN s = 1..Len(s) /\ DurMax \in Nat /\ DurMin \in Nat
  BY RangeAssumption
<1>2. \A i \in 1..Len(s) : s[i] \in DurMin..DurMax
  BY ElementOfSeq
<1> DEFINE T == {DurMax - s[i] : i \in 1..Len(s)}
<1>3. T \in SUBSET Nat /\ T # {}
  <2>1. 1 \in 1..Len(s)
    BY <1>1
  <2> QED BY <1>1, <1>2, <2>1
<1>4. \E m \in T : \A j \in T : m <= j
  <2> HIDE DEF T
  <2> QED BY <1>3, SmallestNat
<1>5. PICK i0 \in 1..Len(s) : \A j \in 1..Len(s) : DurMax - s[i0] <= DurMax - s[j]
  BY <1>4
<1>6. \A j \in 1..Len(s) : s[j] <= s[i0]
  BY <1>1, <1>2, <1>5
<1> DEFINE F == {i \in 1..Len(s) : s[i] = s[i0]}
<1>7. F \in SUBSET Nat /\ F # {}
  OBVIOUS
<1>8. \E m \in F : \A j \in F : m <= j
  <2> HIDE DEF F
  <2> QED BY <1>7, SmallestNat
<1>9. PICK i1 \in F : \A j \in F : i1 <= j
  BY <1>8
<1>10. \A j \in 1..Len(s) : j < i1 => s[j] < s[i1]
  <2> TAKE j \in 1..Len(s)
  <2> HAVE j < i1
  <2>1. j \notin F
    BY <1>1, <1>9
  <2> QED BY <1>2, <1>6, <1>9, <2>1
<1>11. \E i \in DOMAIN s : /\ \A j \in DOMAIN s : s[j] <= s[i]
                           /\ \A j \in DOMAIN s : j < i => s[j] < s[i]
  BY <1>1, <1>6, <1>9, <1>10
<1> QED BY <1>1, <1>11 DEF FirstLongest

\* One second less somewhere is one second less in all.
LEMMA SumTrimmed ==
  ASSUME NEW s \in Seq(Nat), NEW x \in 1..Len(s), s[x] > 0
  PROVE  SumFunction([s EXCEPT ![x] = @ - 1]) = SumFunction(s) - 1
<1> DEFINE I == 1..Len(s)
           t == [s EXCEPT ![x] = @ - 1]
<1>1. /\ DOMAIN s = I /\ DOMAIN t = I /\ IsFiniteSet(I) /\ IsFiniteSet(I \ {x})
      /\ \A i \in I : s[i] \in Nat
  <2>1. Len(s) \in Nat /\ DOMAIN s = I /\ DOMAIN t = I
    OBVIOUS
  <2>2. IsFiniteSet(I)
    BY <2>1, FS_Interval
  <2>3. \A i \in I : s[i] \in Nat
    BY ElementOfSeq
  <2> HIDE DEF I, t
  <2> QED BY <2>1, <2>2, <2>3, FS_Subset
<1>2. t[x] = s[x] - 1 /\ \A i \in I \ {x} : t[i] = s[i]
  BY <1>1
<1>3. \A i \in I : t[i] \in Nat
  BY <1>1, <1>2
<1>4. SumFunction(s) = SumFunctionOnSet(s, I) /\ SumFunction(t) = SumFunctionOnSet(t, I)
  BY <1>1 DEF SumFunction
<1> HIDE DEF I, t
<1>5. x \in I
  BY DEF I
<1>6. SumFunctionOnSet(s, I) = s[x] + SumFunctionOnSet(s, I \ {x})
  BY <1>1, <1>5, SumRemove
<1>7. SumFunctionOnSet(t, I) = t[x] + SumFunctionOnSet(t, I \ {x})
  BY <1>1, <1>3, <1>5, SumRemove
<1>8. SumFunctionOnSet(t, I \ {x}) = SumFunctionOnSet(s, I \ {x})
  BY <1>1, <1>2, SumAgree
<1>9. SumFunctionOnSet(s, I \ {x}) \in Nat /\ s[x] \in Nat
  BY <1>1, <1>5, SumNat
<1>10. SumFunction(t) = SumFunction(s) - 1
  BY <1>2, <1>4, <1>6, <1>7, <1>8, <1>9
<1> QED BY <1>10 DEF t

Lower == \/ Phase' < Phase
         \/ Phase' = Phase /\ \/ Outer' < Outer
                              \/ Outer' = Outer /\ \/ Inner' < Inner
                                                   \/ Inner' = Inner /\ Seconds' < Seconds

LEMMA RemainingIsNat ==
  ASSUME IInv
  PROVE  Phase \in Nat /\ Outer \in Nat /\ Inner \in Nat /\ Seconds \in Nat
<1>1. /\ TypeOK /\ Len(key) \in Nat /\ Len(key) <= MaxShots /\ MaxShots \in Nat /\ n \in 1..(Len(key) + 1)
      /\ k \in 1..(Len(old) + 1)
  BY Basics, MaxShotsAssumption DEF IInv, TypeOK
<1>2. pc = "enforce" => Len(old) \in Nat
  BY DEF IInv, Enforcing, Cuts
<1>3. Phase \in Nat /\ Outer \in Nat /\ Inner \in Nat
  BY <1>1, <1>2 DEF Phase, Outer, Inner
<1>4. CASE pc = "compress"
  <2>1. scaled \in Seq(DurMin..DurMax) /\ DurMin \in Nat
    BY <1>4, RangeAssumption DEF IInv, Compressing
  <2>2. /\ DOMAIN scaled = 1..Len(scaled) /\ Len(scaled) \in Nat
        /\ \A i \in DOMAIN scaled : scaled[i] \in Nat
    <3>1. \A i \in 1..Len(scaled) : scaled[i] \in DurMin..DurMax
      BY <2>1, ElementOfSeq
    <3> QED BY <2>1, <3>1
  <2>3. IsFiniteSet(DOMAIN scaled)
    BY <2>2, FS_Interval
  <2>4. SumFunction(scaled) \in Nat
    BY <2>2, <2>3, SumNat DEF SumFunction
  <2> QED BY <1>3, <1>4, <2>4 DEF Seconds
<1>5. CASE pc # "compress"
  BY <1>3, <1>5 DEF Seconds
<1> QED BY <1>4, <1>5

\* An iteration of a loop takes the shot it is at, or a second of a compression.
LEMMA TrimLower == ASSUME IInv, IInv', Trim PROVE Lower
<1>1. /\ pc = "compress" /\ scaled[Longest] > DurMin /\ scaled' = [scaled EXCEPT ![Longest] = @ - 1]
      /\ UNCHANGED <<pc, key, n, old, k>> /\ TypeOK
      /\ scaled \in Seq(DurMin..DurMax) /\ Len(scaled) = Len(cur) + 1
  BY DEF Trim, IInv, Compressing, script
<1>2. Len(cur) \in Nat /\ DurMin \in Nat
  BY <1>1, Basics
<1>3. scaled # <<>>
  BY <1>1, <1>2
<1>4. Longest \in 1..Len(scaled)
  BY <1>1, <1>3, LongestIn DEF Longest
<1>5. scaled \in Seq(Nat)
  <2>1. \A i \in 1..Len(scaled) : scaled[i] \in Nat
    <3>1. \A i \in 1..Len(scaled) : scaled[i] \in DurMin..DurMax
      BY <1>1, ElementOfSeq
    <3> QED BY <1>2, <3>1
  <2> QED BY <1>1, <2>1, SeqOver
<1>6. scaled[Longest] > 0
  <2>1. scaled[Longest] \in Nat
    BY <1>4, <1>5, ElementOfSeq
  <2> QED BY <1>1, <1>2, <2>1
<1>7. SumFunction(scaled') = SumFunction(scaled) - 1
  BY <1>1, <1>4, <1>5, <1>6, SumTrimmed
<1>8. Seconds \in Nat /\ Seconds = SumFunction(scaled) /\ Seconds' = SumFunction(scaled')
  BY <1>1, RemainingIsNat DEF Seconds
<1>9. Phase' = Phase /\ Outer' = Outer /\ Inner' = Inner
  BY <1>1 DEF Phase, Outer, Inner
<1> QED BY <1>7, <1>8, <1>9 DEF Lower

LEMMA NextLower == ASSUME IInv, IInv', Next, vars' # vars PROVE Lower
<1>1. /\ TypeOK /\ Len(key) \in Nat /\ n \in Nat /\ n >= 1 /\ Shots = 1..Len(key) /\ MaxShots \in Nat
      /\ k \in Nat
  <2>1. TypeOK
    BY DEF IInv
  <2>2. k \in Nat
    BY <2>1 DEF TypeOK
  <2> QED BY <2>1, <2>2, Basics, MaxShotsAssumption
<1>2. ASSUME NEW scene, NEW d, ReadShot(scene, d) PROVE Lower
  <2>1. pc = "read" /\ pc' = "read" /\ Len(key) < MaxShots /\ Len(key') = Len(key) + 1
    BY <1>1, <1>2 DEF ReadShot, TypeOK
  <2>2. Phase' = Phase /\ Outer' < Outer
    BY <1>1, <2>1 DEF Phase, Outer
  <2> QED BY <2>2 DEF Lower
<1>3. CASE StartAssign \/ FinishAssign \/ EnforceEnd
  BY <1>3 DEF StartAssign, FinishAssign, EnforceEnd, ToEnforce, Phase, Lower
<1>4. CASE SelfCheck
  BY <1>4 DEF SelfCheck, Phase, Lower
<1>5. CASE Join \/ Merge \/ Split
  <2>1. /\ pc \in {"assign", "compress"} /\ pc' = "assign" /\ n' = n + 1 /\ key' = key
    BY <1>5 DEF Join, Merge, Split, Refused, Meeting, script
  <2>2. Phase' = Phase /\ Outer' = Outer - 1 /\ Outer \in Nat
    BY <1>1, <2>1, RemainingIsNat DEF Phase, Outer
  <2> QED BY <2>2 DEF Lower
<1>6. CASE Compress
  <2>1. pc = "assign" /\ pc' = "compress" /\ n' = n /\ key' = key
    BY <1>6 DEF Compress, Meeting, script
  <2>2. Phase' = Phase /\ Outer' = Outer /\ Inner' < Inner
    BY <2>1 DEF Phase, Outer, Inner
  <2> QED BY <2>2 DEF Lower
<1>7. CASE Trim
  BY <1>7, TrimLower
<1>8. CASE EnforceShot
  <2>1. pc = "enforce" /\ pc' = "enforce" /\ n' = n + 1 /\ key' = key /\ old' = old /\ k' = k
    BY <1>8 DEF EnforceShot
  <2>2. Phase' = Phase /\ Outer' = Outer /\ Inner' = Inner - 1 /\ Inner \in Nat
    BY <1>1, <2>1, RemainingIsNat DEF Phase, Outer, Inner
  <2> QED BY <2>2 DEF Lower
<1>9. CASE EnforceNext
  <2>1. pc = "enforce" /\ pc' = "enforce" /\ old' = old /\ k' = k + 1
    BY <1>9 DEF EnforceNext
  <2>2. Len(old) \in Nat
    BY <2>1 DEF IInv, Enforcing, Cuts
  <2>3. Phase' = Phase /\ Outer' < Outer
    BY <1>1, <2>1, <2>2 DEF Phase, Outer
  <2> QED BY <2>3 DEF Lower
<1>10. CASE Decided
  BY <1>10 DEF Decided
<1> QED BY <1>2, <1>3, <1>4, <1>5, <1>6, <1>7, <1>8, <1>9, <1>10 DEF Next

Measured == Phase \in Nat /\ Outer \in Nat /\ Inner \in Nat /\ Seconds \in Nat
Shrinks  == << Remaining', Remaining >> \in Shorter

\* Every step of the parsing brings its end nearer, whatever the script, the
\* durations and the limits: no loop, the trimming of a compression among them,
\* can go round for ever (_compress_durations' while).  It is the safety part of
\* EveryScriptDecided; ShorterWellFounded says that such steps are finitely many.
THEOREM ParsingShrinks == Spec => [][Shrinks]_vars
<1>1. ASSUME IInv, IInv', Measured, Measured', Next, vars' # vars PROVE Shrinks
  <2>1. Lower
    BY <1>1, NextLower
  <2>2. /\ Phase \in Nat /\ Outer \in Nat /\ Inner \in Nat /\ Seconds \in Nat
        /\ Phase' \in Nat /\ Outer' \in Nat /\ Inner' \in Nat /\ Seconds' \in Nat
    BY <1>1 DEF Measured
  <2>3. /\ Remaining \in Span /\ Remaining[1] = Phase /\ Remaining[2][1] = Outer
        /\ Remaining[2][2][1] = Inner /\ Remaining[2][2][2] = Seconds
    BY <2>2 DEF Remaining, Span
  <2>4. /\ Remaining' \in Span /\ Remaining'[1] = Phase' /\ Remaining'[2][1] = Outer'
        /\ Remaining'[2][2][1] = Inner' /\ Remaining'[2][2][2] = Seconds'
    BY <2>2 DEF Remaining, Span
  <2> QED BY <2>1, <2>3, <2>4, ShorterIf DEF Lower, Shrinks
<1>2. IInv /\ IInv' /\ Measured /\ Measured' /\ [Next]_vars => [Shrinks]_vars
  BY <1>1
<1>3. IInv => Measured
  BY RemainingIsNat DEF Measured
<1> QED BY <1>2, <1>3, Invariance, PTL DEF Spec

=============================================================================
