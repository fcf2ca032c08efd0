--------------------------- MODULE PipelineProofs ---------------------------
(***************************************************************************)
(* The pipeline, for any number of commands, any capacity and any amount   *)
(* of data: what the last Process has collected is a beginning of what the *)
(* first child produces, whatever the children in between do, and the      *)
(* outputs are in the order of the commands.                               *)
(*                                                                         *)
(* The inductive invariant follows the units along the chain: a child that *)
(* has not ended has taken all units up to some number from its input, and *)
(* its input pipe holds those from there to the last one written into it.  *)
(***************************************************************************)
EXTENDS Pipeline, SequenceTheorems, WellFoundedInduction, TLAPS

\* The units after a, up to b.
From(a, b) == [k \in 1..(b - a) |-> a + k]

\* What child i has taken from its input.
Seen(i) == IF held[i] = 0 THEN count[i] ELSE held[i]

\* The children before `next` are spawned, and all of them in a Job; a child that has not
\* ended has left no message, one that has ended has left one at most.
Spawned ==
  /\ job = "spawning" => \A i \in 1..(next - 1) : child[i] # "none"
  /\ job \in {"running", "done"} => \A i \in Stages : child[i] # "none"
  /\ \A i \in Stages :
       /\ child[i] = "none" => count[i] = 0 /\ held[i] = 0
       /\ child[i] \in {"none", "running"} => err[i] = 0 /\ bufs[i].err = 0
       /\ bufs[i].err + err[i] <= 1

\* The units travel down the chain in order.
Chain ==
  /\ held[1] = 0
  /\ \A i \in Stages : held[i] \in {0, count[i] + 1}
  /\ \A i \in 1..(N - 1) : child[i + 1] \in {"none", "running"} =>
       Seen(i + 1) <= count[i] /\ pipe[i] = From(Seen(i + 1), count[i])

\* What a Process resolved to is how its child ended, and the outputs are the first of these.
Resolutions ==
  /\ \A i \in Stages : results[i] # Pending =>
       results[i].stage = i /\ child[i] \in {"ok", "failed"} /\ results[i].ok = (child[i] = "ok")
  /\ \A i \in 1..Len(outputs) : outputs[i] = results[i]

IInv == TypeOK /\ Spawned /\ Chain /\ OutputIsPrefix /\ Resolutions

-----------------------------------------------------------------------------
(* Numbers and sequences of them.                                          *)

\* A nonempty set of numbers has a least element.
LEMMA Least ==
  ASSUME NEW S \in SUBSET Nat, S # {}
  PROVE  \E m \in S : \A k \in S : m <= k
<1> DEFINE R == OpToRel(<, Nat)
<1>1. IsWellFoundedOn(R, Nat)
  BY NatLessThanWellFounded
<1>2. \A x, y \in Nat : x < y => <<x, y>> \in R
  BY DEF OpToRel
<1> HIDE DEF R
<1>3. PICK m \in S : \A k \in S : <<k, m>> \notin R
  BY <1>1, WFMin, Zenon
<1>4. \A k \in S : ~(k < m)
  BY <1>2, <1>3
<1> QED BY <1>3, <1>4

\* And a greatest one, if there is a bound.
LEMMA Greatest ==
  ASSUME NEW n \in Nat, NEW S \in SUBSET (0..n), S # {}
  PROVE  \E m \in S : \A k \in S : k <= m
<1> DEFINE D == {n - k : k \in S}
<1>1. D \in SUBSET Nat /\ D # {}
  <2>1. \A k \in S : n - k \in Nat
    OBVIOUS
  <2>2. \E k \in S : TRUE
    OBVIOUS
  <2> QED BY <2>1, <2>2
<1>2. PICK d \in D : \A k \in D : d <= k
  <2> HIDE DEF D
  <2> QED BY <1>1, Least
<1>3. PICK m \in S : d = n - m
  BY <1>2
<1>4. \A k \in S : d <= n - k
  BY <1>2
<1> QED BY <1>3, <1>4

\* The library's facts on concatenation, at the sequences of this module.
LEMMA ConcatNat ==
  \A s, t \in Seq(Nat) :
    /\ s \o t \in Seq(Nat) /\ Len(s \o t) = Len(s) + Len(t)
    /\ \A i \in 1..(Len(s) + Len(t)) :
         (s \o t)[i] = IF i <= Len(s) THEN s[i] ELSE t[i - Len(s)]
BY ConcatProperties

LEMMA ConcatNatAssociative == \A s, t, u \in Seq(Nat) : (s \o t) \o u = s \o (t \o u)
BY ConcatAssociative, SMTT(30)

\* The units after a up to b, one by one.
LEMMA FromIs ==
  ASSUME NEW a \in Nat, NEW b \in Nat, a <= b
  PROVE  /\ From(a, b) \in Seq(Nat) /\ Len(From(a, b)) = b - a
         /\ \A k \in 1..(b - a) : From(a, b)[k] = a + k
BY DEF From

\* One more unit is written behind them.
LEMMA FromAppend ==
  ASSUME NEW a \in Nat, NEW b \in Nat, a <= b
  PROVE  Append(From(a, b), b + 1) = From(a, b + 1)
<1> DEFINE s == From(a, b)
           t == Append(s, b + 1)
           u == From(a, b + 1)
<1>1. s \in Seq(Nat) /\ Len(s) = b - a /\ \A k \in 1..(b - a) : s[k] = a + k
  BY FromIs
<1>2. u \in Seq(Nat) /\ Len(u) = b + 1 - a /\ \A k \in 1..(b + 1 - a) : u[k] = a + k
  BY FromIs
<1> HIDE DEF s, u
<1>3. t \in Seq(Nat) /\ Len(t) = Len(s) + 1 /\ t[Len(s) + 1] = b + 1
      /\ \A k \in 1..Len(s) : t[k] = s[k]
  BY <1>1
<1> HIDE DEF t
<1>4. ASSUME NEW k \in 1..Len(t) PROVE t[k] = u[k]
  <2>1. u[k] = a + k
    BY <1>1, <1>2, <1>3
  <2>2. CASE k \in 1..Len(s)
    BY <1>1, <1>3, <2>1, <2>2
  <2>3. CASE k = Len(s) + 1
    BY <1>1, <1>3, <2>1, <2>3
  <2> QED BY <1>1, <1>3, <2>2, <2>3
<1>5. t = u
  BY <1>1, <1>2, <1>3, <1>4, SeqEqual, SMTT(30)
<1> QED BY <1>5 DEF s, t, u

\* The first of them is taken.
LEMMA FromTail ==
  ASSUME NEW a \in Nat, NEW b \in Nat, a <= b, From(a, b) # <<>>
  PROVE  /\ a + 1 <= b
         /\ Head(From(a, b)) = a + 1
         /\ Tail(From(a, b)) = From(a + 1, b)
<1> DEFINE s == From(a, b)
           u == From(a + 1, b)
<1>1. s \in Seq(Nat) /\ Len(s) = b - a /\ \A k \in 1..(b - a) : s[k] = a + k
  BY FromIs
<1>2. Len(s) # 0
  BY <1>1, EmptySeq
<1>3. a + 1 <= b
  BY <1>1, <1>2
<1>4. u \in Seq(Nat) /\ Len(u) = b - (a + 1) /\ \A k \in 1..(b - (a + 1)) : u[k] = a + 1 + k
  <2>1. a + 1 \in Nat
    OBVIOUS
  <2> QED BY <1>3, <2>1, FromIs
<1>5. Head(s) = a + 1
  BY <1>1, <1>3
<1> HIDE DEF s, u
<1>6. Tail(s) \in Seq(Nat) /\ Len(Tail(s)) = Len(s) - 1 /\ \A k \in 1..Len(Tail(s)) : Tail(s)[k] = s[k + 1]
  BY <1>1, <1>2, HeadTailProperties, EmptySeq
<1>7. \A k \in 1..Len(Tail(s)) : Tail(s)[k] = u[k]
  BY <1>1, <1>3, <1>4, <1>6
<1>8. Tail(s) = u
  <2>1. Len(Tail(s)) = Len(u)
    BY <1>1, <1>4, <1>6
  <2> QED BY <1>4, <1>6, <1>7, <2>1, SeqEqual
<1> QED BY <1>3, <1>5, <1>8 DEF s, u

\* A unit more at the end of what is collected and what waits.
LEMMA UptoAppend ==
  ASSUME NEW s \in Seq(Nat), NEW t \in Seq(Nat), NEW n \in Nat, s \o t = Upto(n)
  PROVE  s \o Append(t, n + 1) = Upto(n + 1)
<1> DEFINE a == <<n + 1>>
<1>1. a \in Seq(Nat) /\ Append(t, n + 1) = t \o a
  BY AppendIsConcat, SMTT(30)
<1>2. Upto(n) = From(0, n) /\ Upto(n + 1) = From(0, n + 1)
  BY DEF Upto, From
<1>3. From(0, n) \in Seq(Nat) /\ Append(From(0, n), n + 1) = From(0, n + 1)
  <2>1. 0 \in Nat /\ 0 <= n
    OBVIOUS
  <2> QED BY <2>1, FromIs, FromAppend
<1>4. Append(From(0, n), n + 1) = From(0, n) \o a
  BY <1>3, AppendIsConcat
<1> HIDE DEF a
<1>5. (s \o t) \o a = s \o (t \o a)
  BY <1>1, ConcatNatAssociative, Zenon
<1> QED BY <1>1, <1>2, <1>3, <1>4, <1>5

\* The two parts of a sequence that is cut.
LEMMA SplitTypes ==
  ASSUME NEW S, NEW t \in Seq(S), NEW k \in 0..Len(t)
  PROVE  /\ SubSeq(t, 1, k) \in Seq(S) /\ SubSeq(t, k + 1, Len(t)) \in Seq(S)
         /\ Len(SubSeq(t, k + 1, Len(t))) \in Nat /\ Len(t) \in Nat
         /\ Len(SubSeq(t, k + 1, Len(t))) <= Len(t)
<1>1. Len(t) \in Nat /\ \A i \in 1..Len(t) : t[i] \in S
  BY LenProperties, ElementOfSeq
<1>2. SubSeq(t, 1, k) \in Seq(S)
  BY <1>1, SubSeqProperties
<1>3. /\ SubSeq(t, k + 1, Len(t)) \in Seq(S)
      /\ Len(SubSeq(t, k + 1, Len(t))) = IF k + 1 <= Len(t) THEN Len(t) - (k + 1) + 1 ELSE 0
  <2>1. k + 1 \in Int /\ Len(t) \in Int /\ \A i \in (k + 1)..Len(t) : t[i] \in S
    BY <1>1
  <2> QED BY <2>1, SubSeqProperties
<1> QED BY <1>1, <1>2, <1>3

\* Moving the first k elements from one sequence to the end of another.
LEMMA MoveFront ==
  ASSUME NEW s \in Seq(Nat), NEW t \in Seq(Nat), NEW k \in 0..Len(t)
  PROVE  (s \o SubSeq(t, 1, k)) \o SubSeq(t, k + 1, Len(t)) = s \o t
<1> DEFINE u == SubSeq(t, 1, k)
           v == SubSeq(t, k + 1, Len(t))
<1>1. u \in Seq(Nat) /\ v \in Seq(Nat)
  OBVIOUS
<1>2. u \o v = t
  <2>1. /\ 1 \in 1..(Len(t) + 1) /\ k \in (1 - 1)..Len(t) /\ Len(t) \in k..Len(t)
    BY LenProperties
  <2>2. u \o v = SubSeq(t, 1, Len(t))
    BY <2>1, ConcatAdjacentSubSeq
  <2> QED BY <2>2, SubSeqFull
<1> HIDE DEF u, v
<1>3. (s \o u) \o v = s \o (u \o v)
  BY <1>1, ConcatNatAssociative, Zenon
<1> QED BY <1>2, <1>3, Zenon DEF u, v

-----------------------------------------------------------------------------
(* The invariant.                                                          *)

\* The parameters are numbers, and a Job has a last Process.
LEMMA Bounds ==
  /\ N \in Nat \ {0} /\ Units \in Nat \ {0} /\ Cap \in Nat \ {0} /\ Chunk \in Nat \ {0}
  /\ N \in Stages /\ 1 \in Stages
BY PipelineAssumption DEF Stages

LEMMA UnitsAreNumbers == \A s \in Seq(1..Units) : s \in Seq(Nat)
<1>1. 1..Units \subseteq Nat
  OBVIOUS
<1> QED BY <1>1, SeqMonotonic

\* What the children and their pipes are like.
LEMMA ChildTypes ==
  ASSUME IInv
  PROVE  /\ child \in [Stages -> {"none", "running", "ok", "failed"}]
         /\ held \in [Stages -> 0..Units] /\ count \in [Stages -> 0..Units]
         /\ pipe \in [Stages -> Seq(1..Units)] /\ err \in [Stages -> 0..1]
         /\ \A i \in Stages : Len(pipe[i]) \in Nat /\ Len(pipe[i]) <= Cap
<1>1. \A i \in Stages : Len(pipe[i]) \in Nat
  BY LenProperties DEF IInv, TypeOK
<1> QED BY <1>1 DEF IInv, TypeOK

\* No child has run and no pipe holds anything.
LEMMA InitIInv == Init => IInv
<1> SUFFICES ASSUME Init PROVE IInv
  OBVIOUS
<1>1. TypeOK
  BY Bounds, EmptySeq DEF Init, TypeOK
<1>2. Spawned /\ Resolutions
  BY Bounds, EmptySeq DEF Init, Spawned, Resolutions
<1>3. Chain
  <2>1. From(0, 0) = <<>>
    BY DEF From
  <2> QED BY <2>1, Bounds DEF Init, Chain, Seen, Stages
<1>4. OutputIsPrefix
  <2>1. Upto(0) = <<>> /\ <<>> \o <<>> = <<>>
    BY DEF Upto
  <2> QED BY <2>1, Bounds DEF Init, OutputIsPrefix
<1> QED BY <1>1, <1>2, <1>3, <1>4 DEF IInv

\* A child starts; nothing has come out of it yet.
LEMMA SpawnKeeps ==
  ASSUME IInv, Spawn
  PROVE  IInv'
<1>1. TypeOK'
  BY DEF IInv, TypeOK, Spawn, parentVars, pollVars
<1>2. Spawned'
  <2>1. /\ job' = "spawning" /\ next' = next
        /\ child[next] = "none" /\ child' = [child EXCEPT ![next] = "running"]
        /\ UNCHANGED <<held, count, err, bufs>>
    BY DEF IInv, TypeOK, Spawn, parentVars, pollVars
  <2>2. \A i \in Stages : child'[i] = child[i] \/ (child[i] = "none" /\ child'[i] = "running")
    BY <2>1, ChildTypes
  <2>3. \A i \in 1..(next - 1) : i \in Stages
    BY Bounds DEF IInv, TypeOK, Stages
  <2> QED BY <2>1, <2>2, <2>3 DEF IInv, Spawned, Spawn
<1>3. Chain'
  <2>1. \A i \in Stages : child'[i] \in {"none", "running"} => child[i] \in {"none", "running"}
    BY ChildTypes DEF Spawn
  <2>2. \A i \in 1..(N - 1) : i + 1 \in Stages
    BY Bounds DEF Stages
  <2> QED BY <2>1, <2>2 DEF IInv, Chain, Seen, Spawn
<1>4. OutputIsPrefix'
  BY DEF IInv, OutputIsPrefix, Spawn, pollVars
<1>5. Resolutions'
  BY DEF IInv, TypeOK, Resolutions, Spawn, pollVars
<1> QED BY <1>1, <1>2, <1>3, <1>4, <1>5 DEF IInv

\* A loop turn ends, or spawn does.
LEMMA ParentKeeps ==
  ASSUME IInv, DropCommand \/ SpawnFails
  PROVE  IInv'
<1>1. /\ UNCHANGED <<childVars, pipe, err, pollVars>>
      /\ parentR' \subseteq parentR /\ parentW' \subseteq parentW
  BY DEF DropCommand, NextTurn, SpawnFails
<1>2. /\ next' \in Stages /\ job' \in {"spawning", "failed", "running"}
      /\ job' = "spawning" => \A i \in 1..(next' - 1) : child[i] # "none"
      /\ job' = "running" => \A i \in Stages : child[i] # "none"
  <2>1. CASE DropCommand
    <3>1. next \in Stages /\ job = "spawning" /\ child[next] # "none"
      BY <2>1 DEF IInv, TypeOK, DropCommand, NextTurn
    <3>2. \A i \in 1..next : child[i] # "none"
      BY <3>1, Bounds DEF IInv, Spawned, Stages
    <3>3. CASE next = N
      BY <2>1, <3>1, <3>2, <3>3 DEF DropCommand, NextTurn, Stages
    <3>4. CASE next # N
      <4>1. next + 1 \in Stages /\ (next + 1) - 1 = next
        BY <3>1, <3>4, Bounds DEF Stages
      <4> QED BY <2>1, <3>1, <3>2, <3>4, <4>1 DEF DropCommand, NextTurn
    <3> QED BY <3>3, <3>4
  <2>2. CASE SpawnFails
    BY <2>2 DEF IInv, TypeOK, SpawnFails
  <2> QED BY <2>1, <2>2
<1>3. TypeOK'
  BY <1>1, <1>2 DEF IInv, TypeOK, childVars, pollVars
<1>4. Spawned'
  BY <1>1, <1>2 DEF IInv, Spawned, childVars, pollVars
<1>5. Chain' /\ OutputIsPrefix' /\ Resolutions'
  BY <1>1 DEF IInv, Chain, Seen, OutputIsPrefix, Resolutions, childVars, pollVars
<1> QED BY <1>3, <1>4, <1>5 DEF IInv

\* A child writes the unit after the last that it has written.
LEMMA WriteKeeps ==
  ASSUME IInv, NEW i \in Stages, ChildWrite(i)
  PROVE  IInv'
<1> DEFINE unit == count[i] + 1
<1>1. /\ child[i] = "running" /\ Loaded(i) /\ Len(pipe[i]) < Cap
      /\ pipe' = [pipe EXCEPT ![i] = Append(@, IF i = 1 THEN count[1] + 1 ELSE held[i])]
      /\ count' = [count EXCEPT ![i] = unit]
      /\ held' = [held EXCEPT ![i] = 0]
      /\ UNCHANGED <<child, err, parentVars, pollVars>>
  BY DEF ChildWrite
<1>2. unit \in 1..Units /\ (IF i = 1 THEN count[1] + 1 ELSE held[i]) = unit
  BY <1>1, ChildTypes, Bounds, SMTT(30) DEF IInv, Chain, Loaded
<1>3. pipe' = [pipe EXCEPT ![i] = Append(@, unit)]
  BY <1>1, <1>2
<1>4. TypeOK'
  <2>1. pipe[i] \in Seq(1..Units) /\ Append(pipe[i], unit) \in Seq(1..Units)
        /\ Len(Append(pipe[i], unit)) = Len(pipe[i]) + 1
    BY <1>2 DEF IInv, TypeOK
  <2>2. pipe' \in [Stages -> Seq(1..Units)] /\ \A j \in Stages : Len(pipe'[j]) <= Cap
    <3>1. pipe \in [Stages -> Seq(1..Units)]
      BY ChildTypes
    <3>2. pipe' \in [Stages -> Seq(1..Units)]
      BY <1>3, <2>1, <3>1
    <3>3. pipe'[i] = Append(pipe[i], unit) /\ \A j \in Stages \ {i} : pipe'[j] = pipe[j]
      BY <1>3, <3>1
    <3>4. Len(pipe[i]) + 1 <= Cap /\ \A j \in Stages : Len(pipe[j]) <= Cap
      BY <1>1, ChildTypes, Bounds, SMTT(30)
    <3> QED BY <2>1, <3>2, <3>3, <3>4
  <2>3. count' \in [Stages -> 0..Units] /\ held' \in [Stages -> 0..Units]
    BY <1>1, <1>2, ChildTypes, Bounds, SMTT(30)
  <2> QED BY <1>1, <2>2, <2>3 DEF IInv, TypeOK, parentVars, pollVars
<1>5. Spawned'
  BY <1>1, ChildTypes DEF IInv, Spawned, parentVars, pollVars
<1>6. Chain'
  <2>1. i # 1 => Seen(i)' = Seen(i)
    BY <1>1, <1>2, ChildTypes DEF Seen, Loaded
  <2>2. \A j \in Stages \ {i} : Seen(j)' = Seen(j) /\ count'[j] = count[j] /\ held'[j] = held[j]
    BY <1>1, ChildTypes DEF Seen
  <2>3. held'[1] = 0 /\ \A j \in Stages : held'[j] \in {0, count'[j] + 1}
    BY <1>1, <2>2, ChildTypes, Bounds DEF IInv, Chain
  <2>4. ASSUME NEW j \in 1..(N - 1), child'[j + 1] \in {"none", "running"}
        PROVE  Seen(j + 1)' <= count'[j] /\ pipe'[j] = From(Seen(j + 1)', count'[j])
    <3>1. /\ j \in Stages /\ j + 1 \in Stages /\ Seen(j + 1)' = Seen(j + 1)
          /\ Seen(j + 1) \in Nat /\ count[j] \in Nat
          /\ Seen(j + 1) <= count[j] /\ pipe[j] = From(Seen(j + 1), count[j])
      <4>1. j \in Stages /\ j + 1 \in Stages \ {1} /\ child[j + 1] \in {"none", "running"}
        BY <1>1, <2>4, Bounds DEF Stages
      <4>2. Seen(j + 1) \in Nat /\ count[j] \in Nat
        BY <4>1, ChildTypes DEF Seen
      <4> QED BY <2>1, <2>2, <4>1, <4>2 DEF IInv, Chain
    <3>2. CASE j = i
      <4>1. count'[j] = count[j] + 1 /\ pipe'[j] = Append(pipe[j], count[j] + 1)
        <5>1. /\ count' = [count EXCEPT ![i] = count[i] + 1] /\ count \in [Stages -> 0..Units]
              /\ pipe' = [pipe EXCEPT ![i] = Append(@, count[i] + 1)]
              /\ pipe \in [Stages -> Seq(1..Units)]
          BY <1>1, <1>3, ChildTypes
        <5> QED BY <3>2, <5>1
      <4>2. Seen(j + 1) \in Nat /\ count[j] \in Nat /\ Seen(j + 1) <= count[j]
        BY <3>1
      <4>3. From(Seen(j + 1), count[j] + 1) = Append(From(Seen(j + 1), count[j]), count[j] + 1)
        BY <4>2, FromAppend
      <4>4. pipe[j] = From(Seen(j + 1), count[j]) /\ Seen(j + 1)' = Seen(j + 1)
        BY <3>1
      <4> QED BY <4>1, <4>2, <4>3, <4>4
    <3>3. CASE j # i
      BY <1>1, <3>1, <3>3, ChildTypes
    <3> QED BY <3>2, <3>3
  <2> QED BY <2>3, <2>4 DEF Chain
<1>7. OutputIsPrefix'
  <2>1. bufs[N].out \in Seq(Nat) /\ pipe[N] \in Seq(Nat) /\ count[N] \in Nat
    BY UnitsAreNumbers, ChildTypes, Bounds DEF IInv, TypeOK
  <2>2. CASE i = N
    <3>1. bufs'[N].out = bufs[N].out /\ pipe'[N] = Append(pipe[N], count[N] + 1)
          /\ count'[N] = count[N] + 1
      BY <1>1, <1>3, <2>2, ChildTypes DEF pollVars
    <3>2. bufs[N].out \o pipe[N] = Upto(count[N])
      BY DEF IInv, OutputIsPrefix
    <3>3. bufs[N].out \o Append(pipe[N], count[N] + 1) = Upto(count[N] + 1)
      BY <2>1, <3>2, UptoAppend, Zenon
    <3> QED BY <3>1, <3>3, Zenon DEF OutputIsPrefix
  <2>3. CASE i # N
    BY <1>1, <1>3, <2>3, ChildTypes, Bounds DEF IInv, OutputIsPrefix, pollVars
  <2> QED BY <2>2, <2>3
<1>8. Resolutions'
  BY <1>1 DEF IInv, Resolutions, pollVars
<1> QED BY <1>4, <1>5, <1>6, <1>7, <1>8 DEF IInv

\* A child takes the unit after the last that it has taken.
LEMMA ReadKeeps ==
  ASSUME IInv, NEW i \in Stages, ChildRead(i)
  PROVE  IInv'
<1> DEFINE h == i - 1
<1>1. /\ h \in 1..(N - 1) /\ h \in Stages /\ i = h + 1 /\ child[i] = "running" /\ held[i] = 0
      /\ pipe[h] # <<>> /\ h # N
      /\ held' = [held EXCEPT ![i] = Head(pipe[h])]
      /\ pipe' = [pipe EXCEPT ![h] = Tail(@)]
      /\ UNCHANGED <<child, count, err, parentVars, pollVars>>
  BY Bounds DEF ChildRead, Stages
<1> HIDE DEF h
<1>2. /\ Seen(i) = count[i] /\ count[i] \in Nat /\ count[h] \in 0..Units /\ Seen(i) <= count[h]
      /\ pipe[h] = From(count[i], count[h])
  BY <1>1 DEF IInv, TypeOK, Chain, Seen
<1>3. /\ count[i] + 1 <= count[h] /\ Head(pipe[h]) = count[i] + 1
      /\ Tail(pipe[h]) = From(count[i] + 1, count[h])
  BY <1>1, <1>2, FromTail, SMTT(30)
<1>4. TypeOK'
  <2>1. held' \in [Stages -> 0..Units]
    <3>1. Head(pipe[h]) \in 0..Units
      BY <1>2, <1>3, Bounds
    <3> QED BY <1>1, <3>1, ChildTypes
  <2>2. Tail(pipe[h]) \in Seq(1..Units) /\ Len(Tail(pipe[h])) = Len(pipe[h]) - 1
    BY <1>1, HeadTailProperties DEF IInv, TypeOK
  <2>3. pipe' \in [Stages -> Seq(1..Units)] /\ \A j \in Stages : Len(pipe'[j]) <= Cap
    <3>1. pipe' \in [Stages -> Seq(1..Units)]
      BY <1>1, <2>2, ChildTypes
    <3>2. Len(pipe'[h]) <= Cap
      BY <1>1, <2>2, ChildTypes, Bounds
    <3> QED BY <1>1, <3>1, <3>2, ChildTypes
  <2> QED BY <1>1, <2>1, <2>3 DEF IInv, TypeOK, parentVars, pollVars
<1>5. Spawned'
  BY <1>1, ChildTypes DEF IInv, Spawned, parentVars, pollVars
<1>6. Chain'
  <2>1. Seen(i)' = count[i] + 1
    BY <1>1, <1>2, <1>3, ChildTypes DEF Seen
  <2>2. \A j \in Stages \ {i} : Seen(j)' = Seen(j) /\ held'[j] = held[j]
    BY <1>1, ChildTypes DEF Seen
  <2>3. held'[1] = 0 /\ \A j \in Stages : held'[j] \in {0, count'[j] + 1}
    <3>1. held'[i] = count'[i] + 1 /\ i # 1
      BY <1>1, <1>3, ChildTypes, Bounds
    <3> QED BY <1>1, <2>2, <3>1, ChildTypes, Bounds DEF IInv, Chain
  <2>4. ASSUME NEW j \in 1..(N - 1), child'[j + 1] \in {"none", "running"}
        PROVE  Seen(j + 1)' <= count'[j] /\ pipe'[j] = From(Seen(j + 1)', count'[j])
    <3>1. CASE j = h
      BY <1>1, <1>3, <2>1, <3>1, ChildTypes
    <3>2. CASE j # h
      <4>1. j \in Stages /\ j + 1 \in Stages \ {i}
        BY <1>1, <3>2, Bounds DEF Stages
      <4> QED BY <1>1, <2>2, <2>4, <3>2, <4>1, ChildTypes DEF IInv, Chain
    <3> QED BY <3>1, <3>2
  <2> QED BY <2>3, <2>4 DEF Chain
<1>7. OutputIsPrefix'
  BY <1>1, ChildTypes, Bounds DEF IInv, OutputIsPrefix, pollVars
<1>8. Resolutions'
  BY <1>1 DEF IInv, Resolutions, pollVars
<1> QED BY <1>4, <1>5, <1>6, <1>7, <1>8 DEF IInv

\* A child that ends takes no more; what it had not written yet is lost.
LEMMA ExitKeeps ==
  ASSUME IInv, NEW i \in Stages, child[i] = "running", NEW how \in {"ok", "failed"}, Exit(i, how)
  PROVE  IInv'
<1>1. /\ child' = [child EXCEPT ![i] = how]
      /\ held' = [held EXCEPT ![i] = 0]
      /\ err' \in {err, [err EXCEPT ![i] = 1]}
      /\ UNCHANGED <<count, pipe, parentVars, pollVars>>
  BY DEF Exit
<1>2. TypeOK'
  <2>1. /\ child' \in [Stages -> {"none", "running", "ok", "failed"}]
        /\ held' \in [Stages -> 0..Units] /\ err' \in [Stages -> 0..1]
    <3>1. 0 \in 0..Units /\ [err EXCEPT ![i] = 1] \in [Stages -> 0..1]
      BY ChildTypes, Bounds
    <3> QED BY <1>1, <3>1, ChildTypes
  <2> QED BY <1>1, <2>1 DEF IInv, TypeOK, parentVars, pollVars
<1>3. Spawned'
  BY <1>1, ChildTypes DEF IInv, Spawned, parentVars, pollVars
<1>4. Chain'
  <2>1. \A j \in Stages : child'[j] \in {"none", "running"} =>
          child[j] \in {"none", "running"} /\ Seen(j)' = Seen(j)
    BY <1>1, ChildTypes DEF Seen
  <2>2. \A j \in 1..(N - 1) : j + 1 \in Stages
    BY Bounds DEF Stages
  <2>3. held'[1] = 0 /\ \A j \in Stages : held'[j] \in {0, count'[j] + 1}
    BY <1>1, ChildTypes, Bounds DEF IInv, Chain
  <2> QED BY <1>1, <2>1, <2>2, <2>3 DEF IInv, Chain
<1>5. OutputIsPrefix'
  BY <1>1 DEF IInv, OutputIsPrefix, pollVars
<1>6. Resolutions'
  BY <1>1 DEF IInv, TypeOK, Resolutions, pollVars
<1> QED BY <1>2, <1>3, <1>4, <1>5, <1>6 DEF IInv

\* The Job looks at the child of an unresolved Process.
LEMMA PollTypes ==
  ASSUME IInv
  PROVE  /\ turn \in Stages
         /\ bufs \in [Stages -> [out : Seq(1..Units), err : 0..1]]
         /\ results \in [Stages -> Results \cup {Pending}]
         /\ outputs \in Seq(Results) /\ Len(outputs) \in Nat /\ Len(outputs) <= N
BY LenProperties DEF IInv, TypeOK

\* What a poll takes from the last pipe goes to the end of what was collected before.
LEMMA PollOutKeeps ==
  ASSUME IInv, PollOut
  PROVE  IInv'
<1>1. /\ job = "running" /\ turn \in Stages /\ step' = "err"
      /\ UNCHANGED <<childVars, err, parentVars, turn, results, outputs>>
  BY PollTypes DEF PollOut, ReadStdout, Polling
<1>2. CASE turn # N
  <2>1. UNCHANGED <<bufs, pipe>>
    BY <1>2 DEF PollOut, ReadStdout
  <2>2. TypeOK'
    BY <1>1, <2>1 DEF IInv, TypeOK, childVars, parentVars
  <2>3. Spawned' /\ Chain' /\ OutputIsPrefix' /\ Resolutions'
    BY <1>1, <2>1 DEF IInv, Spawned, Chain, Seen, OutputIsPrefix, Resolutions, childVars, parentVars
  <2> QED BY <2>2, <2>3 DEF IInv
<1>3. CASE turn = N
  <2> DEFINE p == pipe[N]
             b == bufs[N].out
             s == SubSeq(p, 1, Taken)
             r == SubSeq(p, Taken + 1, Len(p))
  <2>1. bufs' = [bufs EXCEPT ![N].out = b \o s] /\ pipe' = [pipe EXCEPT ![N] = r]
    BY <1>3, ChildTypes, PollTypes, Bounds DEF PollOut, ReadStdout
  <2>2. p \in Seq(1..Units) /\ b \in Seq(1..Units) /\ Len(p) <= Cap /\ Taken \in 0..Len(p)
    BY ChildTypes, PollTypes, Bounds, LenProperties DEF Taken
  <2>3. s \in Seq(1..Units) /\ r \in Seq(1..Units) /\ Len(r) <= Cap
    <3>1. /\ s \in Seq(1..Units) /\ r \in Seq(1..Units)
          /\ Len(r) \in Nat /\ Len(p) \in Nat /\ Len(r) <= Len(p)
      BY <2>2, SplitTypes
    <3> QED BY <2>2, <3>1, Bounds, SMTT(30)
  <2>4. b \o s \in Seq(1..Units)
    BY <2>2, <2>3, ConcatProperties
  <2>5. p \in Seq(Nat) /\ b \in Seq(Nat)
    BY <2>2, UnitsAreNumbers
  <2>6. (b \o s) \o r = b \o p
    BY <2>2, <2>5, MoveFront
  <2> HIDE DEF p, b, s, r
  <2>7. /\ bufs' \in [Stages -> [out : Seq(1..Units), err : 0..1]]
        /\ bufs'[N].out = b \o s /\ \A i \in Stages : bufs'[i].err = bufs[i].err
    BY <2>1, <2>4, PollTypes, Bounds
  <2>8. /\ pipe' \in [Stages -> Seq(1..Units)] /\ pipe'[N] = r
        /\ \A i \in Stages \ {N} : pipe'[i] = pipe[i]
        /\ \A i \in Stages : Len(pipe'[i]) <= Cap
    BY <2>1, <2>3, ChildTypes, Bounds
  <2>9. TypeOK'
    BY <1>1, <2>7, <2>8 DEF IInv, TypeOK, childVars, parentVars
  <2>10. Spawned' /\ Resolutions'
    BY <1>1, <2>7 DEF IInv, Spawned, Resolutions, childVars, parentVars
  <2>11. Chain'
    <3>1. \A i \in 1..(N - 1) : i \in Stages \ {N}
      BY Bounds DEF Stages
    <3> QED BY <1>1, <2>8, <3>1 DEF IInv, Chain, Seen, childVars
  <2>12. OutputIsPrefix'
    BY <1>1, <2>6, <2>7, <2>8 DEF IInv, OutputIsPrefix, childVars, p, b
  <2> QED BY <2>9, <2>10, <2>11, <2>12 DEF IInv
<1> QED BY <1>2, <1>3

\* A child that has ended left one message at most.
LEMMA PollErrKeeps ==
  ASSUME IInv, PollErr
  PROVE  IInv'
<1>1. /\ turn \in Stages /\ step' = "wait"
      /\ bufs' = [bufs EXCEPT ![turn].err = bufs[turn].err + err[turn]]
      /\ err' = [err EXCEPT ![turn] = 0]
      /\ UNCHANGED <<childVars, pipe, parentVars, turn, results, outputs>>
  BY PollTypes DEF PollErr
<1>2. bufs[turn].err + err[turn] \in 0..1 /\ bufs[turn].err \in 0..1 /\ err[turn] \in 0..1
  <2>1. bufs[turn].err \in 0..1 /\ err[turn] \in 0..1
    BY <1>1, ChildTypes, PollTypes
  <2>2. bufs[turn].err + err[turn] <= 1
    BY <1>1 DEF IInv, Spawned
  <2> QED BY <2>1, <2>2
<1>3. /\ bufs' \in [Stages -> [out : Seq(1..Units), err : 0..1]]
      /\ err' \in [Stages -> 0..1]
      /\ \A i \in Stages : bufs'[i].out = bufs[i].out
      /\ \A i \in Stages : bufs'[i].err + err'[i] = bufs[i].err + err[i]
      /\ \A i \in Stages : bufs[i].err = 0 /\ err[i] = 0 => bufs'[i].err = 0 /\ err'[i] = 0
  <2>1. /\ bufs' \in [Stages -> [out : Seq(1..Units), err : 0..1]]
        /\ \A i \in Stages : bufs'[i].out = bufs[i].out
        /\ bufs'[turn].err = bufs[turn].err + err[turn]
        /\ \A i \in Stages \ {turn} : bufs'[i].err = bufs[i].err
    BY <1>1, <1>2, PollTypes
  <2>2. /\ err' \in [Stages -> 0..1] /\ err'[turn] = 0
        /\ \A i \in Stages \ {turn} : err'[i] = err[i]
    BY <1>1, ChildTypes
  <2> QED BY <1>1, <1>2, <2>1, <2>2
<1>4. TypeOK'
  BY <1>1, <1>3 DEF IInv, TypeOK, childVars, parentVars
<1>5. Spawned'
  BY <1>1, <1>3 DEF IInv, Spawned, childVars, parentVars
<1>6. Chain' /\ OutputIsPrefix' /\ Resolutions'
  BY <1>1, <1>3, Bounds DEF IInv, Chain, Seen, OutputIsPrefix, Resolutions, childVars
<1> QED BY <1>4, <1>5, <1>6 DEF IInv

\* As long as a Process is unresolved there is one whose turn it is.
LEMMA AfterIsOneOf ==
  ASSUME NEW j \in Stages, NEW R \in SUBSET Stages, R # {}
  PROVE  After(j, R) \in R
<1>1. R \in SUBSET Nat
  BY Bounds DEF Stages
<1>2. CASE \E i \in R : i > j
  <2>1. PICK m \in {i \in R : i > j} : \A k \in {i \in R : i > j} : m <= k
    <3>1. {i \in R : i > j} \in SUBSET Nat /\ {i \in R : i > j} # {}
      BY <1>1, <1>2
    <3> QED BY <3>1, Least
  <2>2. \E i \in R : i > j /\ \A k \in R : k > j => i <= k
    BY <2>1
  <2> QED BY <1>2, <2>2 DEF After
<1>3. CASE ~\E i \in R : i > j
  <2>1. \E m \in R : \A k \in R : m <= k
    BY <1>1, Least
  <2> QED BY <1>3, <2>1 DEF After
<1> QED BY <1>2, <1>3

\* A Process that is not done, or whose try_wait failed, is polled again.
LEMMA PollAgainKeeps ==
  ASSUME IInv, PollAgain
  PROVE  IInv'
<1>1. turn' \in Stages /\ step' = "out"
  <2>1. turn \in Unresolved /\ turn' = After(turn, Unresolved) /\ step' = "out"
    BY DEF PollAgain, Polling
  <2>2. Unresolved \in SUBSET Stages
    BY DEF Unresolved
  <2> QED BY <2>1, <2>2, AfterIsOneOf
<1>2. UNCHANGED <<childVars, pipe, err, parentVars, bufs, results, outputs>>
  BY DEF PollAgain
<1>3. TypeOK'
  BY <1>1, <1>2 DEF IInv, TypeOK, childVars, parentVars
<1>4. Spawned' /\ Chain' /\ OutputIsPrefix' /\ Resolutions'
  BY <1>2 DEF IInv, Spawned, Chain, Seen, OutputIsPrefix, Resolutions, childVars, parentVars
<1> QED BY <1>3, <1>4 DEF IInv

\* A Process resolves to how its child has ended, and all outputs that are next are collected.
LEMMA PollReadyKeeps ==
  ASSUME IInv, PollReady
  PROVE  IInv'
<1> DEFINE ready == {n \in Len(outputs)..N : \A i \in (Len(outputs) + 1)..n : Resolved[i] # Pending}
           upto  == CHOOSE n \in ready : \A k \in ready : k <= n
           outs  == [i \in 1..upto |-> Resolved[i]]
           new   == [stage |-> turn, ok |-> child[turn] = "ok",
                     out |-> bufs[turn].out, err |-> bufs[turn].err]
<1>1. Resolve(outs)
  BY DEF PollReady
<1>2. /\ job = "running" /\ turn \in Unresolved /\ turn \in Stages /\ child[turn] # "running"
      /\ results' = Resolved /\ outputs' = outs /\ step' = "out"
      /\ parentR' = parentR \ {turn}
      /\ UNCHANGED <<childVars, pipe, err, next, parentW, bufs>>
  BY <1>1, PollTypes DEF Resolve, Polling
<1>3. IF Len(outs) = N THEN job' = "done" /\ turn' = turn
                       ELSE job' = job /\ turn' = After(turn, Unresolved \ {turn})
  BY <1>1 DEF Resolve
<1>4. child[turn] \in {"ok", "failed"}
  BY <1>2, ChildTypes DEF IInv, Spawned
<1>5. new \in Results /\ new # Pending /\ new.stage = turn /\ new.ok = (child[turn] = "ok")
  <2>1. bufs[turn].out \in Seq(1..Units) /\ bufs[turn].err \in 0..1 /\ (child[turn] = "ok") \in BOOLEAN
    BY <1>2, PollTypes
  <2>2. turn # 0
    BY <1>2, Bounds DEF Stages
  <2> QED BY <1>2, <2>1, <2>2 DEF Results, Pending
<1>6. /\ Resolved \in [Stages -> Results \cup {Pending}] /\ Resolved[turn] = new
      /\ \A i \in Stages \ {turn} : Resolved[i] = results[i]
  <2>1. Resolved = [results EXCEPT ![turn] = new]
    BY DEF Resolved
  <2> HIDE DEF new
  <2> QED BY <1>2, <1>5, <2>1, PollTypes
<1> HIDE DEF new
<1>7. upto \in ready /\ \A k \in ready : k <= upto
  <2>1. ready \in SUBSET (0..N) /\ ready # {}
    <3>1. Len(outputs) \in Len(outputs)..N /\ (Len(outputs) + 1)..Len(outputs) = {}
      BY PollTypes, Bounds
    <3>2. Len(outputs) \in ready
      BY <3>1
    <3>3. Len(outputs)..N \subseteq 0..N
      BY PollTypes, Bounds
    <3> QED BY <3>2, <3>3
  <2> HIDE DEF ready
  <2>2. \E m \in ready : \A k \in ready : k <= m
    BY <2>1, Greatest, Bounds
  <2> QED BY <2>2
<1> HIDE DEF upto
<1>8. upto \in 0..N /\ \A i \in (Len(outputs) + 1)..upto : Resolved[i] # Pending
  BY <1>7, PollTypes, Bounds
<1>9. upto < N => \E i \in (Len(outputs) + 1)..(upto + 1) : Resolved[i] = Pending
  <2>1. upto \in Len(outputs)..N
    BY <1>7
  <2>2. upto < N => upto + 1 \notin ready /\ upto + 1 \in Len(outputs)..N
    <3>1. upto \in Nat /\ ~(upto + 1 <= upto)
      BY <2>1, PollTypes
    <3>2. upto + 1 \notin ready
      <4> HIDE DEF ready
      <4> QED BY <1>7, <3>1
    <3> QED BY <2>1, <3>1, <3>2, PollTypes, Bounds
  <2> QED BY <2>2
<1> HIDE DEF ready
<1>10. \A i \in 1..upto : Resolved[i] \in Results
  <2>1. \A i \in 1..Len(outputs) : outputs[i] \in Results /\ outputs[i] = results[i]
    BY PollTypes, ElementOfSeq DEF IInv, Resolutions
  <2> SUFFICES ASSUME NEW i \in 1..upto PROVE Resolved[i] \in Results
    OBVIOUS
  <2>2. i \in Stages
    BY <1>8, Bounds DEF Stages
  <2>3. CASE i \in 1..Len(outputs)
    BY <1>5, <1>6, <2>1, <2>2, <2>3
  <2>4. CASE i \notin 1..Len(outputs)
    <3>1. i \in (Len(outputs) + 1)..upto
      BY <1>8, <2>4, PollTypes
    <3> QED BY <1>6, <1>8, <2>2, <3>1
  <2> QED BY <2>3, <2>4
<1>11. outs \in Seq(Results) /\ Len(outs) = upto /\ \A i \in 1..upto : outs[i] = Resolved[i]
  BY <1>8, <1>10
<1> HIDE DEF outs
<1>12. turn' \in Stages /\ job' \in {"running", "done"}
  <2>1. CASE upto = N
    BY <1>2, <1>3, <1>11, <2>1
  <2>2. CASE upto # N
    <3>1. upto + 1 \in Stages /\ Resolved[upto + 1] = Pending
      BY <1>8, <1>9, <2>2, PollTypes, Bounds DEF Stages
    <3>2. upto + 1 \in Unresolved \ {turn}
      BY <1>5, <1>6, <3>1 DEF Unresolved
    <3>3. After(turn, Unresolved \ {turn}) \in Stages
      BY <1>2, <3>2, AfterIsOneOf DEF Unresolved
    <3> QED BY <1>2, <1>3, <1>11, <2>2, <3>3
  <2> QED BY <2>1, <2>2
<1>13. TypeOK'
  BY <1>2, <1>6, <1>8, <1>11, <1>12, SMTT(30) DEF IInv, TypeOK, childVars
<1>14. Spawned' /\ Chain' /\ OutputIsPrefix'
  BY <1>2, <1>12 DEF IInv, Spawned, Chain, Seen, OutputIsPrefix, childVars
<1>15. Resolutions'
  <2>1. \A i \in Stages : results'[i] # Pending =>
          results'[i].stage = i /\ child'[i] \in {"ok", "failed"} /\ results'[i].ok = (child'[i] = "ok")
    BY <1>2, <1>4, <1>5, <1>6 DEF IInv, Resolutions, childVars
  <2>2. \A i \in 1..Len(outputs') : outputs'[i] = results'[i]
    BY <1>2, <1>11
  <2> QED BY <2>1, <2>2 DEF Resolutions
<1> QED BY <1>13, <1>14, <1>15 DEF IInv

\* Every step keeps the invariant: the parent's spawn, the children, and the polls of the Job.
LEMMA StepKeeps == IInv /\ [Next]_vars => IInv'
<1> SUFFICES ASSUME IInv, [Next]_vars PROVE IInv'
  OBVIOUS
<1>1. CASE Spawn
  BY <1>1, SpawnKeeps
<1>2. CASE DropCommand \/ SpawnFails
  BY <1>2, ParentKeeps
<1>3. CASE Poll
  BY <1>3, PollOutKeeps, PollErrKeeps, PollAgainKeeps, PollReadyKeeps DEF Poll, PollPending, PollError
<1>4. ASSUME NEW i \in Stages, Child(i) \/ ChildGivesUp(i) PROVE IInv'
  BY <1>4, WriteKeeps, ReadKeeps, ExitKeeps DEF Child, ChildExit, ChildBroken, ChildGivesUp
<1>5. CASE UNCHANGED vars
  <2>1. TypeOK'
    BY <1>5 DEF IInv, TypeOK, vars, childVars, parentVars, pollVars
  <2>2. Spawned' /\ Chain' /\ OutputIsPrefix' /\ Resolutions'
    BY <1>5 DEF IInv, Spawned, Chain, Seen, OutputIsPrefix, Resolutions, vars, childVars, parentVars,
                pollVars
  <2> QED BY <2>1, <2>2 DEF IInv
<1> QED BY <1>1, <1>2, <1>3, <1>4, <1>5 DEF Next

-----------------------------------------------------------------------------
\* The invariant holds however the threads and the children interleave.
THEOREM Invariant == Spec => []IInv
BY InitIInv, StepKeeps, PTL DEF Spec, SafeSpec

\* The state stays what it says it is.
THEOREM TypeCorrect == Spec => []TypeOK
<1>1. IInv => TypeOK
  BY DEF IInv
<1> QED BY <1>1, Invariant, PTL

\* No unit is lost, doubled or out of order on the way from the first child to what the last
\* Process has collected, as far as the units come.
THEOREM CollectedIsPrefix == Spec => []OutputIsPrefix
<1>1. IInv => OutputIsPrefix
  BY DEF IInv
<1> QED BY <1>1, Invariant, PTL

\* The outputs of a Job are in the order of its commands and say how each child ended.
THEOREM OutputsAreInOrder == Spec => []OutputsInOrder
<1>1. ASSUME IInv PROVE OutputsInOrder
  <2>1. DOMAIN outputs = 1..Len(outputs) /\ \A i \in DOMAIN outputs : i \in Stages
    BY <1>1, PollTypes, LenProperties, Bounds DEF Stages
  <2>2. \A i \in DOMAIN outputs : outputs[i] \in Results /\ outputs[i] # Pending
    <3>1. \A i \in DOMAIN outputs : outputs[i] \in Results
      BY <1>1, <2>1, PollTypes, ElementOfSeq
    <3>2. \A e \in Results : e.stage # 0
      BY Bounds DEF Results, Stages
    <3> QED BY <3>1, <3>2 DEF Pending
  <2> QED BY <1>1, <2>1, <2>2 DEF IInv, Resolutions, OutputsInOrder
<1> QED BY <1>1, Invariant, PTL
=============================================================================
