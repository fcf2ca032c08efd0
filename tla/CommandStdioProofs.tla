------------------------- MODULE CommandStdioProofs -------------------------
(***************************************************************************)
(* The streams of a Command, for any number of pipes, processes and files: *)
(* a Process reads its own child, and a descriptor number has one owner    *)
(* until a Stdio is copied.                                                *)
(*                                                                         *)
(* That a number is closed with its owner and soon stands for another file *)
(* or pipe is what the invariant has to survive.  So it follows every      *)
(* number from owner to owner: Owners says that each is open and has one,  *)
(* Contents that it stands for what its owner takes it for.                *)
(***************************************************************************)
EXTENDS CommandStdio, SequenceTheorems, TLAPS

\* Who owns numbers: the child's side of a stream and the Command's, the readers of a Process,
\* and a Stdio until it is passed to a command.
Owner == ({"child", "parent"} \X Streams) \cup ({"out", "err"} \X (1..MaxSpawns)) \cup ({"stdio"} \X Files)

Holds(o) ==
  IF o[1] = "child"  THEN inner[o[2]][2] ELSE
  IF o[1] = "parent" THEN handle[o[2]] ELSE
  IF o[1] = "out"    THEN IF o[2] \in DOMAIN procs THEN procs[o[2]].out ELSE None ELSE
  IF o[1] = "err"    THEN IF o[2] \in DOMAIN procs THEN procs[o[2]].err ELSE None
                     ELSE IF uses[o[2]] = 0 THEN stdio[o[2]] ELSE None

\* What an owner takes its number for.
Means(o) ==
  IF o[1] = "child"  THEN asked[o[2]] ELSE
  IF o[1] = "parent" THEN Other(asked[o[2]]) ELSE
  IF o[1] = "out"    THEN Other(procs[o[2]].std["stdout"]) ELSE
  IF o[1] = "err"    THEN Other(procs[o[2]].std["stderr"])
                     ELSE <<"file", o[2]>>

\* Files not opened yet have no number, what has none is not passed to a command, and a stream
\* of the child has a number if it is a descriptor.
Shapes ==
  /\ \A f \in Files : /\ f > opened => stdio[f] = None
                      /\ stdio[f] = None => uses[f] = 0
  /\ \A s \in Streams : inner[s][1] = "fd" <=> inner[s][2] # None

\* As long as nothing is copied, a number that is owned is open and is owned once.
Owners ==
  \/ Copied
  \/ /\ \A o \in Owner : Holds(o) # None => Holds(o) \in Numbers /\ fd[Holds(o)] # Closed
     /\ \A o, p \in Owner : Holds(o) = Holds(p) /\ Holds(o) # None => o = p

\* Streams that are configured once: before that the Command holds nothing of them, and a
\* reader goes with a writer that the child gets. As long as nothing is copied every number
\* stands for what its owner takes it for.
Contents ==
  AsInTests =>
    /\ \A s \in Streams : asked[s][1] = "default" => inner[s][2] = None /\ handle[s] = None
    /\ \A s \in {"stdout", "stderr"} : handle[s] # None => inner[s][2] # None /\ asked[s][1] = "writer"
    /\ Copied \/ \A k \in DOMAIN procs :
         /\ procs[k].out # None => procs[k].std["stdout"][1] = "writer"
         /\ procs[k].err # None => procs[k].std["stderr"][1] = "writer"
    /\ Copied \/ \A o \in Owner : Holds(o) # None => fd[Holds(o)] = Means(o)

IInv == TypeOK /\ Shapes /\ Owners /\ Contents

-----------------------------------------------------------------------------
(* Numbers that change hands.                                              *)

\* What is closed or opened keeps the table a table.
LEMMA WithoutType ==
  ASSUME NEW held, NEW t \in [Numbers -> Things(Open) \cup {Closed}]
  PROVE  /\ Without(held, t) \in [Numbers -> Things(Open) \cup {Closed}]
         /\ \A n \in Numbers : Without(held, t)[n] = IF n \in held THEN Closed ELSE t[n]
BY StdioAssumption DEF Without, Closed, Things, None

\* A step drops the owners in D and opens what is in t; each owner has afterwards a number that
\* was free, or the number of one that was not dropped, and gives its own away once at most.
Passes(D, new, from, t) ==
  /\ D \subseteq Owner /\ new \subseteq Owner /\ from \in [Owner -> Owner]
  /\ \A n \in Numbers : fd[n] # Closed => t[n] = fd[n]
  /\ \A n \in Numbers : fd'[n] = IF \E d \in D : Holds(d) = n THEN Closed ELSE t[n]
  /\ \A o \in new : Holds(o)' \in Numbers /\ fd[Holds(o)'] = Closed /\ t[Holds(o)'] # Closed
  /\ \A o \in Owner \ new : Holds(o)' # None => from[o] \notin D /\ Holds(o)' = Holds(from[o])
  /\ \A o, p \in new : Holds(o)' = Holds(p)' => o = p
  /\ \A o, p \in Owner \ new :
       from[o] = from[p] /\ Holds(o)' # None /\ Holds(p)' # None => o = p

\* Then numbers go on having one owner, and standing for the same.
LEMMA Passed ==
  ASSUME Owners, ~Copied, NEW D, NEW new, NEW from, NEW t, Passes(D, new, from, t)
  PROVE  /\ Owners'
         /\ \A o \in new : fd'[Holds(o)'] = t[Holds(o)']
         /\ \A o \in Owner \ new : Holds(o)' # None =>
              Holds(from[o]) # None /\ fd'[Holds(o)'] = fd[Holds(from[o])]
<1> USE DEF Passes
<1>1. /\ \A o \in Owner : Holds(o) # None => Holds(o) \in Numbers /\ fd[Holds(o)] # Closed
      /\ \A o, p \in Owner : Holds(o) = Holds(p) /\ Holds(o) # None => o = p
  BY DEF Owners
<1>2. \A n \in Numbers : n # None
  BY StdioAssumption DEF Numbers, None
<1>3. ASSUME NEW o \in new PROVE fd'[Holds(o)'] = t[Holds(o)'] /\ fd'[Holds(o)'] # Closed
  <2>1. ~\E d \in D : Holds(d) = Holds(o)'
    BY <1>1, <1>2
  <2> QED BY <2>1
<1>4. ASSUME NEW o \in Owner \ new, Holds(o)' # None
      PROVE  /\ from[o] \in Owner /\ Holds(from[o]) # None /\ Holds(o)' = Holds(from[o])
             /\ Holds(o)' \in Numbers
             /\ fd'[Holds(o)'] = fd[Holds(from[o])] /\ fd'[Holds(o)'] # Closed
  <2>1. from[o] \in Owner \ D /\ Holds(o)' = Holds(from[o]) /\ Holds(from[o]) # None
    BY <1>4
  <2>2. Holds(o)' \in Numbers /\ fd[Holds(o)'] # Closed
    BY <1>1, <2>1
  <2>3. ~\E d \in D : Holds(d) = Holds(o)'
    BY <1>1, <2>1
  <2> QED BY <2>1, <2>2, <2>3
<1>5. ASSUME NEW o \in Owner, NEW p \in Owner, Holds(o)' = Holds(p)', Holds(o)' # None
      PROVE  o = p
  <2>1. CASE o \in new /\ p \in new
    BY <1>5, <2>1
  <2>2. CASE o \in new /\ p \notin new
    BY <1>1, <1>4, <1>5, <2>2
  <2>3. CASE o \notin new /\ p \in new
    BY <1>1, <1>4, <1>5, <2>3
  <2>4. CASE o \notin new /\ p \notin new
    <3>1. from[o] = from[p]
      BY <1>1, <1>4, <1>5, <2>4
    <3> QED BY <3>1, <1>5, <2>4
  <2> QED BY <2>1, <2>2, <2>3, <2>4
<1>6. \A o \in Owner : Holds(o)' # None => Holds(o)' \in Numbers /\ fd'[Holds(o)'] # Closed
  BY <1>3, <1>4
<1> QED BY <1>3, <1>4, <1>5, <1>6 DEF Owners

\* The names of the owners.
LEMMA OwnerNames ==
  /\ \A s \in Streams : <<"child", s>> \in Owner /\ <<"parent", s>> \in Owner
  /\ \A k \in 1..MaxSpawns : <<"out", k>> \in Owner /\ <<"err", k>> \in Owner
  /\ \A f \in Files : <<"stdio", f>> \in Owner
  /\ \A o \in Owner :
       \/ \E s \in Streams : o = <<"child", s>> \/ o = <<"parent", s>>
       \/ \E k \in 1..MaxSpawns : o = <<"out", k>> \/ o = <<"err", k>>
       \/ \E f \in Files : o = <<"stdio", f>>
BY DEF Owner

-----------------------------------------------------------------------------
(* The builder.                                                            *)

\* Whoever configures a stream as the tests do finds it, and stdin() also the child's stdout,
\* not configured yet.
LEMMA TurnIsFirst ==
  ASSUME Contents, AsInTests, NEW s \in Streams, InTurn(s)
  PROVE  /\ inner[s][2] = None /\ handle[s] = None
         /\ s = "stdin" => inner["stdout"][2] = None /\ handle["stdout"] = None
<1>1. asked[s][1] = "default" /\ (s = "stdin" => asked["stdout"][1] = "default")
  BY DEF InTurn, Order, Streams
<1> QED BY <1>1 DEF Contents, Streams

\* A stream becomes a pipe.
LEMMA PipedKeeps ==
  ASSUME IInv, NEW s \in Streams, InTurn(s), Piped(s)
  PROVE  IInv'
<1> DEFINE new == {<<"child", s>>, <<"parent", s>>}
<1> DEFINE from == [o \in Owner |-> o]
<1> PICK p : p = pipes + 1
  OBVIOUS
<1> PICK theirs, ours : theirs = (IF s = "stdin" THEN "reader" ELSE "writer") /\ ours = (IF s = "stdin" THEN "writer" ELSE "reader")
  OBVIOUS
<1>1. PICK r, w \in Numbers :
        LET opening == [fd EXCEPT ![r] = <<"reader", p>>]
        IN /\ Lowest(r, fd) /\ Lowest(w, opening)
           /\ inner' = [inner EXCEPT ![s] = <<"fd", IF s = "stdin" THEN r ELSE w>>]
           /\ handle' = [handle EXCEPT ![s] = IF s = "stdin" THEN w ELSE r]
           /\ fd' = Without({inner[s][2], handle[s]}, [opening EXCEPT ![w] = <<"writer", p>>])
  BY DEF Piped, PipedFrom
<1>2. /\ pipes < MaxPipes /\ pipes' = p /\ UNCHANGED <<procs, opened, stdio, uses>>
      /\ asked' = [asked EXCEPT ![s] = <<theirs, p>>]
      /\ p \in 0..(MaxPipes + MaxFiles) /\ p \in 0..MaxPipes
  <2>1. pipes < MaxPipes /\ pipes' = p /\ UNCHANGED <<procs, opened, stdio, uses>>
    BY DEF Piped, PipedFrom, stdioVars
  <2>2. asked' = [asked EXCEPT ![s] = <<theirs, p>>]
    BY DEF Piped, PipedFrom, Asks
  <2>3. p \in 0..(MaxPipes + MaxFiles) /\ p \in 0..MaxPipes
    BY <2>1, StdioAssumption DEF IInv, TypeOK
  <2> QED BY <2>1, <2>2, <2>3
<1> DEFINE t == [[fd EXCEPT ![r] = <<"reader", p>>] EXCEPT ![w] = <<"writer", p>>]
<1>3. /\ t \in [Numbers -> Things(Open) \cup {Closed}]
      /\ r # w /\ fd[r] = Closed /\ fd[w] = Closed
      /\ t[r] = <<"reader", p>> /\ t[w] = <<"writer", p>>
      /\ \A n \in Numbers \ {r, w} : t[n] = fd[n]
  BY <1>1, <1>2 DEF IInv, TypeOK, Lowest, Things, Open, Closed
<1>4. /\ fd' \in [Numbers -> Things(Open) \cup {Closed}]
      /\ \A n \in Numbers : fd'[n] = IF n \in {inner[s][2], handle[s]} THEN Closed ELSE t[n]
  <2> DEFINE held == {inner[s][2], handle[s]}
  <2>1. fd' = Without(held, t)
    BY <1>1
  <2>2. t \in [Numbers -> Things(Open) \cup {Closed}]
    BY <1>3
  <2> HIDE DEF t, held
  <2>3. /\ Without(held, t) \in [Numbers -> Things(Open) \cup {Closed}]
        /\ \A n \in Numbers : Without(held, t)[n] = IF n \in held THEN Closed ELSE t[n]
    BY <2>2, WithoutType
  <2> QED BY <2>1, <2>3 DEF held
<1> HIDE DEF t
<1>5. TypeOK'
  <2>1. r \in Held /\ w \in Held
    BY DEF Held
  <2>2. /\ inner' \in [Streams -> {"null", "inherit", "fd"} \X Held]
        /\ handle' \in [Streams -> Held]
    BY <1>1, <2>1 DEF IInv, TypeOK
  <2>3. asked' \in [Streams -> Things(Open \cup {"null", "inherit", "default"})]
    BY <1>2 DEF IInv, TypeOK, Things, Open
  <2> QED BY <1>2, <1>4, <2>2, <2>3 DEF IInv, TypeOK
<1>6. /\ inner'[s][2] = (IF s = "stdin" THEN r ELSE w) /\ inner'[s][1] = "fd"
      /\ handle'[s] = (IF s = "stdin" THEN w ELSE r)
      /\ asked'[s] = <<theirs, p>>
      /\ \A u \in Streams \ {s} : inner'[u] = inner[u] /\ handle'[u] = handle[u] /\ asked'[u] = asked[u]
  BY <1>1, <1>2 DEF IInv, TypeOK
<1>7. r # None /\ w # None
  BY StdioAssumption DEF Numbers, None
<1>8. Shapes'
  BY <1>2, <1>6, <1>7 DEF IInv, Shapes
<1>9. Copied' <=> Copied
  BY <1>2 DEF Copied
<1>10. ASSUME ~Copied
       PROVE  /\ Owners'
              /\ \A o \in new : fd'[Holds(o)'] = t[Holds(o)']
              /\ \A o \in Owner \ new : Holds(o)' # None =>
                   Holds(o) # None /\ fd'[Holds(o)'] = fd[Holds(o)]
  <2>1. new \in SUBSET Owner /\ from \in [Owner -> Owner] /\ \A o \in Owner : from[o] = o
    BY OwnerNames
  <2>2. /\ Holds(<<"child", s>>)' = (IF s = "stdin" THEN r ELSE w)
        /\ Holds(<<"parent", s>>)' = (IF s = "stdin" THEN w ELSE r)
        /\ Holds(<<"child", s>>) = inner[s][2] /\ Holds(<<"parent", s>>) = handle[s]
    BY <1>6 DEF Holds
  <2>3. \A o \in Owner \ new : Holds(o)' = Holds(o)
    BY <1>2, <1>6, OwnerNames DEF Holds
  <2>4. \A n \in Numbers : fd'[n] = IF \E d \in new : Holds(d) = n THEN Closed ELSE t[n]
    BY <1>4, <2>2
  <2>5. \A n \in Numbers : fd[n] # Closed => t[n] = fd[n]
    BY <1>3
  <2>6. /\ \A o \in new : Holds(o)' \in Numbers /\ fd[Holds(o)'] = Closed /\ t[Holds(o)'] # Closed
        /\ \A o, q \in new : Holds(o)' = Holds(q)' => o = q
    BY <1>3, <2>2 DEF Closed
  <2>7. /\ \A o \in Owner \ new : Holds(o)' # None => from[o] \notin new /\ Holds(o)' = Holds(from[o])
        /\ \A o, q \in Owner \ new :
             from[o] = from[q] /\ Holds(o)' # None /\ Holds(q)' # None => o = q
    BY <2>1, <2>3
  <2>8. Passes(new, new, from, t)
    <3> HIDE DEF new, from
    <3> QED BY <2>1, <2>4, <2>5, <2>6, <2>7 DEF Passes
  <2>9. /\ Owners'
        /\ \A o \in new : fd'[Holds(o)'] = t[Holds(o)']
        /\ \A o \in Owner \ new : Holds(o)' # None =>
             Holds(from[o]) # None /\ fd'[Holds(o)'] = fd[Holds(from[o])]
    <3> HIDE DEF new, from
    <3> QED BY <1>10, <2>8, Passed DEF IInv
  <2> QED BY <2>1, <2>9
<1>11. ASSUME AsInTests PROVE Contents'
  <2>1. \A u \in Streams : asked'[u][1] = "default" => inner'[u][2] = None /\ handle'[u] = None
    BY <1>6, <1>11 DEF IInv, Contents
  <2>2. \A u \in {"stdout", "stderr"} : handle'[u] # None => inner'[u][2] # None /\ asked'[u][1] = "writer"
    BY <1>6, <1>7, <1>11 DEF IInv, Contents, Streams
  <2>3. Copied' \/ \A k \in DOMAIN procs' :
          /\ procs'[k].out # None => procs'[k].std["stdout"][1] = "writer"
          /\ procs'[k].err # None => procs'[k].std["stderr"][1] = "writer"
    BY <1>2, <1>9, <1>11 DEF IInv, Contents
  <2>4. ASSUME ~Copied, NEW o \in Owner, Holds(o)' # None PROVE fd'[Holds(o)'] = Means(o)'
    <3>1. CASE o \in new
      <4>1. /\ Holds(<<"child", s>>)' = (IF s = "stdin" THEN r ELSE w)
            /\ Holds(<<"parent", s>>)' = (IF s = "stdin" THEN w ELSE r)
            /\ Means(<<"child", s>>)' = <<theirs, p>> /\ Means(<<"parent", s>>)' = <<ours, p>>
        BY <1>6 DEF Holds, Means, Other
      <4> QED BY <1>3, <1>10, <2>4, <3>1, <4>1
    <3>2. CASE o \notin new
      <4>1. Means(o)' = Means(o)
        BY <1>2, <1>6, <3>2, OwnerNames DEF Means
      <4>2. Holds(o) # None /\ fd'[Holds(o)'] = fd[Holds(o)]
        BY <1>10, <2>4, <3>2
      <4> QED BY <1>11, <2>4, <4>1, <4>2 DEF IInv, Contents
    <3> QED BY <3>1, <3>2
  <2> QED BY <1>9, <2>1, <2>2, <2>3, <2>4 DEF Contents
<1>12. Contents'
  BY <1>11 DEF Contents
<1>13. Owners'
  BY <1>9, <1>10 DEF Owners
<1> QED BY <1>5, <1>8, <1>12, <1>13 DEF IInv

\* Null and inherit: what the child had there is closed.
LEMMA PlainKeeps ==
  ASSUME IInv, NEW s \in Streams, NEW t \in Streams, Plain(s, t), InTurn(s),
         t = (IF s = "stdin" THEN "stdout" ELSE s)
  PROVE  IInv'
<1> DEFINE D == {<<"child", t>>}
<1> DEFINE from == [o \in Owner |-> o]
<1>1. PICK kind \in {"null", "inherit"} : Gives(t, <<kind, None>>) /\ Asks(s, <<kind, None>>)
  BY DEF Plain
<1>2. UNCHANGED <<handle, pipes, procs, opened, stdio, uses>>
  BY DEF Plain, stdioVars
<1>3. /\ inner' = [inner EXCEPT ![t] = <<kind, None>>]
      /\ asked' = [asked EXCEPT ![s] = <<kind, None>>]
      /\ fd' \in [Numbers -> Things(Open) \cup {Closed}]
      /\ \A n \in Numbers : fd'[n] = IF n = inner[t][2] THEN Closed ELSE fd[n]
  BY <1>1, WithoutType DEF Gives, Asks, IInv, TypeOK
<1>4. /\ inner'[t] = <<kind, None>> /\ asked'[s] = <<kind, None>>
      /\ \A u \in Streams \ {t} : inner'[u] = inner[u]
      /\ \A u \in Streams \ {s} : asked'[u] = asked[u]
  BY <1>3 DEF IInv, TypeOK
<1>5. TypeOK'
  <2>1. inner' \in [Streams -> {"null", "inherit", "fd"} \X Held]
    BY <1>3 DEF IInv, TypeOK, Held
  <2>2. asked' \in [Streams -> Things(Open \cup {"null", "inherit", "default"})]
    BY <1>3, StdioAssumption DEF IInv, TypeOK, Things, None
  <2> QED BY <1>2, <1>3, <2>1, <2>2 DEF IInv, TypeOK
<1>6. Shapes'
  BY <1>2, <1>4 DEF IInv, Shapes
<1>7. Copied' <=> Copied
  BY <1>2 DEF Copied
<1>8. \A o \in Owner : Holds(o)' = IF o \in D THEN None ELSE Holds(o)
  BY <1>2, <1>4, OwnerNames DEF Holds
<1>9. ASSUME ~Copied
      PROVE  Owners' /\ \A o \in Owner : Holds(o)' # None => Holds(o) # None /\ fd'[Holds(o)'] = fd[Holds(o)]
  <2>1. D \subseteq Owner /\ from \in [Owner -> Owner] /\ \A o \in Owner : from[o] = o
    BY OwnerNames
  <2>2. \A n \in Numbers : fd'[n] = IF \E d \in D : Holds(d) = n THEN Closed ELSE fd[n]
    BY <1>3 DEF Holds
  <2>3. Passes(D, {}, from, fd)
    <3> HIDE DEF D, from
    <3> QED BY <1>8, <2>1, <2>2 DEF Passes
  <2> HIDE DEF D, from
  <2> QED BY <1>9, <2>1, <2>3, Passed DEF IInv
<1>10. ASSUME AsInTests PROVE Contents'
  <2>1. inner[s][2] = None /\ handle[s] = None /\ handle[t] = None /\ inner[t][2] = None
    BY <1>10, TurnIsFirst DEF IInv
  <2>2. \A u \in Streams : asked'[u][1] = "default" => inner'[u][2] = None /\ handle'[u] = None
    BY <1>2, <1>4, <1>10 DEF IInv, Contents
  <2>3. \A u \in {"stdout", "stderr"} : handle'[u] # None => inner'[u][2] # None /\ asked'[u][1] = "writer"
    BY <1>2, <1>4, <1>10, <2>1 DEF IInv, Contents, Streams
  <2>4. Copied' \/ \A k \in DOMAIN procs' :
          /\ procs'[k].out # None => procs'[k].std["stdout"][1] = "writer"
          /\ procs'[k].err # None => procs'[k].std["stderr"][1] = "writer"
    BY <1>2, <1>7, <1>10 DEF IInv, Contents
  <2>5. ASSUME ~Copied, NEW o \in Owner, Holds(o)' # None PROVE fd'[Holds(o)'] = Means(o)'
    <3>1. o \notin {<<"child", s>>, <<"parent", s>>}
      BY <1>8, <2>1, <2>5 DEF Holds
    <3>2. Means(o)' = Means(o)
      BY <1>2, <1>4, <3>1, OwnerNames DEF Means
    <3> QED BY <1>9, <1>10, <2>5, <3>2 DEF IInv, Contents
  <2> QED BY <1>7, <2>2, <2>3, <2>4, <2>5 DEF Contents
<1>11. Contents'
  BY <1>10 DEF Contents
<1>12. Owners'
  BY <1>7, <1>9 DEF Owners
<1> QED BY <1>5, <1>6, <1>11, <1>12 DEF IInv

\* A file opened for a Stdio.
LEMMA FromFileKeeps ==
  ASSUME IInv, FromFile
  PROVE  IInv'
<1> DEFINE from == [o \in Owner |-> o]
<1>1. PICK n \in Numbers :
        /\ Lowest(n, fd)
        /\ stdio' = [stdio EXCEPT ![opened'] = n]
        /\ fd' = [fd EXCEPT ![n] = <<"file", opened'>>]
  BY DEF FromFile, Opens
<1>2. opened < MaxFiles /\ opened' = opened + 1 /\ UNCHANGED <<inner, handle, asked, pipes, procs, uses>>
  BY DEF FromFile, Opens, cmdVars
<1> PICK f : f = opened + 1
  OBVIOUS
<1>3. f \in Files /\ f \in 0..MaxFiles /\ f \in 0..(MaxPipes + MaxFiles) /\ f > opened
  BY <1>2, StdioAssumption DEF IInv, TypeOK, Files
<1> DEFINE t == [fd EXCEPT ![n] = <<"file", f>>]
<1> DEFINE new == {<<"stdio", f>>}
<1>4. /\ fd' = t /\ t \in [Numbers -> Things(Open) \cup {Closed}]
      /\ fd[n] = Closed /\ t[n] = <<"file", f>> /\ \A m \in Numbers \ {n} : t[m] = fd[m]
  BY <1>1, <1>2, <1>3 DEF IInv, TypeOK, Lowest, Things, Open
<1>5. /\ stdio' \in [Files -> Held] /\ stdio'[f] = n /\ n # None
      /\ \A g \in Files \ {f} : stdio'[g] = stdio[g]
      /\ stdio[f] = None /\ uses[f] = 0
  BY <1>1, <1>2, <1>3, StdioAssumption DEF IInv, TypeOK, Shapes, Held, Numbers, None
<1>6. TypeOK'
  BY <1>2, <1>3, <1>4, <1>5 DEF IInv, TypeOK
<1>7. Shapes'
  <2>1. \A g \in Files : g > opened' => g > opened /\ g # f
    BY <1>2, StdioAssumption DEF IInv, TypeOK, Files
  <2> QED BY <1>2, <1>5, <2>1 DEF IInv, Shapes
<1>8. Copied' <=> Copied
  BY <1>2 DEF Copied
<1>9. /\ Holds(<<"stdio", f>>)' = n
      /\ \A o \in Owner \ new : Holds(o)' = Holds(o)
  BY <1>2, <1>5, OwnerNames DEF Holds
<1>10. ASSUME ~Copied
       PROVE  /\ Owners'
              /\ fd'[Holds(<<"stdio", f>>)'] = <<"file", f>>
              /\ \A o \in Owner \ new : Holds(o)' # None => Holds(o) # None /\ fd'[Holds(o)'] = fd[Holds(o)]
  <2>1. new \subseteq Owner /\ from \in [Owner -> Owner] /\ \A o \in Owner : from[o] = o
    BY <1>3, OwnerNames
  <2>2. /\ \A m \in Numbers : fd[m] # Closed => t[m] = fd[m]
        /\ \A m \in Numbers : fd'[m] = IF \E d \in {} : Holds(d) = m THEN Closed ELSE t[m]
        /\ t[n] # Closed
    BY <1>4 DEF Closed
  <2>3. Passes({}, new, from, t)
    <3>1. \A o \in new : Holds(o)' \in Numbers /\ fd[Holds(o)'] = Closed /\ t[Holds(o)'] # Closed
      BY <1>4, <1>9, <2>2
    <3>2. \A o, p \in new : Holds(o)' = Holds(p)' => o = p
      OBVIOUS
    <3> HIDE DEF new, from, t
    <3> QED BY <1>9, <2>1, <2>2, <3>1, <3>2 DEF Passes
  <2>4. /\ Owners'
        /\ \A o \in new : fd'[Holds(o)'] = t[Holds(o)']
        /\ \A o \in Owner \ new : Holds(o)' # None =>
             Holds(from[o]) # None /\ fd'[Holds(o)'] = fd[Holds(from[o])]
    <3> HIDE DEF new, from, t
    <3> QED BY <1>10, <2>3, Passed DEF IInv
  <2> HIDE DEF from, t
  <2> QED BY <1>4, <1>9, <2>1, <2>4
<1>11. ASSUME AsInTests, ~Copied, NEW o \in Owner, Holds(o)' # None PROVE fd'[Holds(o)'] = Means(o)'
  <2>1. Means(o)' = Means(o)
    BY <1>2, OwnerNames DEF Means
  <2>2. CASE o \in new
    BY <1>3, <1>10, <1>11, <2>1, <2>2 DEF Means
  <2>3. CASE o \notin new
    BY <1>10, <1>11, <2>1, <2>3 DEF IInv, Contents
  <2> QED BY <2>2, <2>3
<1>12. Contents'
  BY <1>2, <1>8, <1>11 DEF IInv, Contents
<1>13. Owners'
  BY <1>8, <1>10 DEF Owners
<1> QED BY <1>6, <1>7, <1>12, <1>13 DEF IInv

\* A Stdio of a file is passed on: it is the child's now, or has a second owner.
LEMMA FromFdKeeps ==
  ASSUME IInv, NEW s \in Streams, FromFd(s), InTurn(s)
  PROVE  IInv'
<1> DEFINE D == {<<"child", s>>}
<1>1. PICK f \in Files :
        /\ stdio[f] # None
        /\ Gives(s, <<"fd", stdio[f]>>)
        /\ uses' = [uses EXCEPT ![f] = IF @ = 2 THEN 2 ELSE @ + 1]
        /\ Asks(s, <<"file", f>>)
  BY DEF FromFd
<1> DEFINE from == [o \in Owner |-> IF o \in D THEN <<"stdio", f>> ELSE o]
<1>2. UNCHANGED <<handle, pipes, procs, opened, stdio>>
  BY DEF FromFd
<1>3. /\ inner' = [inner EXCEPT ![s] = <<"fd", stdio[f]>>]
      /\ asked' = [asked EXCEPT ![s] = <<"file", f>>]
      /\ fd' \in [Numbers -> Things(Open) \cup {Closed}]
      /\ \A n \in Numbers : fd'[n] = IF n = inner[s][2] THEN Closed ELSE fd[n]
  BY <1>1, WithoutType DEF Gives, Asks, IInv, TypeOK
<1>4. /\ inner'[s] = <<"fd", stdio[f]>> /\ asked'[s] = <<"file", f>>
      /\ \A u \in Streams \ {s} : inner'[u] = inner[u] /\ asked'[u] = asked[u]
  BY <1>3 DEF IInv, TypeOK
<1>5. /\ uses' \in [Files -> 0..2]
      /\ uses'[f] # 0 /\ (uses'[f] # 2 => uses[f] = 0)
      /\ \A g \in Files \ {f} : uses'[g] = uses[g]
      /\ uses[f] = 2 => uses'[f] = 2
  BY <1>1 DEF IInv, TypeOK
<1>6. TypeOK'
  <2>1. inner' \in [Streams -> {"null", "inherit", "fd"} \X Held]
    BY <1>3 DEF IInv, TypeOK
  <2>2. asked' \in [Streams -> Things(Open \cup {"null", "inherit", "default"})]
    <3>1. f \in 0..(MaxPipes + MaxFiles)
      BY StdioAssumption DEF Files
    <3> QED BY <1>3, <3>1 DEF IInv, TypeOK, Things, Open
  <2> QED BY <1>2, <1>3, <1>5, <2>1, <2>2 DEF IInv, TypeOK
<1>7. Shapes'
  BY <1>1, <1>2, <1>4, <1>5 DEF IInv, Shapes
<1>8. ~Copied' => ~Copied /\ uses[f] = 0
  BY <1>5 DEF Copied
<1>9. ASSUME ~Copied'
      PROVE  /\ Holds(<<"child", s>>)' = stdio[f] /\ Holds(<<"stdio", f>>) = stdio[f]
             /\ Holds(<<"stdio", f>>)' = None
             /\ \A o \in Owner \ (D \cup {<<"stdio", f>>}) : Holds(o)' = Holds(o)
  <2>1. \A o \in Owner \ (D \cup {<<"stdio", f>>}) : Holds(o)' = Holds(o)
    BY <1>2, <1>4, <1>5, OwnerNames DEF Holds
  <2> QED BY <1>2, <1>4, <1>5, <1>8, <1>9, <2>1 DEF Holds
<1>10. ASSUME ~Copied'
       PROVE  /\ Owners'
              /\ \A o \in Owner : Holds(o)' # None => Holds(from[o]) # None /\ fd'[Holds(o)'] = fd[Holds(from[o])]
  <2>1. /\ D \subseteq Owner /\ from \in [Owner -> Owner]
        /\ \A o \in Owner : from[o] = IF o \in D THEN <<"stdio", f>> ELSE o
        /\ <<"stdio", f>> \in Owner /\ <<"stdio", f>> \notin D /\ <<"child", s>> \in D
    BY OwnerNames
  <2>2. \A n \in Numbers : fd'[n] = IF \E d \in D : Holds(d) = n THEN Closed ELSE fd[n]
    BY <1>3 DEF Holds
  <2>3. \A o \in Owner : Holds(o)' # None => from[o] \notin D /\ Holds(o)' = Holds(from[o])
    BY <1>9, <1>10, <2>1
  <2>4. \A o, p \in Owner : from[o] = from[p] /\ Holds(o)' # None /\ Holds(p)' # None => o = p
    BY <1>9, <1>10, <2>1
  <2>5. Passes(D, {}, from, fd)
    <3> HIDE DEF D, from
    <3> QED BY <2>1, <2>2, <2>3, <2>4 DEF Passes
  <2> HIDE DEF D, from
  <2> QED BY <1>8, <1>10, <2>5, Passed DEF IInv
<1>11. ASSUME AsInTests PROVE Contents'
  <2>1. inner[s][2] = None /\ handle[s] = None
    BY <1>11, TurnIsFirst DEF IInv
  <2>2. \A u \in Streams : asked'[u][1] = "default" => inner'[u][2] = None /\ handle'[u] = None
    BY <1>2, <1>4, <1>11 DEF IInv, Contents
  <2>3. \A u \in {"stdout", "stderr"} : handle'[u] # None => inner'[u][2] # None /\ asked'[u][1] = "writer"
    BY <1>2, <1>4, <1>11, <2>1 DEF IInv, Contents, Streams
  <2>4. Copied' \/ \A k \in DOMAIN procs' :
          /\ procs'[k].out # None => procs'[k].std["stdout"][1] = "writer"
          /\ procs'[k].err # None => procs'[k].std["stderr"][1] = "writer"
    BY <1>2, <1>8, <1>11 DEF IInv, Contents
  <2>5. ASSUME ~Copied', NEW o \in Owner, Holds(o)' # None PROVE fd'[Holds(o)'] = Means(o)'
    <3>1. CASE o \in D
      <4>1. from[o] = <<"stdio", f>> /\ <<"stdio", f>> \in Owner
        BY <3>1, OwnerNames
      <4>2. Means(o)' = Means(<<"stdio", f>>)
        BY <1>4, <3>1 DEF Means
      <4> QED BY <1>8, <1>10, <1>11, <2>5, <4>1, <4>2 DEF IInv, Contents
    <3>2. CASE o \notin D
      <4>1. o # <<"parent", s>>
        BY <1>2, <2>1, <2>5 DEF Holds
      <4>2. Means(o)' = Means(o)
        BY <1>2, <1>4, <3>2, <4>1, OwnerNames DEF Means
      <4> QED BY <1>8, <1>10, <1>11, <2>5, <3>2, <4>2 DEF IInv, Contents
    <3> QED BY <3>1, <3>2
  <2> QED BY <2>2, <2>3, <2>4, <2>5 DEF Contents
<1>12. Contents'
  BY <1>11 DEF Contents
<1>13. Owners'
  BY <1>10 DEF Owners
<1> QED BY <1>6, <1>7, <1>12, <1>13 DEF IInv

-----------------------------------------------------------------------------
(* Processes come and go.                                                  *)

\* The readers move to the Process.
LEMMA SpawnKeeps ==
  ASSUME IInv, Spawn
  PROVE  IInv'
<1> PICK l : l = Len(procs) + 1
  OBVIOUS
<1> DEFINE given == [s \in Streams |-> IF inner[s][1] = "fd" THEN fd[inner[s][2]] ELSE inner[s]]
<1> DEFINE proc == [std |-> given, out |-> handle["stdout"], err |-> handle["stderr"]]
<1> DEFINE from == [o \in Owner |-> IF o = <<"out", l>> THEN <<"parent", "stdout">> ELSE
                                    IF o = <<"err", l>> THEN <<"parent", "stderr">> ELSE o]
<1>1. /\ Len(procs) < MaxSpawns /\ Spawnable /\ procs' = Append(procs, proc)
      /\ handle' = [handle EXCEPT !["stdout"] = None, !["stderr"] = None]
      /\ UNCHANGED <<inner, asked, fd, pipes, opened, stdio, uses>>
  BY DEF Spawn, SpawnWith, stdioVars
<1>2. proc \in Processes
  <2>1. ASSUME NEW s \in Streams PROVE given[s] \in Things(Open \cup {"null", "inherit", "gone"})
    <3>1. CASE inner[s][1] = "fd"
      <4>1. inner[s][2] \in Numbers /\ fd[inner[s][2]] # Closed
        BY <1>1, <3>1 DEF Spawnable, IInv, TypeOK, Shapes, Held
      <4> QED BY <3>1, <4>1 DEF IInv, TypeOK, Things
    <3>2. CASE inner[s][1] # "fd"
      BY <3>2, StdioAssumption DEF IInv, TypeOK, Shapes, Things, Held, None
    <3> QED BY <3>1, <3>2
  <2>2. handle["stdout"] \in Held /\ handle["stderr"] \in Held
    BY DEF IInv, TypeOK, Streams
  <2> HIDE DEF given
  <2>3. given \in [Streams -> Things(Open \cup {"null", "inherit", "gone"})]
    BY <2>1 DEF given
  <2> QED BY <2>2, <2>3 DEF Processes
<1>3. proc.std = given /\ proc.out = handle["stdout"] /\ proc.err = handle["stderr"]
  OBVIOUS
<1> HIDE DEF proc
<1>4. /\ procs' \in Seq(Processes) /\ Len(procs') = l /\ l <= MaxSpawns /\ l \in 1..MaxSpawns
      /\ DOMAIN procs = 1..Len(procs) /\ DOMAIN procs' = 1..l
      /\ l \notin DOMAIN procs /\ DOMAIN procs' = DOMAIN procs \cup {l}
      /\ \A k \in DOMAIN procs : procs'[k] = procs[k]
      /\ procs'[l] = proc
  <2>1. procs \in Seq(Processes) /\ Len(procs) \in Nat
    BY DEF IInv, TypeOK
  <2> QED BY <1>1, <1>2, <2>1, AppendProperties, StdioAssumption
<1>5. TypeOK'
  <2>1. handle' \in [Streams -> Held]
    BY <1>1 DEF IInv, TypeOK, Held
  <2> QED BY <1>1, <1>4, <2>1 DEF IInv, TypeOK
<1>6. /\ handle'["stdout"] = None /\ handle'["stderr"] = None
      /\ \A s \in Streams \ {"stdout", "stderr"} : handle'[s] = handle[s]
  BY <1>1 DEF IInv, TypeOK, Streams
<1>7. Shapes' /\ (Copied' <=> Copied)
  BY <1>1 DEF IInv, Shapes, Copied
<1>8. /\ \A o \in Owner : from[o] \in Owner
      /\ \A o \in Owner : Holds(o)' # None => Holds(o)' = Holds(from[o])
      /\ Holds(<<"parent", "stdout">>)' = None /\ Holds(<<"parent", "stderr">>)' = None
  <2>1. \A o \in Owner : from[o] \in Owner
    BY OwnerNames DEF Streams
  <2>2. Holds(<<"parent", "stdout">>)' = None /\ Holds(<<"parent", "stderr">>)' = None
    BY <1>6 DEF Holds
  <2>3. /\ Holds(<<"out", l>>)' = Holds(<<"parent", "stdout">>)
        /\ Holds(<<"err", l>>)' = Holds(<<"parent", "stderr">>)
    BY <1>3, <1>4 DEF Holds
  <2>4. \A k \in 1..MaxSpawns \ {l} : /\ Holds(<<"out", k>>)' = Holds(<<"out", k>>)
                                      /\ Holds(<<"err", k>>)' = Holds(<<"err", k>>)
    BY <1>4 DEF Holds
  <2>5. \A o \in Owner \ {<<"out", l>>, <<"err", l>>} : Holds(o)' # None => Holds(o)' = Holds(o)
    <3>1. \A s \in Streams : /\ Holds(<<"child", s>>)' = Holds(<<"child", s>>)
                             /\ Holds(<<"parent", s>>)' \in {None, Holds(<<"parent", s>>)}
      BY <1>1, <1>6 DEF Holds
    <3>2. \A f \in Files : Holds(<<"stdio", f>>)' = Holds(<<"stdio", f>>)
      BY <1>1 DEF Holds
    <3> QED BY <2>4, <3>1, <3>2, OwnerNames
  <2> QED BY <2>1, <2>2, <2>3, <2>5
<1>9. ASSUME ~Copied
      PROVE  /\ Owners'
             /\ \A o \in Owner : Holds(o)' # None => Holds(from[o]) # None /\ fd'[Holds(o)'] = fd[Holds(from[o])]
  <2>1. from \in [Owner -> Owner]
    BY <1>8
  <2>2. \A o, p \in Owner : from[o] = from[p] /\ Holds(o)' # None /\ Holds(p)' # None => o = p
    BY <1>8
  <2>3. \A n \in Numbers : fd'[n] = IF \E d \in {} : Holds(d) = n THEN Closed ELSE fd[n]
    BY <1>1
  <2>4. Passes({}, {}, from, fd)
    <3> HIDE DEF from
    <3> QED BY <1>8, <2>1, <2>2, <2>3 DEF Passes
  <2> HIDE DEF from
  <2> QED BY <1>9, <2>4, Passed DEF IInv
<1>10. ASSUME AsInTests PROVE Contents'
  <2>1. ASSUME ~Copied, NEW s \in {"stdout", "stderr"}, handle[s] # None
        PROVE  given[s] = asked[s] /\ asked[s][1] = "writer"
    <3>1. inner[s][2] # None /\ asked[s][1] = "writer" /\ inner[s][1] = "fd"
      BY <1>10, <2>1 DEF IInv, Contents, Shapes, Streams
    <3>2. <<"child", s>> \in Owner /\ Holds(<<"child", s>>) = inner[s][2] /\ Means(<<"child", s>>) = asked[s]
      BY OwnerNames DEF Holds, Means, Streams
    <3> QED BY <1>10, <2>1, <3>1, <3>2 DEF IInv, Contents, Streams
  <2>2. \A u \in Streams : asked'[u][1] = "default" => inner'[u][2] = None /\ handle'[u] = None
    BY <1>1, <1>6, <1>10 DEF IInv, Contents
  <2>3. \A u \in {"stdout", "stderr"} : handle'[u] # None => inner'[u][2] # None /\ asked'[u][1] = "writer"
    BY <1>6
  <2>4. Copied' \/ \A k \in DOMAIN procs' :
          /\ procs'[k].out # None => procs'[k].std["stdout"][1] = "writer"
          /\ procs'[k].err # None => procs'[k].std["stderr"][1] = "writer"
    <3> HIDE DEF given
    <3> QED BY <1>3, <1>4, <1>7, <1>10, <2>1 DEF IInv, Contents
  <2>5. ASSUME ~Copied, NEW o \in Owner, Holds(o)' # None PROVE fd'[Holds(o)'] = Means(o)'
    <3>1. Holds(from[o]) # None /\ fd'[Holds(o)'] = Means(from[o])
      BY <1>8, <1>9, <1>10, <2>5 DEF IInv, Contents
    <3>2. CASE o = <<"out", l>>
      <4>1. /\ Means(o)' = Other(given["stdout"]) /\ from[o] = <<"parent", "stdout">>
            /\ Means(<<"parent", "stdout">>) = Other(asked["stdout"])
            /\ Holds(<<"parent", "stdout">>) = handle["stdout"]
        BY <1>3, <1>4, <3>2 DEF Means, Holds
      <4> HIDE DEF given
      <4> QED BY <2>1, <2>5, <3>1, <4>1
    <3>3. CASE o = <<"err", l>>
      <4>1. /\ Means(o)' = Other(given["stderr"]) /\ from[o] = <<"parent", "stderr">>
            /\ Means(<<"parent", "stderr">>) = Other(asked["stderr"])
            /\ Holds(<<"parent", "stderr">>) = handle["stderr"]
        BY <1>3, <1>4, <3>3 DEF Means, Holds
      <4> HIDE DEF given
      <4> QED BY <2>1, <2>5, <3>1, <4>1
    <3>4. CASE o \notin {<<"out", l>>, <<"err", l>>}
      <4>1. from[o] = o
        BY <3>4
      <4>2. ASSUME NEW k \in 1..MaxSpawns, o = <<"out", k>> \/ o = <<"err", k>> PROVE k \in DOMAIN procs
        BY <1>4, <2>5, <3>4, <4>2 DEF Holds
      <4>3. ASSUME NEW k \in 1..MaxSpawns, o = <<"out", k>> \/ o = <<"err", k>> PROVE Means(o)' = Means(o)
        BY <1>4, <4>2, <4>3 DEF Means
      <4>4. Means(o)' = Means(o)
        <5>1. \A s \in Streams : o = <<"child", s>> \/ o = <<"parent", s>> => Means(o)' = Means(o)
          BY <1>1 DEF Means
        <5>2. \A f \in Files : o = <<"stdio", f>> => Means(o)' = Means(o)
          BY DEF Means
        <5> QED BY <4>3, <5>1, <5>2, OwnerNames
      <4> HIDE DEF from
      <4> QED BY <3>1, <4>1, <4>4
    <3> QED BY <3>2, <3>3, <3>4
  <2> QED BY <1>7, <2>2, <2>3, <2>4, <2>5 DEF Contents
<1>11. Contents'
  BY <1>10 DEF Contents
<1>12. Owners'
  BY <1>7, <1>9 DEF Owners
<1> QED BY <1>5, <1>7, <1>11, <1>12 DEF IInv

\* The Command is dropped.
LEMMA DropCommandKeeps ==
  ASSUME IInv, DropCommand
  PROVE  IInv'
<1> DEFINE D == {"child", "parent"} \X Streams
<1> DEFINE from == [o \in Owner |-> o]
<1>1. /\ fd' = Without({inner[s][2] : s \in Streams} \cup {handle[s] : s \in Streams}, fd)
      /\ inner' = NewInner /\ handle' = NoHandle /\ asked' = NewAsked
      /\ UNCHANGED <<procs, pipes, opened, stdio, uses>>
  BY DEF DropCommand, stdioVars
<1>2. /\ \A s \in Streams : inner'[s] = <<"inherit", None>> /\ handle'[s] = None
      /\ fd' \in [Numbers -> Things(Open) \cup {Closed}]
      /\ \A n \in Numbers :
           fd'[n] = IF \E s \in Streams : n = inner[s][2] \/ n = handle[s] THEN Closed ELSE fd[n]
  BY <1>1, WithoutType DEF IInv, TypeOK, NewInner, NoHandle
<1>3. TypeOK'
  <2>1. NewInner \in [Streams -> {"null", "inherit", "fd"} \X Held] /\ NoHandle \in [Streams -> Held]
    BY DEF NewInner, NoHandle, Held
  <2>2. NewAsked \in [Streams -> Things(Open \cup {"null", "inherit", "default"})]
    BY StdioAssumption DEF NewAsked, Things, None
  <2> QED BY <1>1, <1>2, <2>1, <2>2 DEF IInv, TypeOK
<1>4. Shapes' /\ (Copied' <=> Copied)
  BY <1>1, <1>2 DEF IInv, Shapes, Copied
<1>5. \A o \in Owner : Holds(o)' = IF o \in D THEN None ELSE Holds(o)
  BY <1>1, <1>2, OwnerNames DEF Holds
<1>6. ASSUME ~Copied
      PROVE  Owners' /\ \A o \in Owner : Holds(o)' # None => Holds(o) # None /\ fd'[Holds(o)'] = fd[Holds(o)]
  <2>1. D \subseteq Owner /\ from \in [Owner -> Owner] /\ \A o \in Owner : from[o] = o
    BY DEF Owner
  <2>2. \A n \in Numbers : fd'[n] = IF \E d \in D : Holds(d) = n THEN Closed ELSE fd[n]
    <3>1. \A s \in Streams : /\ <<"child", s>> \in D /\ Holds(<<"child", s>>) = inner[s][2]
                             /\ <<"parent", s>> \in D /\ Holds(<<"parent", s>>) = handle[s]
      BY DEF Holds
    <3>2. \A d \in D : \E s \in Streams : d = <<"child", s>> \/ d = <<"parent", s>>
      OBVIOUS
    <3> HIDE DEF D
    <3>3. ASSUME NEW n \in Numbers
          PROVE  (\E d \in D : Holds(d) = n) <=> \E s \in Streams : n = inner[s][2] \/ n = handle[s]
      <4>1. ASSUME NEW d \in D, Holds(d) = n PROVE \E s \in Streams : n = inner[s][2] \/ n = handle[s]
        BY <3>1, <3>2, <4>1
      <4>2. ASSUME NEW s \in Streams, n = inner[s][2] \/ n = handle[s] PROVE \E d \in D : Holds(d) = n
        BY <3>1, <4>2
      <4> QED BY <4>1, <4>2
    <3> QED BY <1>2, <3>3
  <2>3. Passes(D, {}, from, fd)
    <3> HIDE DEF D, from
    <3> QED BY <1>5, <2>1, <2>2 DEF Passes
  <2> HIDE DEF D, from
  <2> QED BY <1>6, <2>1, <2>3, Passed DEF IInv
<1>7. ASSUME AsInTests, ~Copied, NEW o \in Owner, Holds(o)' # None PROVE fd'[Holds(o)'] = Means(o)'
  <2>1. o \notin D
    BY <1>5, <1>7
  <2>2. Means(o)' = Means(o)
    BY <1>1, <2>1, OwnerNames DEF Means
  <2> QED BY <1>6, <1>7, <2>2 DEF IInv, Contents
<1>8. Contents'
  BY <1>1, <1>2, <1>4, <1>7 DEF IInv, Contents, Streams
<1>9. Owners'
  BY <1>4, <1>6 DEF Owners
<1> QED BY <1>3, <1>4, <1>8, <1>9 DEF IInv

\* A Process is dropped.
LEMMA DropProcessKeeps ==
  ASSUME IInv, DropProcess
  PROVE  IInv'
<1>1. PICK k \in DOMAIN procs : /\ fd' = Without({procs[k].out, procs[k].err}, fd)
                                /\ procs' = [procs EXCEPT ![k] = Gone]
  BY DEF DropProcess
<1> DEFINE D == {<<"out", k>>, <<"err", k>>}
<1> DEFINE from == [o \in Owner |-> o]
<1>2. UNCHANGED <<inner, handle, asked, pipes, opened, stdio, uses>>
  BY DEF DropProcess, cmdVars, stdioVars
<1>3. /\ fd' \in [Numbers -> Things(Open) \cup {Closed}]
      /\ \A n \in Numbers : fd'[n] = IF n = procs[k].out \/ n = procs[k].err THEN Closed ELSE fd[n]
  BY <1>1, WithoutType DEF IInv, TypeOK
<1>4. Gone \in Processes /\ Gone.out = None /\ Gone.err = None
  BY StdioAssumption DEF Gone, Processes, Things, Held, None
<1>5. /\ procs' \in Seq(Processes) /\ Len(procs') = Len(procs) /\ DOMAIN procs' = DOMAIN procs
      /\ k \in 1..MaxSpawns
      /\ procs'[k] = Gone /\ \A j \in DOMAIN procs \ {k} : procs'[j] = procs[j]
  BY <1>1, <1>4, ExceptSeq, StdioAssumption DEF IInv, TypeOK
<1>6. TypeOK'
  BY <1>2, <1>3, <1>5 DEF IInv, TypeOK
<1>7. Shapes' /\ (Copied' <=> Copied)
  BY <1>2 DEF IInv, Shapes, Copied
<1>8. \A o \in Owner : Holds(o)' = IF o \in D THEN None ELSE Holds(o)
  BY <1>2, <1>4, <1>5, OwnerNames DEF Holds
<1>9. ASSUME ~Copied
      PROVE  Owners' /\ \A o \in Owner : Holds(o)' # None => Holds(o) # None /\ fd'[Holds(o)'] = fd[Holds(o)]
  <2>1. D \subseteq Owner /\ from \in [Owner -> Owner] /\ \A o \in Owner : from[o] = o
    BY <1>5, OwnerNames
  <2>2. \A n \in Numbers : fd'[n] = IF \E d \in D : Holds(d) = n THEN Closed ELSE fd[n]
    <3>1. Holds(<<"out", k>>) = procs[k].out /\ Holds(<<"err", k>>) = procs[k].err
      BY DEF Holds
    <3> QED BY <1>3, <3>1
  <2>3. Passes(D, {}, from, fd)
    <3> HIDE DEF D, from
    <3> QED BY <1>8, <2>1, <2>2 DEF Passes
  <2> HIDE DEF D, from
  <2> QED BY <1>9, <2>1, <2>3, Passed DEF IInv
<1>10. ASSUME AsInTests, ~Copied, NEW o \in Owner, Holds(o)' # None PROVE fd'[Holds(o)'] = Means(o)'
  <2>1. o \notin D
    BY <1>8, <1>10
  <2>2. ASSUME NEW j \in 1..MaxSpawns, o = <<"out", j>> \/ o = <<"err", j>> PROVE Means(o)' = Means(o)
    <3>1. j \in DOMAIN procs
      BY <1>5, <1>10, <2>2 DEF Holds
    <3> QED BY <1>5, <2>1, <2>2, <3>1 DEF Means
  <2>3. Means(o)' = Means(o)
    <3>1. \A s \in Streams : o = <<"child", s>> \/ o = <<"parent", s>> => Means(o)' = Means(o)
      BY <1>2 DEF Means
    <3>2. \A f \in Files : o = <<"stdio", f>> => Means(o)' = Means(o)
      BY DEF Means
    <3> QED BY <2>2, <3>1, <3>2, OwnerNames
  <2> QED BY <1>9, <1>10, <2>3 DEF IInv, Contents
<1>11. Contents'
  BY <1>2, <1>4, <1>5, <1>7, <1>10 DEF IInv, Contents
<1>12. Owners'
  BY <1>7, <1>9 DEF Owners
<1> QED BY <1>6, <1>7, <1>11, <1>12 DEF IInv

-----------------------------------------------------------------------------
(* The theorems.                                                           *)

\* At first nothing is open and nothing owned.
THEOREM InitIInv == Init => IInv
<1> SUFFICES ASSUME Init PROVE IInv
  OBVIOUS
<1> USE DEF Init
<1>1. TypeOK
  BY StdioAssumption DEF TypeOK, NewInner, NewAsked, NoHandle, Things, Held, Processes, None
<1>2. \A s \in Streams : inner[s] = <<"inherit", None>> /\ handle[s] = None
  BY DEF NewInner, NoHandle
<1>3. Shapes
  BY <1>2 DEF Shapes
<1>4. \A o \in Owner : Holds(o) = None
  BY <1>2, OwnerNames DEF Holds
<1>5. Owners /\ Contents
  BY <1>2, <1>4 DEF Owners, Contents, Streams
<1> QED BY <1>1, <1>3, <1>5 DEF IInv

\* Every step keeps the invariant.
THEOREM NextIInv == IInv /\ [Next]_vars => IInv'
<1> SUFFICES ASSUME IInv, [Next]_vars PROVE IInv'
  OBVIOUS
<1>1. CASE FromFile
  BY <1>1, FromFileKeeps
<1>2. ASSUME NEW s \in Streams, InTurn(s),
             Piped(s) \/ FromFd(s) \/ Plain(s, IF s = "stdin" THEN "stdout" ELSE s)
      PROVE  IInv'
  <2>1. CASE Piped(s)
    BY <1>2, <2>1, PipedKeeps
  <2>2. CASE FromFd(s)
    BY <1>2, <2>2, FromFdKeeps
  <2>3. CASE Plain(s, IF s = "stdin" THEN "stdout" ELSE s)
    <3>1. (IF s = "stdin" THEN "stdout" ELSE s) \in Streams
      BY DEF Streams
    <3> QED BY <1>2, <2>3, <3>1, PlainKeeps
  <2> QED BY <1>2, <2>1, <2>2, <2>3
<1>3. CASE Stdin
  BY <1>2, <1>3 DEF Stdin, Streams
<1>4. CASE OutStream("stdout") \/ OutStream("stderr")
  BY <1>2, <1>4 DEF OutStream, Streams
<1>5. CASE Spawn
  BY <1>5, SpawnKeeps
<1>6. CASE DropCommand
  BY <1>6, DropCommandKeeps
<1>7. CASE DropProcess
  BY <1>7, DropProcessKeeps
<1>8. CASE UNCHANGED vars
  <2>1. UNCHANGED <<inner, handle, asked, procs, fd, pipes, opened, stdio, uses>>
    BY <1>8 DEF vars, cmdVars, stdioVars
  <2>2. TypeOK' /\ Shapes' /\ (Copied' <=> Copied)
    BY <2>1 DEF IInv, TypeOK, Shapes, Copied
  <2>3. \A o : Holds(o)' = Holds(o) /\ Means(o)' = Means(o)
    BY <2>1 DEF Holds, Means
  <2> QED BY <2>1, <2>2, <2>3 DEF IInv, Owners, Contents
<1> QED BY <1>1, <1>3, <1>4, <1>5, <1>6, <1>7, <1>8 DEF Next

\* Every number that is owned is open, and has one owner and is what that takes it for, in
\* every reachable state without a copied Stdio.
THEOREM Invariant == Spec => []IInv
BY InitIInv, NextIInv, PTL DEF Spec

\* All states have the types TypeOK gives them, however many pipes, processes and files there
\* are and however often their numbers are reused.
THEOREM TypeCorrect == Spec => []TypeOK
<1>1. IInv => TypeOK
  BY DEF IInv
<1> QED BY <1>1, Invariant, PTL

\* With the streams configured as the tests do, a reader that a Process has is the other end of
\* the pipe its own child writes to, in any number of processes and through every reuse of a
\* descriptor number, unless a Stdio was copied (Process::new, process.rs).
THEOREM ProcessReadsItsChild ==
  ASSUME AsInTests
  PROVE  Spec => []ReadsItsOwnChild
<1>1. ASSUME IInv PROVE ReadsItsOwnChild
  <2> SUFFICES ASSUME ~Copied, NEW k \in DOMAIN procs
               PROVE  /\ ReadsFrom(procs[k].out, procs[k].std["stdout"])
                      /\ ReadsFrom(procs[k].err, procs[k].std["stderr"])
    BY DEF ReadsItsOwnChild
  <2>1. k \in 1..MaxSpawns
    BY <1>1, StdioAssumption DEF IInv, TypeOK
  <2>2. /\ <<"out", k>> \in Owner /\ Holds(<<"out", k>>) = procs[k].out
        /\ Means(<<"out", k>>) = Other(procs[k].std["stdout"])
        /\ <<"err", k>> \in Owner /\ Holds(<<"err", k>>) = procs[k].err
        /\ Means(<<"err", k>>) = Other(procs[k].std["stderr"])
    BY <2>1, OwnerNames DEF Holds, Means
  <2> QED BY <1>1, <2>2 DEF IInv, Contents, ReadsFrom
<1> QED BY <1>1, Invariant, PTL

\* What a Command owns is open and is the files it was given and both ends of its pipes, until
\* a Stdio is copied (Stdio::from_file and into, process.rs).
THEOREM CommandOwnsItsStreams ==
  ASSUME AsInTests
  PROVE  Spec => []OwnsItsStreams
<1>1. ASSUME IInv PROVE OwnsItsStreams
  <2> SUFFICES ASSUME ~Copied, NEW s \in Streams
               PROVE  /\ inner[s][1] = "fd" => fd[inner[s][2]] = asked[s]
                      /\ handle[s] # None => fd[handle[s]] = Other(asked[s])
    BY DEF OwnsItsStreams
  <2>1. /\ <<"child", s>> \in Owner /\ Holds(<<"child", s>>) = inner[s][2]
        /\ Means(<<"child", s>>) = asked[s]
        /\ <<"parent", s>> \in Owner /\ Holds(<<"parent", s>>) = handle[s]
        /\ Means(<<"parent", s>>) = Other(asked[s])
    BY OwnerNames DEF Holds, Means
  <2> QED BY <1>1, <2>1 DEF IInv, Shapes, Contents
<1> QED BY <1>1, Invariant, PTL

\* However the streams are configured, in whatever order and however often, a number that is
\* owned is open and has one owner, until a Stdio is copied (Stdio::into, process.rs).
THEOREM NumbersHaveOneOwner == Spec => []Owners
<1>1. IInv => Owners
  BY DEF IInv
<1> QED BY <1>1, Invariant, PTL

=============================================================================
