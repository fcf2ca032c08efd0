--------------------------- MODULE NodeTreeProofs ---------------------------
(***************************************************************************)
(* Nodes of the tree live exactly as long as they are owned, and a         *)
(* traversal shows its visitor every node in order and none twice, for any *)
(* number of nodes and of handles.                                         *)
(*                                                                         *)
(* AliveIffOwned is not inductive: it does not say how much owns a node.   *)
(* Counted says that the strong count is the number of owners; for a step  *)
(* to keep that, no list, queue or drop may hold a node twice.  That the   *)
(* children cloned into the queue are not in it yet is a fact of the       *)
(* traversal: what waits there was listed by a node visited before.        *)
(***************************************************************************)
EXTENDS NodeTree, SequenceTheorems, WellFoundedInduction, TLAPS

\* Who owns a node besides the handles of the caller.
Falls(n)  == \E i \in DOMAIN falling : falling[i] = n
Waits(n)  == \E i \in DOMAIN queue : queue[i][2] = n
Here(n)   == at # <<>> /\ at[2] = n
Listed(n) ==
  parent[n] # 0 /\ \E i \in DOMAIN children[parent[n]] : children[parent[n]][i] = n

Ind(b) == IF b THEN 1 ELSE 0

\* Nodes are older than their children, and those to come are nowhere yet.
Ages ==
  /\ \A n \in Nodes : parent[n] < n
  /\ \A n \in Nodes : n > made => strong[n] = 0 /\ parent[n] = 0
  /\ \A i \in DOMAIN seen : seen[i][2] <= made

\* A list names children of its node, each once, and goes with it.
Lists ==
  \A p \in Nodes :
    /\ children[p] # <<>> => strong[p] > 0
    /\ \A i \in DOMAIN children[p] : parent[children[p][i]] = p
    /\ \A i, j \in DOMAIN children[p] : children[p][i] = children[p][j] => i = j

\* The strong count is the number of owners.
Counted ==
  \A n \in Nodes :
    strong[n] = handles[n] + Ind(Falls(n)) + Ind(Waits(n)) + Ind(Here(n)) + Ind(Listed(n))

\* The handles of a list that is dropped are the only ones of their nodes in the tree.
Drops ==
  /\ \A i, j \in DOMAIN falling : falling[i] = falling[j] => i = j
  /\ Len(falling) > 1 => \A n \in Nodes : ~Falls(n) \/ ~Listed(n)

OwnInv == TypeOK /\ Ages /\ Lists /\ Counted /\ Drops

\* The phases of a traversal.
Phases ==
  /\ mode \notin {"level", "in", "walk"} => queue = <<>>
  /\ mode \in {"none", "done", "walked"} => at = <<>>
  /\ mode = "walk" =>
       seen # <<>> /\ Len(queue) <= 1 /\ (at = <<>> => queue = <<seen[Len(seen)]>>)
  /\ mode = "none" => seen = <<>>
  /\ at # <<>> => seen # <<>> /\ at = seen[Len(seen)]

\* What was visited: nothing twice, and after the root only nodes whose parents came before.
Visited ==
  /\ \A i, j \in DOMAIN seen : seen[i][2] = seen[j][2] => i = j
  /\ mode \in {"level", "in"} => \A i \in DOMAIN seen :
       /\ seen[i][2] >= seen[1][2]
       /\ i # 1 => \E j \in 1..(i - 1) :
            seen[j][1] + 1 = seen[i][1] /\ seen[j][2] = parent[seen[i][2]]
  /\ mode = "walk" => \A i \in DOMAIN seen \ {1} : parent[seen[i - 1][2]] = seen[i][2]
  /\ mode = "walk" => \A i, j \in DOMAIN seen : i < j => seen[j][2] < seen[i][2]

\* What waits: the root, or children of visited nodes, none of them visited or there twice.
Waiting ==
  /\ \A i, j \in DOMAIN queue : queue[i][2] = queue[j][2] => i = j
  /\ seen = <<>> => Len(queue) <= 1
  /\ mode \in {"level", "in"} => \A q \in DOMAIN queue :
       /\ \A i \in DOMAIN seen : seen[i][2] # queue[q][2]
       /\ seen # <<>> => \E j \in DOMAIN seen :
            /\ seen[j][1] + 1 = queue[q][1] /\ seen[j][2] = parent[queue[q][2]]
            /\ at # <<>> => j # Len(seen)

\* The levels of what was visited and of what waits.
Levels ==
  /\ \A q, r \in DOMAIN queue : q < r => queue[q][1] <= queue[r][1]
  /\ mode = "level" =>
       /\ \A i, j \in DOMAIN seen : i < j => seen[i][1] <= seen[j][1]
       /\ \A i \in DOMAIN seen, q \in DOMAIN queue : seen[i][1] <= queue[q][1]
       /\ seen # <<>> => \A q \in DOMAIN queue : queue[q][1] <= seen[Len(seen)][1] + 1
  /\ mode = "in" =>
       /\ at # <<>> => \A q \in DOMAIN queue : queue[q][1] <= at[1]
       /\ \A i, j \in DOMAIN seen : j < i /\ seen[j][2] = parent[seen[i][2]] =>
            \A k \in (j + 1)..(i - 1) : seen[k][1] > seen[j][1]
       /\ \A q \in DOMAIN queue, j \in DOMAIN seen : seen[j][2] = parent[queue[q][2]] =>
            \A k \in (j + 1)..Len(seen) : seen[k][1] > seen[j][1]

\* What the root had under it is visited, or under what waits or is being visited.
Ahead == {n \in Nodes : Waits(n) \/ Here(n)}

Covered ==
  /\ mode \in {"level", "in"} => todo \subseteq Occurs(seen) \cup Below(Ahead)
  /\ mode \notin {"level", "in"} => todo \subseteq Occurs(seen)

TripInv == Phases /\ Visited /\ Waiting /\ Levels /\ Covered

IInv == OwnInv /\ TripInv

\* A walk is over where there is no parent. It stays so: the caller, who could bring nodes to
\* life or drop them, comes after the walk.
WalkedOut == mode = "walked" => seen # <<>> /\ ~HasParent(seen[Len(seen)][2])

-----------------------------------------------------------------------------
(* Facts about sequences, nodes and what the variables hold.               *)

\* A node is its number in the order of creation.
LEMMA NodeFacts ==
  ASSUME NEW n
  PROVE  n \in Nodes <=> n \in Nat /\ 1 <= n /\ n <= MaxNodes
BY TreeAssumption DEF Nodes

\* DOMAIN and elements of a sequence that the code appends to.
LEMMA Appended ==
  ASSUME NEW S, NEW s \in Seq(S), NEW e \in S
  PROVE  /\ Append(s, e) \in Seq(S) /\ Append(s, e) # <<>>
         /\ Len(Append(s, e)) = Len(s) + 1
         /\ DOMAIN Append(s, e) = DOMAIN s \cup {Len(s) + 1}
         /\ DOMAIN s = 1..Len(s) /\ Len(s) \in Nat /\ Len(s) + 1 \notin DOMAIN s
         /\ \A i \in DOMAIN s : Append(s, e)[i] = s[i]
         /\ Append(s, e)[Len(s) + 1] = e
BY AppendProperties, Z3

\* What each variable holds, taken apart.
LEMMA Types ==
  ASSUME TypeOK
  PROVE  /\ made \in Nat /\ made <= MaxNodes
         /\ \A n \in Nodes :
              /\ parent[n] \in Nat /\ (parent[n] # 0 => parent[n] \in Nodes)
              /\ strong[n] \in Nat /\ handles[n] \in Nat
              /\ children[n] \in Seq(Nodes)
              /\ \A i \in DOMAIN children[n] : children[n][i] \in Nodes
         /\ falling \in Seq(Nodes) /\ \A i \in DOMAIN falling : falling[i] \in Nodes
         /\ queue \in Seq(Entries)
         /\ \A i \in DOMAIN queue : queue[i] \in Entries /\ queue[i][1] \in Nat /\ queue[i][2] \in Nodes
         /\ seen \in Seq(Entries)
         /\ \A i \in DOMAIN seen : seen[i] \in Entries /\ seen[i][1] \in Nat /\ seen[i][2] \in Nodes
         /\ at # <<>> => at \in Entries /\ at[1] \in Nat /\ at[2] \in Nodes
<1>1. /\ made \in 0..MaxNodes /\ parent \in [Nodes -> 0..MaxNodes]
      /\ children \in [Nodes -> Seq(Nodes)] /\ strong \in [Nodes -> Nat]
      /\ handles \in [Nodes -> 0..MaxHandles] /\ falling \in Seq(Nodes)
      /\ queue \in Seq(Entries) /\ seen \in Seq(Entries) /\ at \in Entries \cup {<<>>}
  BY DEF TypeOK
<1>2. made \in Nat /\ made <= MaxNodes
  BY <1>1, TreeAssumption
<1>3. ASSUME NEW n \in Nodes
      PROVE  /\ parent[n] \in Nat /\ (parent[n] # 0 => parent[n] \in Nodes)
             /\ strong[n] \in Nat /\ handles[n] \in Nat
             /\ children[n] \in Seq(Nodes)
  <2>1. \A k \in 0..MaxNodes : k \in Nat /\ (k # 0 => k \in Nodes)
    BY TreeAssumption DEF Nodes
  <2>2. \A k \in 0..MaxHandles : k \in Nat
    OBVIOUS
  <2>3. parent[n] \in 0..MaxNodes /\ strong[n] \in Nat /\ handles[n] \in 0..MaxHandles
    BY <1>1
  <2>4. children[n] \in Seq(Nodes)
    BY <1>1
  <2> QED BY <2>1, <2>2, <2>3, <2>4
<1>4. \A S : \A s \in Seq(S) : \A i \in DOMAIN s : s[i] \in S
  BY ElementOfSeq
<1>5. \A e \in Entries : e[1] \in Nat /\ e[2] \in Nodes
  BY DEF Entries
<1>6. \A n \in Nodes : \A i \in DOMAIN children[n] : children[n][i] \in Nodes
  BY <1>3, <1>4
<1>7. /\ \A i \in DOMAIN falling : falling[i] \in Nodes
      /\ \A i \in DOMAIN queue : queue[i] \in Entries
      /\ \A i \in DOMAIN seen : seen[i] \in Entries
  BY <1>1, <1>4
<1> QED BY <1>1, <1>2, <1>3, <1>5, <1>6, <1>7

\* What the count says of a node: owners keep it alive, and without any it is gone.
LEMMA Owners ==
  ASSUME OwnInv, NEW n \in Nodes
  PROVE  /\ strong[n] > 0 <=> handles[n] > 0 \/ Falls(n) \/ Waits(n) \/ Here(n) \/ Listed(n)
         /\ strong[n] > 0 => n <= made
         /\ n > made => handles[n] = 0 /\ children[n] = <<>>
<1>1. strong[n] = handles[n] + Ind(Falls(n)) + Ind(Waits(n)) + Ind(Here(n)) + Ind(Listed(n))
  BY DEF OwnInv, Counted
<1>2. n > made => strong[n] = 0
  BY DEF OwnInv, Ages
<1>3. children[n] # <<>> => strong[n] > 0
  BY DEF OwnInv, Lists
<1>4. strong[n] \in Nat /\ handles[n] \in Nat /\ made \in Nat /\ n \in Nat
  BY Types, NodeFacts DEF OwnInv
<1>5. strong[n] > 0 <=> handles[n] > 0 \/ Falls(n) \/ Waits(n) \/ Here(n) \/ Listed(n)
  BY <1>1, <1>4 DEF Ind
<1> QED BY <1>2, <1>3, <1>4, <1>5

-----------------------------------------------------------------------------
\* Before the first node, nothing is owned.
LEMMA InitOwn == Init => OwnInv
<1> SUFFICES ASSUME Init PROVE OwnInv
  OBVIOUS
<1>1. /\ made = 0 /\ parent = [n \in Nodes |-> 0] /\ children = [n \in Nodes |-> <<>>]
      /\ strong = [n \in Nodes |-> 0] /\ handles = [n \in Nodes |-> 0]
      /\ falling = <<>> /\ queue = <<>> /\ seen = <<>> /\ at = <<>>
  BY DEF Init
<1>2. TypeOK
  <2>1. 0 \in 0..MaxNodes /\ 0 \in 0..MaxHandles
    BY TreeAssumption
  <2>2. <<>> \in Seq(Nodes) /\ <<>> \in Seq(Entries)
    OBVIOUS
  <2>3. children \in [Nodes -> Seq(Nodes)]
    BY <1>1, <2>2
  <2>4. parent \in [Nodes -> 0..MaxNodes] /\ handles \in [Nodes -> 0..MaxHandles] /\ strong \in [Nodes -> Nat]
    BY <1>1, <2>1
  <2> QED BY <1>1, <2>1, <2>2, <2>3, <2>4 DEF Init, TypeOK
<1>3. \A n \in Nodes : n \in Nat /\ 1 <= n
  BY NodeFacts
<1>4. Ages
  BY <1>1, <1>3 DEF Ages
<1>5. Lists
  BY <1>1 DEF Lists
<1>6. Counted
  <2> SUFFICES ASSUME NEW n \in Nodes
               PROVE  strong[n] = handles[n] + Ind(Falls(n)) + Ind(Waits(n))
                        + Ind(Here(n)) + Ind(Listed(n))
    BY DEF Counted
  <2>1. ~Falls(n) /\ ~Waits(n) /\ ~Here(n) /\ ~Listed(n)
    BY <1>1 DEF Falls, Waits, Here, Listed
  <2> QED BY <1>1, <2>1 DEF Ind
<1>7. Drops
  BY <1>1 DEF Drops
<1> QED BY <1>2, <1>4, <1>5, <1>6, <1>7 DEF OwnInv

-----------------------------------------------------------------------------
(* Steps of the caller.                                                    *)

\* A traversal that rests depends on the tree alone: on who the parents are of what is
\* visited or waits, and on what is under what waits.
LEMMA TripKept ==
  ASSUME IInv, UNCHANGED trip,
         \A n \in Nodes : strong[n] > 0 \/ n <= made => parent'[n] = parent[n],
         Below(Ahead) \subseteq Below(Ahead)'
  PROVE  TripInv'
<1>1. mode' = mode /\ queue' = queue /\ at' = at /\ seen' = seen /\ todo' = todo
  BY DEF trip
<1>2. \A i \in DOMAIN seen : parent'[seen[i][2]] = parent[seen[i][2]]
  BY Types DEF IInv, OwnInv, Ages
<1>3. \A q \in DOMAIN queue : parent'[queue[q][2]] = parent[queue[q][2]]
  <2> SUFFICES ASSUME NEW q \in DOMAIN queue PROVE parent'[queue[q][2]] = parent[queue[q][2]]
    OBVIOUS
  <2>1. queue[q][2] \in Nodes /\ Waits(queue[q][2])
    BY Types DEF IInv, OwnInv, Waits
  <2> QED BY <2>1, Owners DEF IInv
<1>4. Phases'
  BY <1>1 DEF IInv, TripInv, Phases
<1>5. Visited'
  <2>1. \A i \in DOMAIN seen \ {1} : i - 1 \in DOMAIN seen
    BY Types, LenProperties DEF IInv, OwnInv
  <2> QED BY <1>1, <1>2, <2>1 DEF IInv, TripInv, Visited
<1>6. Waiting'
  BY <1>1, <1>3 DEF IInv, TripInv, Waiting
<1>7. Levels'
  BY <1>1, <1>2, <1>3 DEF IInv, TripInv, Levels
<1>8. Covered'
  BY <1>1 DEF IInv, TripInv, Covered, Occurs
<1> QED BY <1>4, <1>5, <1>6, <1>7, <1>8 DEF TripInv

\* When no node gets other children, the same is under everything that waits.
LEMMA SameBelow ==
  ASSUME UNCHANGED <<children, queue, at>>
  PROVE  Below(Ahead) \subseteq Below(Ahead)'
BY DEF Below, Ahead, Kids, Waits, Here

\* Steps that touch no node.
LEMMA Untouched ==
  ASSUME IInv, UNCHANGED <<tree, strong, handles, falling, trip>>,
         field' \in 0..MaxNodes, halted' \in {"no", "panic", "outgrown"}
  PROVE  IInv'
<1>1. /\ made' = made /\ parent' = parent /\ children' = children
      /\ queue' = queue /\ at' = at /\ seen' = seen /\ mode' = mode /\ todo' = todo
  BY DEF tree, trip
<1>2. TypeOK'
  BY <1>1 DEF IInv, OwnInv, TypeOK
<1>3. Ages' /\ Lists'
  BY <1>1 DEF IInv, OwnInv, Ages, Lists
<1>4. Counted' /\ Drops'
  <2>1. \A n \in Nodes : /\ Falls(n)' = Falls(n) /\ Waits(n)' = Waits(n)
                         /\ Here(n)' = Here(n) /\ Listed(n)' = Listed(n)
    BY <1>1 DEF Falls, Waits, Here, Listed
  <2>2. Counted'
    BY <1>1, <2>1 DEF IInv, OwnInv, Counted
  <2>3. Drops'
    BY <1>1, <2>1, Types DEF IInv, OwnInv, Drops
  <2> QED BY <2>2, <2>3
<1>5. TripInv'
  BY <1>1, TripKept, SameBelow
<1> QED BY <1>2, <1>3, <1>4, <1>5 DEF IInv, OwnInv

\* Node::new and add_child make a node that nobody has yet.
LEMMA Unborn ==
  ASSUME IInv, made < MaxNodes, NEW c, c = made + 1
  PROVE  /\ c \in Nodes /\ c \in Nat /\ c > made
         /\ strong[c] = 0 /\ handles[c] = 0 /\ parent[c] = 0 /\ children[c] = <<>>
         /\ ~Falls(c) /\ ~Waits(c) /\ ~Here(c) /\ ~Listed(c)
         /\ \A n \in Nodes : c \notin Kids(n)
<1>1. c \in Nodes /\ c \in Nat /\ c > made
  BY Types, NodeFacts, TreeAssumption DEF IInv, OwnInv
<1>2. strong[c] = 0 /\ handles[c] = 0 /\ parent[c] = 0 /\ children[c] = <<>>
  BY <1>1, Owners DEF IInv, OwnInv, Ages
<1>3. ~Falls(c) /\ ~Waits(c) /\ ~Here(c) /\ ~Listed(c)
  BY <1>1, <1>2, Owners DEF IInv
<1>4. \A n \in Nodes : c \notin Kids(n)
  <2> SUFFICES ASSUME NEW n \in Nodes, NEW i \in DOMAIN children[n], c = children[n][i] PROVE FALSE
    BY DEF Kids
  <2>1. parent[c] = n
    BY DEF IInv, OwnInv, Lists
  <2> QED BY <2>1, <1>2, NodeFacts
<1> QED BY <1>1, <1>2, <1>3, <1>4

\* Any handle that the caller can name keeps its node alive.
LEMMA HasAlive ==
  ASSUME IInv, NEW n \in Nodes, Has(n)
  PROVE  strong[n] > 0 /\ n <= made
BY Owners DEF IInv, Has, Here

\* Node::new: the handle it returns is the only owner, whatever parent it names.
LEMMA NewKeeps ==
  ASSUME IInv, NEW p \in 0..MaxNodes, New(p)
  PROVE  IInv'
<1> PICK c : c = made + 1
  OBVIOUS
<1>0. /\ Calling /\ made < MaxNodes /\ (p # 0 => Has(p))
      /\ made' = c /\ parent' = [parent EXCEPT ![c] = p]
      /\ handles[c] < MaxHandles /\ handles' = [handles EXCEPT ![c] = @ + 1]
      /\ strong' = [strong EXCEPT ![c] = 1]
      /\ UNCHANGED <<children, field, falling, trip, halted>>
  BY DEF New, Gains
<1>1. /\ c \in Nodes /\ c \in Nat /\ c > made
      /\ strong[c] = 0 /\ handles[c] = 0 /\ parent[c] = 0 /\ children[c] = <<>>
      /\ ~Falls(c) /\ ~Waits(c) /\ ~Here(c) /\ ~Listed(c)
      /\ \A n \in Nodes : c \notin Kids(n)
  BY <1>0, Unborn
<1>2. queue' = queue /\ at' = at /\ seen' = seen /\ mode' = mode /\ todo' = todo
  BY <1>0 DEF trip
<1>3. /\ handles'[c] = 1 /\ strong'[c] = 1 /\ parent'[c] = p
      /\ \A n \in Nodes \ {c} : handles'[n] = handles[n]
               /\ strong'[n] = strong[n] /\ parent'[n] = parent[n]
  BY <1>0, <1>1 DEF IInv, OwnInv, TypeOK
<1>4. p # 0 => p \in Nodes /\ p <= made
  <2> SUFFICES ASSUME p # 0 PROVE p \in Nodes /\ p <= made
    OBVIOUS
  <2>1. p \in Nodes
    BY DEF Nodes
  <2> QED BY <2>1, <1>0, HasAlive
<1>5. TypeOK'
  <2>1. c \in 0..MaxNodes /\ parent' \in [Nodes -> 0..MaxNodes] /\ strong' \in [Nodes -> Nat]
    BY <1>0, <1>1, NodeFacts DEF IInv, OwnInv, TypeOK
  <2>2. handles' \in [Nodes -> 0..MaxHandles]
    BY <1>0, <1>1, TreeAssumption DEF IInv, OwnInv, TypeOK
  <2> QED BY <1>0, <1>2, <2>1, <2>2 DEF IInv, OwnInv, TypeOK
<1>6. Ages'
  <2>1. \A n \in Nodes : parent'[n] < n
    <3>1. made \in Nat /\ p \in Nat
      BY Types, TreeAssumption DEF IInv, OwnInv
    <3>2. p < c
      BY <3>1, <1>1, <1>4
    <3> QED BY <3>2, <1>3 DEF IInv, OwnInv, Ages
  <2>2. \A n \in Nodes : n > c => strong'[n] = 0 /\ parent'[n] = 0
    BY <1>1, <1>3, <1>0, Types, NodeFacts DEF IInv, OwnInv, Ages
  <2>3. \A i \in DOMAIN seen : seen[i][2] <= c
    BY <1>1, Types, NodeFacts DEF IInv, OwnInv, Ages
  <2> QED BY <1>0, <1>2, <2>1, <2>2, <2>3 DEF Ages
<1>7. Lists'
  <2> SUFFICES ASSUME NEW q \in Nodes
               PROVE  /\ children[q] # <<>> => strong'[q] > 0
                      /\ \A i \in DOMAIN children[q] : parent'[children[q][i]] = q
                      /\ \A i, j \in DOMAIN children[q] : children[q][i] = children[q][j] => i = j
    BY <1>0 DEF Lists
  <2>1. \A i \in DOMAIN children[q] : children[q][i] \in Nodes /\ children[q][i] # c
    BY <1>1, Types DEF Kids, IInv, OwnInv
  <2> QED BY <2>1, <1>3, <1>1 DEF IInv, OwnInv, Lists
<1>8. \A n \in Nodes : Falls(n)' = Falls(n) /\ Waits(n)' = Waits(n) /\ Here(n)' = Here(n)
  BY <1>0, <1>2 DEF Falls, Waits, Here
<1>9. \A n \in Nodes : Listed(n)' <=> Listed(n)
  <2>1. \A n \in Nodes \ {c} : Listed(n)' <=> Listed(n)
    BY <1>0, <1>3 DEF Listed
  <2>2. ~Listed(c)'
    <3>1. p # 0 => ~\E i \in DOMAIN children[p] : children[p][i] = c
      BY <1>1, <1>4 DEF Kids
    <3> QED BY <3>1, <1>0, <1>3 DEF Listed
  <2> QED BY <2>1, <2>2, <1>1
<1>10. Counted'
  <2> SUFFICES ASSUME NEW n \in Nodes
               PROVE  strong'[n] = handles'[n] + Ind(Falls(n)') + Ind(Waits(n)')
                        + Ind(Here(n)') + Ind(Listed(n)')
    BY DEF Counted, Ind
  <2>1. strong[n] = handles[n] + Ind(Falls(n)) + Ind(Waits(n)) + Ind(Here(n)) + Ind(Listed(n))
    BY DEF IInv, OwnInv, Counted
  <2>2. CASE n = c
    BY <2>1, <2>2, <1>1, <1>3, <1>8, <1>9 DEF Ind
  <2>3. CASE n # c
    BY <2>1, <2>3, <1>3, <1>8, <1>9 DEF Ind
  <2> QED BY <2>2, <2>3
<1>11. Drops'
  BY <1>0, <1>8, <1>9 DEF IInv, OwnInv, Drops
<1>12. TripInv'
  <2>1. \A n \in Nodes : strong[n] > 0 \/ n <= made => parent'[n] = parent[n]
    <3>1. made \in Nat /\ ~(c <= made) /\ ~(strong[c] > 0)
      BY <1>1, Types DEF IInv, OwnInv
    <3> QED BY <3>1, <1>3
  <2>2. UNCHANGED trip
    BY <1>0
  <2>3. Below(Ahead) \subseteq Below(Ahead)'
    BY <1>0, <1>2, SameBelow
  <2> QED BY <2>1, <2>2, <2>3, TripKept
<1> QED BY <1>5, <1>6, <1>7, <1>10, <1>11, <1>12 DEF IInv, OwnInv

\* When the lists only grow, what was under a node stays under it.
LEMMA MoreBelow ==
  ASSUME UNCHANGED <<queue, at>>, \A n \in Nodes : Kids(n) \subseteq Kids(n)'
  PROVE  Below(Ahead) \subseteq Below(Ahead)'
<1>1. Ahead' = Ahead
  BY DEF Ahead, Waits, Here
<1>2. \A T \in SUBSET Nodes : (\A p \in T : Kids(p)' \subseteq T) => \A p \in T : Kids(p) \subseteq T
  OBVIOUS
<1> QED BY <1>1, <1>2 DEF Below

\* add_child: the list of the parent and the handle that is returned own the new node.
LEMMA AddChildKeeps ==
  ASSUME IInv, NEW p \in Nodes, AddChild(p)
  PROVE  IInv'
<1> PICK c : c = made + 1
  OBVIOUS
<1>0. /\ Calling /\ made < MaxNodes /\ Has(p)
      /\ made' = c /\ parent' = [parent EXCEPT ![c] = p]
      /\ children' = [children EXCEPT ![p] = Append(@, c)]
      /\ handles' = [handles EXCEPT ![c] = 1]
      /\ strong' = [strong EXCEPT ![c] = 2]
      /\ UNCHANGED <<field, falling, trip, halted>>
  BY DEF AddChild, Adds
<1>1. /\ c \in Nodes /\ c \in Nat /\ c > made
      /\ strong[c] = 0 /\ handles[c] = 0 /\ parent[c] = 0 /\ children[c] = <<>>
      /\ ~Falls(c) /\ ~Waits(c) /\ ~Here(c) /\ ~Listed(c)
      /\ \A n \in Nodes : c \notin Kids(n)
  BY <1>0, Unborn
<1>2. queue' = queue /\ at' = at /\ seen' = seen /\ mode' = mode /\ todo' = todo
  BY <1>0 DEF trip
<1>3. /\ handles'[c] = 1 /\ strong'[c] = 2 /\ parent'[c] = p
      /\ \A n \in Nodes \ {c} : handles'[n] = handles[n]
               /\ strong'[n] = strong[n] /\ parent'[n] = parent[n]
  BY <1>0, <1>1 DEF IInv, OwnInv, TypeOK
<1>4. strong[p] > 0 /\ p <= made /\ p # c
  BY <1>0, <1>1, HasAlive
<1>a. /\ children'[p] = Append(children[p], c)
      /\ \A n \in Nodes \ {p} : children'[n] = children[n]
  BY <1>0 DEF IInv, OwnInv, TypeOK
<1>b. /\ children'[p] \in Seq(Nodes) /\ children'[p] # <<>>
      /\ DOMAIN children'[p] = DOMAIN children[p] \cup {Len(children[p]) + 1}
      /\ DOMAIN children[p] = 1..Len(children[p]) /\ Len(children[p]) \in Nat
      /\ Len(children[p]) + 1 \notin DOMAIN children[p]
      /\ \A i \in DOMAIN children[p] : children'[p][i] = children[p][i]
      /\ children'[p][Len(children[p]) + 1] = c
  <2>1. children[p] \in Seq(Nodes)
    BY Types DEF IInv, OwnInv
  <2>2. /\ Append(children[p], c) \in Seq(Nodes) /\ Append(children[p], c) # <<>>
        /\ DOMAIN Append(children[p], c) = DOMAIN children[p] \cup {Len(children[p]) + 1}
        /\ DOMAIN children[p] = 1..Len(children[p]) /\ Len(children[p]) \in Nat
        /\ Len(children[p]) + 1 \notin DOMAIN children[p]
        /\ \A i \in DOMAIN children[p] : Append(children[p], c)[i] = children[p][i]
        /\ Append(children[p], c)[Len(children[p]) + 1] = c
    BY <2>1, <1>1, Appended, SMTT(30)
  <2> QED BY <1>a, <2>2, Zenon
<1>5. TypeOK'
  <2>1. c \in 0..MaxNodes /\ parent' \in [Nodes -> 0..MaxNodes] /\ strong' \in [Nodes -> Nat]
    <3>1. c \in 0..MaxNodes /\ p \in 0..MaxNodes
      BY <1>1, NodeFacts
    <3> QED BY <3>1, <1>0, <1>1 DEF IInv, OwnInv, TypeOK
  <2>2. handles' \in [Nodes -> 0..MaxHandles]
    BY <1>0, <1>1, TreeAssumption DEF IInv, OwnInv, TypeOK
  <2>3. children' \in [Nodes -> Seq(Nodes)]
    BY <1>0, <1>a, <1>b DEF IInv, OwnInv, TypeOK
  <2> QED BY <1>0, <1>2, <2>1, <2>2, <2>3 DEF IInv, OwnInv, TypeOK
<1>6. Ages'
  <2>1. \A n \in Nodes : parent'[n] < n
    <3>1. made \in Nat /\ p \in Nat
      BY NodeFacts, Types DEF IInv, OwnInv
    <3>2. p < c
      BY <3>1, <1>1, <1>4
    <3> QED BY <3>2, <1>3 DEF IInv, OwnInv, Ages
  <2>2. \A n \in Nodes : n > c => strong'[n] = 0 /\ parent'[n] = 0
    BY <1>1, <1>3, <1>0, Types, NodeFacts DEF IInv, OwnInv, Ages
  <2>3. \A i \in DOMAIN seen : seen[i][2] <= c
    BY <1>1, Types, NodeFacts DEF IInv, OwnInv, Ages
  <2> QED BY <1>0, <1>2, <2>1, <2>2, <2>3 DEF Ages
<1>d. \A q \in Nodes : \A i \in DOMAIN children[q] : children[q][i] \in Nodes /\ children[q][i] # c
  BY <1>1, Types DEF Kids, IInv, OwnInv
<1>7. Lists'
  <2> SUFFICES ASSUME NEW q \in Nodes
               PROVE  /\ children'[q] # <<>> => strong'[q] > 0
                      /\ \A i \in DOMAIN children'[q] : parent'[children'[q][i]] = q
                      /\ \A i, j \in DOMAIN children'[q] : children'[q][i] = children'[q][j] => i = j
    BY DEF Lists
  <2>1. CASE q = p
    <3>1. strong'[p] > 0
      BY <1>3, <1>4
    <3>2. /\ \A i \in DOMAIN children[p] : parent[children[p][i]] = p
          /\ \A i, j \in DOMAIN children[p] : children[p][i] = children[p][j] => i = j
      BY DEF IInv, OwnInv, Lists
    <3>3. \A i \in DOMAIN children[p] :
            /\ children'[p][i] = children[p][i] /\ children[p][i] # c
            /\ parent'[children[p][i]] = p
      BY <3>2, <1>d, <1>3, <1>b
    <3>4. \A i \in DOMAIN children'[p] : i \notin DOMAIN children[p] => children'[p][i] = c
      BY <1>b
    <3>5. \A i, j \in DOMAIN children'[p] :
            i \notin DOMAIN children[p] /\ j \notin DOMAIN children[p] => i = j
      BY <1>b
    <3>6. \A i \in DOMAIN children'[p] : parent'[children'[p][i]] = p
      BY <3>3, <3>4, <1>3
    <3>7. \A i, j \in DOMAIN children'[p] : children'[p][i] = children'[p][j] => i = j
      BY <3>2, <3>3, <3>4, <3>5
    <3> QED BY <2>1, <3>1, <3>6, <3>7
  <2>2. CASE q # p
    <3>1. children'[q] = children[q] /\ (strong[q] > 0 => strong'[q] > 0)
      BY <2>2, <1>3, <1>1, <1>a
    <3>2. /\ children[q] # <<>> => strong[q] > 0
          /\ \A i \in DOMAIN children[q] : parent[children[q][i]] = q
          /\ \A i, j \in DOMAIN children[q] : children[q][i] = children[q][j] => i = j
      BY DEF IInv, OwnInv, Lists
    <3>3. \A i \in DOMAIN children[q] : parent'[children[q][i]] = q
      BY <3>2, <1>d, <1>3
    <3> QED BY <3>1, <3>2, <3>3, Zenon
  <2> QED BY <2>1, <2>2
<1>8. \A n \in Nodes : Falls(n)' = Falls(n) /\ Waits(n)' = Waits(n) /\ Here(n)' = Here(n)
  BY <1>0, <1>2 DEF Falls, Waits, Here
<1>9. Listed(c)' /\ \A n \in Nodes \ {c} : Listed(n)' <=> Listed(n)
  <2>1. Listed(c)'
    BY <1>3, <1>b, NodeFacts DEF Listed
  <2>2. ASSUME NEW n \in Nodes \ {c} PROVE Listed(n)' <=> Listed(n)
    <3>0. parent'[n] = parent[n] /\ (parent[n] # 0 => parent[n] \in Nodes)
      BY <1>3, Types DEF IInv, OwnInv
    <3>1. CASE parent[n] # p
      BY <3>0, <3>1, <1>a DEF Listed
    <3>2. CASE parent[n] = p
      BY <3>0, <3>2, <1>b DEF Listed
    <3> QED BY <3>1, <3>2
  <2> QED BY <2>1, <2>2
<1>10. Counted'
  <2> SUFFICES ASSUME NEW n \in Nodes
               PROVE  strong'[n] = handles'[n] + Ind(Falls(n)') + Ind(Waits(n)')
                        + Ind(Here(n)') + Ind(Listed(n)')
    BY DEF Counted, Ind
  <2>1. strong[n] = handles[n] + Ind(Falls(n)) + Ind(Waits(n)) + Ind(Here(n)) + Ind(Listed(n))
    BY DEF IInv, OwnInv, Counted
  <2>2. CASE n = c
    BY <2>2, <1>1, <1>3, <1>8, <1>9 DEF Ind
  <2>3. CASE n # c
    BY <2>1, <2>3, <1>3, <1>8, <1>9 DEF Ind
  <2> QED BY <2>2, <2>3
<1>11. Drops'
  <2>1. falling' = falling /\ falling = <<>>
    BY <1>0 DEF Calling
  <2> QED BY <2>1 DEF Drops
<1>12. TripInv'
  <2>1. \A n \in Nodes : strong[n] > 0 \/ n <= made => parent'[n] = parent[n]
    <3>1. made \in Nat /\ ~(c <= made) /\ ~(strong[c] > 0)
      BY <1>1, Types DEF IInv, OwnInv
    <3> QED BY <3>1, <1>3
  <2>2. UNCHANGED trip
    BY <1>0
  <2>3. \A n \in Nodes : Kids(n) \subseteq Kids(n)'
    <3>1. \A n \in Nodes : \A i \in DOMAIN children[n] : i \in DOMAIN children'[n] /\ children'[n][i] = children[n][i]
      BY <1>a, <1>b
    <3> QED BY <3>1 DEF Kids
  <2>4. Below(Ahead) \subseteq Below(Ahead)'
    BY <1>0, <1>2, <2>3, MoreBelow
  <2> QED BY <2>1, <2>2, <2>4, TripKept
<1> QED BY <1>5, <1>6, <1>7, <1>10, <1>11, <1>12 DEF IInv, OwnInv

\* add_child panics, or goes on where the model ends.
LEMMA PanicKeeps ==
  ASSUME IInv, NEW p \in Nodes, AddChildPanics(p) \/ Outgrows(p)
  PROVE  IInv'
<1>1. field' \in 0..MaxNodes /\ halted' \in {"no", "panic", "outgrown"}
  BY DEF AddChildPanics, Outgrows, IInv, OwnInv, TypeOK
<1> QED BY <1>1, Untouched DEF AddChildPanics, Outgrows

\* children() and data(), and the end of the FieldRef they return.
LEMMA BorrowKeeps ==
  ASSUME IInv, (\E n \in Nodes : Borrow(n)) \/ Release
  PROVE  IInv'
<1>1. /\ UNCHANGED <<tree, strong, handles, falling, trip, halted>>
      /\ field' \in Nodes \cup {0}
  BY DEF Borrow, Release
<1>2. field' \in 0..MaxNodes /\ halted' \in {"no", "panic", "outgrown"}
  BY <1>1, TreeAssumption DEF Nodes, IInv, OwnInv, TypeOK
<1> QED BY <1>1, <1>2, Untouched

\* Steps that change handles and owners of one node, or of none, but neither lists nor
\* parents: what is left to show of the owners.
LEMMA OwnersKept ==
  ASSUME IInv, UNCHANGED tree, TypeOK',
         \A i \in DOMAIN seen' : seen'[i][2] <= made,
         \A n \in Nodes : n > made \/ children[n] # <<>> => (strong'[n] > 0 <=> strong[n] > 0),
         \A n \in Nodes : strong'[n] - handles'[n] - Ind(Falls(n)') - Ind(Waits(n)') - Ind(Here(n)')
                        = strong[n] - handles[n] - Ind(Falls(n)) - Ind(Waits(n)) - Ind(Here(n)),
         Len(falling') <= 1
  PROVE  OwnInv'
<1>1. made' = made /\ parent' = parent /\ children' = children
  BY DEF tree
<1>2. Ages'
  <2> SUFFICES ASSUME NEW n \in Nodes, n > made PROVE strong'[n] = 0
    BY <1>1 DEF IInv, OwnInv, Ages
  <2>1. strong[n] = 0 /\ strong'[n] \in Nat
    BY Types DEF IInv, OwnInv, Ages, TypeOK
  <2> QED BY <2>1
<1>3. Lists'
  BY <1>1 DEF IInv, OwnInv, Lists
<1>4. Counted'
  <2> SUFFICES ASSUME NEW n \in Nodes
               PROVE  strong'[n] = handles'[n] + Ind(Falls(n)') + Ind(Waits(n)')
                        + Ind(Here(n)') + Ind(Listed(n)')
    BY DEF Counted, Ind
  <2>1. strong[n] = handles[n] + Ind(Falls(n)) + Ind(Waits(n)) + Ind(Here(n)) + Ind(Listed(n))
    BY DEF IInv, OwnInv, Counted
  <2>2. Listed(n)' <=> Listed(n)
    BY <1>1 DEF Listed
  <2>3. strong'[n] \in Nat /\ strong[n] \in Nat /\ handles'[n] \in Nat /\ handles[n] \in Nat
    BY DEF IInv, OwnInv, TypeOK
  <2>4. strong'[n] - handles'[n] - Ind(Falls(n)') - Ind(Waits(n)') - Ind(Here(n)')
          = strong[n] - handles[n] - Ind(Falls(n)) - Ind(Waits(n)) - Ind(Here(n))
    OBVIOUS
  <2>6. Ind(Listed(n)') = Ind(Listed(n))
    BY <2>2 DEF Ind
  <2>7. strong[n] - handles[n] - Ind(Falls(n)) - Ind(Waits(n)) - Ind(Here(n)) = Ind(Listed(n))
    BY ONLY <2>1, <2>3 DEF Ind
  <2>8. strong'[n] - handles'[n] - Ind(Falls(n)') - Ind(Waits(n)') - Ind(Here(n)') = Ind(Listed(n))
    BY ONLY <2>4, <2>7
  <2>9. strong'[n] = handles'[n] + Ind(Falls(n)') + Ind(Waits(n)') + Ind(Here(n)') + Ind(Listed(n))
    BY ONLY <2>3, <2>8 DEF Ind
  <2> QED BY <2>6, <2>9
<1>5. Drops'
  <2>1. falling' \in Seq(Nodes)
    BY DEF TypeOK
  <2>2. \A i, j \in DOMAIN falling' : i = j
    BY <2>1, LenProperties
  <2>3. ~(Len(falling') > 1)
    BY <2>1, LenProperties
  <2> QED BY <2>2, <2>3 DEF Drops
<1> QED BY <1>2, <1>3, <1>4, <1>5 DEF OwnInv

\* A handle more (clone) and a handle less (Loses).
LEMMA OneMore ==
  ASSUME TypeOK, NEW n \in Nodes, handles[n] < MaxHandles,
         handles' = [handles EXCEPT ![n] = @ + 1]
  PROVE  /\ handles' \in [Nodes -> 0..MaxHandles]
         /\ handles'[n] = handles[n] + 1
         /\ \A m \in Nodes \ {n} : handles'[m] = handles[m]
<1>1. handles \in [Nodes -> 0..MaxHandles] /\ handles[n] + 1 \in 0..MaxHandles
  BY TreeAssumption DEF TypeOK
<1> QED BY <1>1

LEMMA OneLess ==
  ASSUME TypeOK, NEW n \in Nodes, Loses(n)
  PROVE  /\ handles' \in [Nodes -> 0..MaxHandles]
         /\ handles'[n] = handles[n] - 1
         /\ \A m \in Nodes \ {n} : handles'[m] = handles[m]
<1>1. handles[n] > 0 /\ handles' = [handles EXCEPT ![n] = @ - 1]
  BY DEF Loses
<1>2. handles \in [Nodes -> 0..MaxHandles] /\ handles[n] - 1 \in 0..MaxHandles
  BY <1>1, TreeAssumption DEF TypeOK
<1> QED BY <1>1, <1>2

\* clone(): one handle and one owner more.
LEMMA CloneKeeps ==
  ASSUME IInv, NEW n \in Nodes, Clone(n)
  PROVE  IInv'
<1>1. /\ Calling /\ strong[n] > 0 /\ handles[n] < MaxHandles
      /\ handles' = [handles EXCEPT ![n] = @ + 1]
      /\ strong' = [strong EXCEPT ![n] = strong[n] + 1]
      /\ UNCHANGED <<tree, field, falling, trip, halted>>
  BY DEF Clone, Gains
<1>2. /\ queue' = queue /\ at' = at /\ seen' = seen /\ falling' = falling /\ falling = <<>>
      /\ children' = children /\ parent' = parent /\ made' = made
  BY <1>1 DEF trip, tree, Calling
<1>3. /\ handles' \in [Nodes -> 0..MaxHandles]
      /\ handles'[n] = handles[n] + 1
      /\ \A m \in Nodes \ {n} : handles'[m] = handles[m]
  BY <1>1, OneMore DEF IInv, OwnInv
<1>4. /\ strong' \in [Nodes -> Nat] /\ strong'[n] = strong[n] + 1
      /\ \A m \in Nodes \ {n} : strong'[m] = strong[m]
  BY <1>1 DEF IInv, OwnInv, TypeOK
<1>5. TypeOK'
  BY <1>1, <1>2, <1>3, <1>4 DEF IInv, OwnInv, TypeOK, trip
<1>6. \A m \in Nodes : strong'[m] > 0 <=> strong[m] > 0
  BY <1>1, <1>4, Types DEF IInv, OwnInv
<1>7. ASSUME NEW m \in Nodes
      PROVE  strong'[m] - handles'[m] - Ind(Falls(m)') - Ind(Waits(m)') - Ind(Here(m)')
               = strong[m] - handles[m] - Ind(Falls(m)) - Ind(Waits(m)) - Ind(Here(m))
  <2>1. Falls(m)' = Falls(m) /\ Waits(m)' = Waits(m) /\ Here(m)' = Here(m)
    BY <1>2 DEF Falls, Waits, Here
  <2>2. strong'[m] - handles'[m] = strong[m] - handles[m]
    <3>1. strong[m] \in Nat /\ handles[m] \in Nat
      BY Types DEF IInv, OwnInv
    <3>2. CASE m = n
      BY <3>1, <3>2, <1>3, <1>4
    <3>3. CASE m # n
      BY <3>3, <1>3, <1>4
    <3> QED BY <3>2, <3>3
  <2> QED BY <2>1, <2>2
<1>8. OwnInv'
  <2>1. Len(falling') <= 1 /\ \A i \in DOMAIN seen' : seen'[i][2] <= made
    BY <1>2 DEF IInv, OwnInv, Ages
  <2>2. \A m \in Nodes : m > made \/ children[m] # <<>> => (strong'[m] > 0 <=> strong[m] > 0)
    BY <1>6
  <2> QED BY <1>1, <1>5, <1>7, <2>1, <2>2, OwnersKept
<1>9. TripInv'
  BY <1>1, <1>2, SameBelow, TripKept
<1> QED BY <1>8, <1>9 DEF IInv

\* A handle of the caller's is dropped: it owns the node until Rc::drop has run.
LEMMA DropHandleKeeps ==
  ASSUME IInv, NEW n \in Nodes, DropHandle(n)
  PROVE  IInv'
<1>1. /\ Calling /\ handles[n] > 0
      /\ handles' = [handles EXCEPT ![n] = @ - 1]
      /\ falling' = <<n>>
      /\ UNCHANGED <<tree, strong, field, trip, halted>>
  BY DEF DropHandle, Loses
<1>2. /\ queue' = queue /\ at' = at /\ seen' = seen /\ falling = <<>>
      /\ children' = children /\ parent' = parent /\ made' = made
  BY <1>1 DEF trip, tree, Calling
<1>3. /\ handles' \in [Nodes -> 0..MaxHandles]
      /\ handles'[n] = handles[n] - 1
      /\ \A m \in Nodes \ {n} : handles'[m] = handles[m]
  BY OneLess DEF DropHandle, IInv, OwnInv
<1>5. TypeOK'
  BY <1>1, <1>2, <1>3 DEF IInv, OwnInv, TypeOK, trip
<1>7. ASSUME NEW m \in Nodes
      PROVE  strong'[m] - handles'[m] - Ind(Falls(m)') - Ind(Waits(m)') - Ind(Here(m)')
               = strong[m] - handles[m] - Ind(Falls(m)) - Ind(Waits(m)) - Ind(Here(m))
  <2>1. Waits(m)' = Waits(m) /\ Here(m)' = Here(m) /\ ~Falls(m) /\ (Falls(m)' <=> m = n)
    BY <1>1, <1>2 DEF Falls, Waits, Here
  <2>2. strong'[m] - handles'[m] - Ind(Falls(m)') = strong[m] - handles[m] - Ind(Falls(m))
    BY <1>1, <1>3, <2>1, Types DEF IInv, OwnInv, Ind
  <2> QED BY <2>1, <2>2
<1>8. OwnInv'
  <2>1. Len(falling') <= 1 /\ \A i \in DOMAIN seen' : seen'[i][2] <= made
    BY <1>1, <1>2 DEF IInv, OwnInv, Ages
  <2>2. \A m \in Nodes : m > made \/ children[m] # <<>> => (strong'[m] > 0 <=> strong[m] > 0)
    BY <1>1
  <2> QED BY <1>1, <1>5, <1>7, <2>1, <2>2, OwnersKept
<1>9. TripInv'
  BY <1>1, <1>2, SameBelow, TripKept
<1> QED BY <1>8, <1>9 DEF IInv

-----------------------------------------------------------------------------
(* Rc::drop.                                                               *)

\* What is left when the first element goes.
LEMMA Tailed ==
  ASSUME NEW S, NEW s \in Seq(S), s # <<>>
  PROVE  /\ Tail(s) \in Seq(S) /\ Len(Tail(s)) = Len(s) - 1 /\ Len(s) \in Nat \ {0}
         /\ 1 \in DOMAIN s /\ Head(s) = s[1]
         /\ \A i \in DOMAIN Tail(s) : i \in Nat /\ i + 1 \in DOMAIN s /\ Tail(s)[i] = s[i + 1]
         /\ \A i \in DOMAIN s : i \in Nat /\ (i # 1 => i - 1 \in DOMAIN Tail(s))
<1>1. Tail(s) \in Seq(S) /\ Len(Tail(s)) = Len(s) - 1
  BY HeadTailProperties
<1>2. Len(s) \in Nat \ {0}
  BY EmptySeq
<1>3. DOMAIN s = 1..Len(s) /\ DOMAIN Tail(s) = 1..Len(Tail(s))
  BY <1>1, LenProperties
<1>4. \A i \in DOMAIN Tail(s) : Tail(s)[i] = s[i + 1]
  BY <1>3, HeadTailProperties
<1>5. Head(s) = s[1]
  OBVIOUS
<1> QED BY <1>1, <1>2, <1>3, <1>4, <1>5

\* An element of two sequences joined is one of the first or one of the second.
LEMMA Concatenated ==
  ASSUME NEW S, NEW s \in Seq(S), NEW t \in Seq(S)
  PROVE  /\ s \o t \in Seq(S) /\ Len(s \o t) = Len(s) + Len(t)
         /\ Len(s) \in Nat /\ DOMAIN s = 1..Len(s) /\ DOMAIN t = 1..Len(t)
         /\ \A i \in DOMAIN s : i \in DOMAIN (s \o t) /\ (s \o t)[i] = s[i]
         /\ \A i \in DOMAIN t : i + Len(s) \in DOMAIN (s \o t) /\ (s \o t)[i + Len(s)] = t[i]
         /\ \A i \in DOMAIN (s \o t) : i \in Nat /\ (i \notin DOMAIN s => i > Len(s) /\ i - Len(s) \in DOMAIN t)
<1>1. s \o t \in Seq(S) /\ Len(s \o t) = Len(s) + Len(t)
  BY ConcatProperties
<1>2. Len(s) \in Nat /\ Len(t) \in Nat
  BY LenProperties
<1>3. DOMAIN s = 1..Len(s) /\ DOMAIN t = 1..Len(t) /\ DOMAIN (s \o t) = 1..(Len(s) + Len(t))
  BY <1>1, LenProperties
<1>4. \A i \in 1..(Len(s) + Len(t)) : (s \o t)[i] = IF i <= Len(s) THEN s[i] ELSE t[i - Len(s)]
  BY ConcatProperties
<1>5. ASSUME NEW i \in DOMAIN s PROVE i \in DOMAIN (s \o t) /\ (s \o t)[i] = s[i]
  BY <1>2, <1>3, <1>4
<1>6. ASSUME NEW i \in DOMAIN t PROVE i + Len(s) \in DOMAIN (s \o t) /\ (s \o t)[i + Len(s)] = t[i]
  <2>1. i + Len(s) \in 1..(Len(s) + Len(t)) /\ ~(i + Len(s) <= Len(s)) /\ i + Len(s) - Len(s) = i
    BY <1>2, <1>3
  <2> QED BY <2>1, <1>3, <1>4
<1>7. ASSUME NEW i \in DOMAIN (s \o t)
      PROVE  i \in Nat /\ (i \notin DOMAIN s => i > Len(s) /\ i - Len(s) \in DOMAIN t)
  BY <1>2, <1>3
<1> QED BY <1>1, <1>2, <1>3, <1>5, <1>6, <1>7

\* A node that is not gone for the traversal keeps all it has under it.
LEMMA DeathBelow ==
  ASSUME UNCHANGED <<queue, at>>, NEW n \in Nodes,
         ~Waits(n), ~Here(n), \A p \in Nodes \ {n} : Kids(p)' = Kids(p) /\ n \notin Kids(p)
  PROVE  Below(Ahead) \subseteq Below(Ahead)'
<1>1. Ahead' = Ahead /\ n \notin Ahead /\ Ahead \subseteq Nodes
  BY DEF Ahead, Waits, Here
<1>2. SUFFICES ASSUME NEW x \in Below(Ahead), NEW T \in SUBSET Nodes,
                      Ahead \subseteq T, \A p \in T : Kids(p)' \subseteq T
               PROVE  x \in T
  BY <1>1 DEF Below
<1>3. Ahead \subseteq T \ {n} /\ T \ {n} \in SUBSET Nodes
  BY <1>1, <1>2
<1>4. \A p \in T \ {n} : Kids(p) \subseteq T \ {n}
  BY <1>2
<1> QED BY <1>3, <1>4 DEF Below

\* The owner that falls was not the last one.
LEMMA DropOne ==
  ASSUME IInv, DropStep, NEW n \in Nodes, n = Head(falling), strong[n] # 1
  PROVE  OwnInv' /\ UNCHANGED <<tree, trip>>
<1>1. /\ falling # <<>>
      /\ strong' = [strong EXCEPT ![n] = @ - 1]
      /\ UNCHANGED <<made, parent, handles, field, trip, halted>>
  BY DEF DropStep
<1>2. falling \in Seq(Nodes) /\ 1 \in DOMAIN falling /\ falling[1] = n
  BY <1>1, Tailed DEF IInv, OwnInv, TypeOK
<1>3. strong[n] \in Nat /\ strong[n] > 1
  <2>1. Falls(n)
    BY <1>2 DEF Falls
  <2> QED BY <2>1, Owners, Types DEF IInv, OwnInv
<1>4. /\ strong' \in [Nodes -> Nat] /\ strong'[n] = strong[n] - 1 /\ strong'[n] # 0
      /\ \A m \in Nodes \ {n} : strong'[m] = strong[m]
  <2>1. strong[n] - 1 \in Nat /\ strong[n] - 1 # 0 /\ strong \in [Nodes -> Nat]
    <3>1. strong \in [Nodes -> Nat]
      BY DEF IInv, OwnInv, TypeOK
    <3> QED BY <1>3, <3>1
  <2> QED BY <2>1, <1>1
<1>5. falling' = Tail(falling) /\ children' = children
  <2>1. falling' = <<>> \o Tail(falling) /\ children' = children
    BY <1>4 DEF DropStep
  <2> QED BY <2>1, <1>1, <1>2, Tailed, ConcatEmptySeq
<1>6. /\ queue' = queue /\ at' = at /\ seen' = seen /\ mode' = mode /\ todo' = todo
      /\ UNCHANGED <<tree, trip>>
  BY <1>1, <1>5 DEF trip, tree
<1>7. /\ falling' \in Seq(Nodes) /\ Len(falling') = Len(falling) - 1 /\ Len(falling) \in Nat
      /\ \A i \in DOMAIN falling' : i \in Nat /\ i + 1 \in DOMAIN falling /\ falling'[i] = falling[i + 1]
      /\ \A i \in DOMAIN falling : i \in Nat /\ (i # 1 => i - 1 \in DOMAIN falling')
  BY <1>1, <1>2, <1>5, Tailed
<1>8. TypeOK'
  BY <1>1, <1>4, <1>5, <1>6, <1>7 DEF IInv, OwnInv, TypeOK
<1>9. Ages' /\ Lists'
  BY <1>1, <1>3, <1>4, <1>5, <1>6 DEF IInv, OwnInv, Ages, Lists
<1>10. \A m \in Nodes : Waits(m)' = Waits(m) /\ Here(m)' = Here(m) /\ Listed(m)' = Listed(m)
  BY <1>1, <1>5, <1>6 DEF Waits, Here, Listed
<1>11. ASSUME NEW m \in Nodes
       PROVE  Falls(m)' <=> Falls(m) /\ m # n
  <2>1. \A i \in DOMAIN falling : falling[i] = n => i = 1
    BY <1>2 DEF IInv, OwnInv, Drops
  <2>2. ASSUME NEW i \in DOMAIN falling' PROVE falling'[i] # n /\ Falls(falling'[i])
    BY <2>1, <1>7 DEF Falls
  <2>3. ASSUME NEW i \in DOMAIN falling, i # 1
        PROVE  \E j \in DOMAIN falling' : falling'[j] = falling[i]
    <3>1. i - 1 \in DOMAIN falling' /\ i - 1 + 1 = i
      BY <2>3, <1>7
    <3> QED BY <3>1, <1>7
  <2> QED BY <2>2, <2>3, <1>2 DEF Falls
<1>12. Counted'
  <2> SUFFICES ASSUME NEW m \in Nodes
               PROVE  strong'[m] = handles'[m] + Ind(Falls(m)') + Ind(Waits(m)')
                        + Ind(Here(m)') + Ind(Listed(m)')
    BY DEF Counted, Ind
  <2>1. strong[m] = handles[m] + Ind(Falls(m)) + Ind(Waits(m)) + Ind(Here(m)) + Ind(Listed(m))
    BY DEF IInv, OwnInv, Counted
  <2>2. strong[m] \in Nat /\ handles[m] \in Nat /\ handles'[m] = handles[m]
    BY <1>1, Types DEF IInv, OwnInv
  <2>3. CASE m = n
    <3>1. Falls(m) /\ ~Falls(m)'
      BY <2>3, <1>2, <1>11 DEF Falls
    <3> QED BY <3>1, <2>1, <2>2, <2>3, <1>4, <1>10 DEF Ind
  <2>4. CASE m # n
    BY <2>1, <2>2, <2>4, <1>4, <1>10, <1>11 DEF Ind
  <2> QED BY <2>3, <2>4
<1>13. Drops'
  <2>1. \A i, j \in DOMAIN falling' : falling'[i] = falling'[j] => i = j
    BY <1>7 DEF IInv, OwnInv, Drops
  <2>2. ASSUME Len(falling') > 1, NEW m \in Nodes PROVE ~Falls(m)' \/ ~Listed(m)'
    BY <2>2, <1>7, <1>10, <1>11 DEF IInv, OwnInv, Drops
  <2> QED BY <2>1, <2>2 DEF Drops
<1> QED BY <1>6, <1>8, <1>9, <1>12, <1>13 DEF OwnInv

\* The last owner falls: the handles in the node's list fall next.
LEMMA DropLast ==
  ASSUME IInv, DropStep, NEW n \in Nodes, n = Head(falling), strong[n] = 1
  PROVE  IInv'
<1>1. /\ falling # <<>>
      /\ strong' = [strong EXCEPT ![n] = @ - 1]
      /\ UNCHANGED <<made, parent, handles, field, trip, halted>>
  BY DEF DropStep
<1>a. PICK kids : kids = children[n]
  OBVIOUS
<1>b. PICK rest : rest = Tail(falling)
  OBVIOUS
<1>2. /\ falling \in Seq(Nodes) /\ 1 \in DOMAIN falling /\ falling[1] = n
      /\ rest \in Seq(Nodes) /\ Len(rest) = Len(falling) - 1 /\ Len(falling) \in Nat
      /\ \A i \in DOMAIN rest : i \in Nat /\ i + 1 \in DOMAIN falling /\ rest[i] = falling[i + 1]
      /\ \A i \in DOMAIN falling : i \in Nat /\ (i # 1 => i - 1 \in DOMAIN rest)
  BY <1>1, <1>b, Tailed DEF IInv, OwnInv, TypeOK
<1>3. handles[n] = 0 /\ Falls(n) /\ ~Waits(n) /\ ~Here(n) /\ ~Listed(n)
  <2>1. Falls(n)
    BY <1>2 DEF Falls
  <2>2. strong[n] = handles[n] + Ind(Falls(n)) + Ind(Waits(n)) + Ind(Here(n)) + Ind(Listed(n))
    BY DEF IInv, OwnInv, Counted
  <2>3. handles[n] \in Nat
    BY Types DEF IInv, OwnInv
  <2> QED BY <2>1, <2>2, <2>3 DEF Ind
<1>4. /\ strong' \in [Nodes -> Nat] /\ strong'[n] = 0
      /\ \A m \in Nodes \ {n} : strong'[m] = strong[m]
  BY <1>1 DEF IInv, OwnInv, TypeOK
<1>5. falling' = children[n] \o Tail(falling) /\ children' = [children EXCEPT ![n] = <<>>]
  BY <1>4 DEF DropStep
<1>6. queue' = queue /\ at' = at /\ seen' = seen /\ mode' = mode /\ todo' = todo
  BY <1>1 DEF trip
<1>7. /\ children' \in [Nodes -> Seq(Nodes)] /\ children'[n] = <<>>
      /\ \A m \in Nodes \ {n} : children'[m] = children[m]
  <2>1. children \in [Nodes -> Seq(Nodes)] /\ <<>> \in Seq(Nodes)
    BY DEF IInv, OwnInv, TypeOK
  <2> QED BY <2>1, <1>5
<1>8. /\ falling' \in Seq(Nodes) /\ Len(falling') = Len(kids) + Len(rest) /\ Len(kids) \in Nat
      /\ \A i \in DOMAIN kids : i \in DOMAIN falling' /\ falling'[i] = kids[i]
      /\ \A i \in DOMAIN rest : i + Len(kids) \in DOMAIN falling' /\ falling'[i + Len(kids)] = rest[i]
      /\ \A i \in DOMAIN falling' :
           i \in Nat /\ (i \notin DOMAIN kids => i > Len(kids) /\ i - Len(kids) \in DOMAIN rest)
  <2>1. kids \in Seq(Nodes) /\ rest \in Seq(Nodes) /\ falling' = kids \o rest
    BY <1>a, <1>b, <1>2, <1>5, Types DEF IInv, OwnInv
  <2> QED BY <2>1, Concatenated, SMTT(30)
<1>9. TypeOK'
  BY <1>1, <1>4, <1>6, <1>7, <1>8 DEF IInv, OwnInv, TypeOK
<1>10. Ages'
  BY <1>1, <1>4, <1>6 DEF IInv, OwnInv, Ages
<1>11. Lists'
  <2>1. ASSUME NEW p \in Nodes
        PROVE  /\ children'[p] # <<>> => strong'[p] > 0
               /\ \A i \in DOMAIN children'[p] : parent[children'[p][i]] = p
               /\ \A i, j \in DOMAIN children'[p] : children'[p][i] = children'[p][j] => i = j
    <3>1. CASE p = n
      BY <3>1, <1>7
    <3>2. CASE p # n
      <4>1. children'[p] = children[p] /\ strong'[p] = strong[p]
        BY <3>2, <1>4, <1>7
      <4>2. /\ children[p] # <<>> => strong[p] > 0
            /\ \A i \in DOMAIN children[p] : parent[children[p][i]] = p
            /\ \A i, j \in DOMAIN children[p] : children[p][i] = children[p][j] => i = j
        BY DEF IInv, OwnInv, Lists
      <4> QED BY <4>1, <4>2, Zenon
    <3> QED BY <3>1, <3>2
  <2> QED BY <2>1, <1>1 DEF Lists
<1>12. \A i \in DOMAIN kids : kids[i] \in Nodes /\ parent[kids[i]] = n /\ kids[i] # n /\ Listed(kids[i])
  <2> SUFFICES ASSUME NEW i \in DOMAIN kids
               PROVE  kids[i] \in Nodes /\ parent[kids[i]] = n /\ kids[i] # n /\ Listed(kids[i])
    OBVIOUS
  <2>1. kids[i] \in Nodes /\ parent[kids[i]] = n
    BY <1>a, Types DEF IInv, OwnInv, Lists
  <2>2. parent[kids[i]] < kids[i] /\ n \in Nat /\ n # 0
    BY <2>1, NodeFacts DEF IInv, OwnInv, Ages
  <2> QED BY <1>a, <2>1, <2>2 DEF Listed
<1>13. \A i \in DOMAIN rest : rest[i] \in Nodes /\ rest[i] # n /\ Falls(rest[i]) /\ ~Listed(rest[i])
  <2> SUFFICES ASSUME NEW i \in DOMAIN rest
               PROVE  rest[i] \in Nodes /\ rest[i] # n /\ Falls(rest[i]) /\ ~Listed(rest[i])
    OBVIOUS
  <2>1. i \in Nat /\ i + 1 \in DOMAIN falling /\ rest[i] = falling[i + 1] /\ i + 1 # 1
    BY <1>2, LenProperties
  <2>2. rest[i] \in Nodes /\ rest[i] # n /\ Falls(rest[i])
    BY <2>1, <1>2, Types DEF IInv, OwnInv, Drops, Falls
  <2>3. Len(falling) > 1
    BY <2>1, <1>2, LenProperties
  <2> QED BY <2>2, <2>3 DEF IInv, OwnInv, Drops
<1>14. ASSUME NEW m \in Nodes
       PROVE  /\ Waits(m)' = Waits(m) /\ Here(m)' = Here(m)
              /\ Listed(m)' <=> Listed(m) /\ parent[m] # n
              /\ Falls(m)' <=> (Falls(m) /\ m # n) \/ \E i \in DOMAIN kids : kids[i] = m
  <2>1. Waits(m)' = Waits(m) /\ Here(m)' = Here(m)
    BY <1>6 DEF Waits, Here
  <2>2. Listed(m)' <=> Listed(m) /\ parent[m] # n
    <3>1. parent'[m] = parent[m] /\ (parent[m] # 0 => parent[m] \in Nodes)
      BY <1>1, Types DEF IInv, OwnInv
    <3>2. CASE parent[m] = n
      BY <3>1, <3>2, <1>7 DEF Listed
    <3>3. CASE parent[m] # n
      BY <3>1, <3>3, <1>7 DEF Listed
    <3> QED BY <3>2, <3>3
  <2>3. Falls(m)' => (Falls(m) /\ m # n) \/ \E i \in DOMAIN kids : kids[i] = m
    <3> SUFFICES ASSUME NEW i \in DOMAIN falling', falling'[i] = m, i \notin DOMAIN kids
                 PROVE  Falls(m) /\ m # n
      BY <1>8 DEF Falls
    <3>1. i - Len(kids) \in DOMAIN rest /\ i - Len(kids) + Len(kids) = i
      BY <1>8
    <3>2. falling'[i - Len(kids) + Len(kids)] = rest[i - Len(kids)]
      BY <3>1, <1>8
    <3> QED BY <3>1, <3>2, <1>13
  <2>4. (\E i \in DOMAIN kids : kids[i] = m) => Falls(m)'
    BY <1>8 DEF Falls
  <2>5. Falls(m) /\ m # n => Falls(m)'
    <3> SUFFICES ASSUME NEW i \in DOMAIN falling, falling[i] = m, m # n PROVE Falls(m)'
      BY DEF Falls
    <3>1. i - 1 \in DOMAIN rest /\ i - 1 + 1 = i
      BY <1>2
    <3>2. rest[i - 1] = m
      BY <3>1, <1>2
    <3> QED BY <3>1, <3>2, <1>8 DEF Falls
  <2> QED BY <2>1, <2>2, <2>3, <2>4, <2>5
<1>15. Counted'
  <2> SUFFICES ASSUME NEW m \in Nodes
               PROVE  strong'[m] = handles'[m] + Ind(Falls(m)') + Ind(Waits(m)')
                        + Ind(Here(m)') + Ind(Listed(m)')
    BY DEF Counted, Ind
  <2>1. strong[m] = handles[m] + Ind(Falls(m)) + Ind(Waits(m)) + Ind(Here(m)) + Ind(Listed(m))
    BY DEF IInv, OwnInv, Counted
  <2>2. strong[m] \in Nat /\ handles[m] \in Nat /\ handles'[m] = handles[m]
    BY <1>1, Types DEF IInv, OwnInv
  <2>3. CASE m = n
    <3>1. ~Falls(m)' /\ ~Waits(m)' /\ ~Here(m)' /\ ~Listed(m)'
      BY <2>3, <1>3, <1>12, <1>14
    <3> QED BY <3>1, <2>2, <2>3, <1>3, <1>4 DEF Ind
  <2>4. CASE m # n /\ \E i \in DOMAIN kids : kids[i] = m
    <3>1. Falls(m)' /\ ~Listed(m)' /\ Listed(m) /\ Waits(m)' = Waits(m) /\ Here(m)' = Here(m)
      BY <2>4, <1>12, <1>14
    <3>2. ~Falls(m)
      <4>1. \A i \in DOMAIN falling : i # 1 => ~Listed(falling[i])
        <5> SUFFICES ASSUME NEW i \in DOMAIN falling, i # 1 PROVE ~Listed(falling[i])
          OBVIOUS
        <5>1. i - 1 \in DOMAIN rest /\ i - 1 + 1 = i
          BY <1>2
        <5>2. rest[i - 1] = falling[i]
          BY <5>1, <1>2
        <5> QED BY <5>1, <5>2, <1>13
      <4> QED BY <4>1, <3>1, <2>4, <1>2 DEF Falls
    <3> QED BY <3>1, <3>2, <2>1, <2>2, <2>4, <1>4 DEF Ind
  <2>5. CASE m # n /\ ~\E i \in DOMAIN kids : kids[i] = m
    <3>1. Listed(m)' <=> Listed(m)
      BY <1>a, <2>5, <1>14 DEF Listed
    <3>2. /\ Waits(m)' = Waits(m) /\ Here(m)' = Here(m)
          /\ Falls(m)' <=> Falls(m)
      BY <2>5, <1>14
    <3> QED BY <3>1, <3>2, <2>1, <2>2, <2>5, <1>4 DEF Ind
  <2> QED BY <2>3, <2>4, <2>5
<1>16. Drops'
  <2>1. ASSUME NEW i \in DOMAIN falling', NEW j \in DOMAIN falling', falling'[i] = falling'[j]
        PROVE  i = j
    <3>1. \A k \in DOMAIN falling' : k \notin DOMAIN kids =>
             /\ k - Len(kids) \in DOMAIN rest /\ falling'[k] = rest[k - Len(kids)] /\ k \in Nat
      <4> SUFFICES ASSUME NEW k \in DOMAIN falling', k \notin DOMAIN kids
                   PROVE  /\ k - Len(kids) \in DOMAIN rest /\ k \in Nat
                          /\ falling'[k] = rest[k - Len(kids)]
        OBVIOUS
      <4>1. k \in Nat /\ k - Len(kids) \in DOMAIN rest /\ k - Len(kids) + Len(kids) = k
        BY <1>8
      <4> QED BY <4>1, <1>8
    <3>2. \A k, l \in DOMAIN rest : rest[k] = rest[l] => k = l
      BY <1>2 DEF IInv, OwnInv, Drops
    <3>3. CASE i \in DOMAIN kids /\ j \in DOMAIN kids
      BY <1>a, <3>3, <2>1, <1>8 DEF IInv, OwnInv, Lists
    <3>4. CASE i \in DOMAIN kids /\ j \notin DOMAIN kids
      BY <3>4, <3>1, <2>1, <1>8, <1>12, <1>13
    <3>5. CASE i \notin DOMAIN kids /\ j \in DOMAIN kids
      BY <3>5, <3>1, <2>1, <1>8, <1>12, <1>13
    <3>6. CASE i \notin DOMAIN kids /\ j \notin DOMAIN kids
      <4>1. i - Len(kids) = j - Len(kids) /\ i \in Nat /\ j \in Nat
        BY <3>6, <3>1, <3>2, <2>1
      <4> QED BY <4>1, <1>8
    <3> QED BY <3>3, <3>4, <3>5, <3>6
  <2>2. ASSUME NEW m \in Nodes, Falls(m)', Listed(m)' PROVE FALSE
    <3>1. Listed(m) /\ parent[m] # n /\ Falls(m) /\ m # n
      BY <2>2, <1>12, <1>14
    <3>2. PICK i \in DOMAIN falling : falling[i] = m
      BY <3>1 DEF Falls
    <3>3. i - 1 \in DOMAIN rest /\ i - 1 + 1 = i
      BY <3>1, <3>2, <1>2
    <3>4. rest[i - 1] = m
      BY <3>2, <3>3, <1>2
    <3> QED BY <3>1, <3>3, <3>4, <1>13
  <2> QED BY <2>1, <2>2 DEF Drops
<1>17. TripInv'
  <2>1. \A p \in Nodes \ {n} : Kids(p)' = Kids(p) /\ n \notin Kids(p)
    <3> SUFFICES ASSUME NEW p \in Nodes \ {n} PROVE Kids(p)' = Kids(p) /\ n \notin Kids(p)
      OBVIOUS
    <3>1. Kids(p)' = Kids(p)
      BY <1>7 DEF Kids
    <3>2. \A i \in DOMAIN children[p] : children[p][i] # n
      <4> SUFFICES ASSUME NEW i \in DOMAIN children[p], children[p][i] = n PROVE FALSE
        OBVIOUS
      <4>1. parent[n] = p /\ p # 0
        BY NodeFacts DEF IInv, OwnInv, Lists
      <4> QED BY <4>1, <1>3 DEF Listed
    <3> QED BY <3>1, <3>2 DEF Kids
  <2>2. Below(Ahead) \subseteq Below(Ahead)'
    BY <2>1, <1>3, <1>6, DeathBelow
  <2>3. \A m \in Nodes : strong[m] > 0 \/ m <= made => parent'[m] = parent[m]
    BY <1>1
  <2> QED BY <1>1, <2>2, <2>3, TripKept
<1> QED BY <1>9, <1>10, <1>11, <1>15, <1>16, <1>17 DEF IInv, OwnInv

\* Rc::drop, whichever owner it was.
LEMMA DropStepKeeps ==
  ASSUME IInv, DropStep
  PROVE  IInv'
<1>1. PICK n \in Nodes : n = Head(falling)
  <2>1. falling # <<>> /\ falling \in Seq(Nodes)
    BY DEF DropStep, IInv, OwnInv, TypeOK
  <2> QED BY <2>1, HeadTailProperties
<1>2. CASE strong[n] = 1
  BY <1>1, <1>2, DropLast
<1>3. CASE strong[n] # 1
  <2>1. OwnInv' /\ UNCHANGED <<tree, trip>>
    BY <1>1, <1>3, DropOne
  <2>2. UNCHANGED <<children, parent, queue, at>>
    BY <2>1 DEF tree, trip
  <2> QED BY <2>1, <2>2, SameBelow, TripKept DEF IInv
<1> QED BY <1>2, <1>3

-----------------------------------------------------------------------------
(* Steps of a traversal.                                                   *)

\* Those nodes, and what is under them.
LEMMA BelowFacts ==
  ASSUME NEW S
  PROVE  /\ Below(S) \subseteq Nodes
         /\ S \subseteq Nodes => S \subseteq Below(S)
BY DEF Below

\* The root's handle moves into the queue, or to the visitor.
LEMMA StartKeeps ==
  ASSUME IInv, NEW n \in Nodes, NEW m \in {"level", "in", "walk"}, Start(n, m)
  PROVE  IInv'
<1>1. /\ Calling /\ mode = "none" /\ Loses(n) /\ mode' = m
      /\ UNCHANGED <<tree, strong, field, falling, halted>>
  BY DEF Start
<1>2. queue = <<>> /\ at = <<>> /\ seen = <<>> /\ falling = <<>> /\ handles[n] > 0
  BY <1>1 DEF Calling, Loses, IInv, TripInv, Phases
<1>3. /\ children' = children /\ parent' = parent /\ made' = made /\ falling' = <<>> /\ strong' = strong
      /\ field' = field /\ halted' = halted
  BY <1>1, <1>2 DEF tree
<1>4. /\ handles' \in [Nodes -> 0..MaxHandles]
      /\ handles'[n] = handles[n] - 1
      /\ \A k \in Nodes \ {n} : handles'[k] = handles[k]
  BY <1>1, OneLess DEF IInv, OwnInv
<1>5. n <= made /\ n \in Nat
  BY <1>2, Owners, NodeFacts DEF IInv
<1>6. <<0, n>> \in Entries /\ <<>> \in Seq(Entries) /\ <<<<0, n>>>> \in Seq(Entries)
  BY DEF Entries
<1>7. CASE m = "walk"
  <2>1. /\ mode' = "walk" /\ queue' = <<>> /\ at' = <<0, n>> /\ seen' = <<<<0, n>>>> /\ todo' = {}
    BY <1>1, <1>7 DEF Start
  <2>2. TypeOK'
    BY <1>3, <1>4, <1>6, <2>1 DEF IInv, OwnInv, TypeOK
  <2>3. ASSUME NEW k \in Nodes
        PROVE  strong'[k] - handles'[k] - Ind(Falls(k)') - Ind(Waits(k)') - Ind(Here(k)')
                 = strong[k] - handles[k] - Ind(Falls(k)) - Ind(Waits(k)) - Ind(Here(k))
    <3>1. ~Falls(k) /\ ~Falls(k)' /\ ~Waits(k) /\ ~Waits(k)' /\ ~Here(k) /\ (Here(k)' <=> k = n)
      BY <1>2, <1>3, <2>1 DEF Falls, Waits, Here
    <3>2. strong[k] \in Nat /\ handles[k] \in Nat
      BY Types DEF IInv, OwnInv
    <3> QED BY <1>2, <1>3, <1>4, <3>1, <3>2 DEF Ind
  <2>4. OwnInv'
    <3>1. Len(falling') <= 1 /\ \A i \in DOMAIN seen' : seen'[i][2] <= made
      BY <1>3, <1>5, <2>1
    <3>2. \A k \in Nodes : k > made \/ children[k] # <<>> => (strong'[k] > 0 <=> strong[k] > 0)
      BY <1>3
    <3> QED BY <1>1, <2>2, <2>3, <3>1, <3>2, OwnersKept
  <2>5. Phases' /\ Covered'
    BY <2>1 DEF Phases, Covered
  <2>6. Visited' /\ Waiting' /\ Levels'
    BY <2>1 DEF Visited, Waiting, Levels
  <2> QED BY <2>4, <2>5, <2>6 DEF IInv, TripInv
<1>8. CASE m # "walk"
  <2>1. /\ mode' \in {"level", "in"} /\ queue' = <<<<0, n>>>> /\ at' = <<>> /\ seen' = <<>> /\ todo' = Below({n})
    BY <1>1, <1>8 DEF Start
  <2>2. TypeOK'
    BY <1>3, <1>4, <1>6, <2>1, BelowFacts DEF IInv, OwnInv, TypeOK
  <2>3. ASSUME NEW k \in Nodes
        PROVE  strong'[k] - handles'[k] - Ind(Falls(k)') - Ind(Waits(k)') - Ind(Here(k)')
                 = strong[k] - handles[k] - Ind(Falls(k)) - Ind(Waits(k)) - Ind(Here(k))
    <3>1. ~Falls(k) /\ ~Falls(k)' /\ ~Waits(k) /\ (Waits(k)' <=> k = n) /\ ~Here(k) /\ ~Here(k)'
      BY <1>2, <1>3, <2>1 DEF Falls, Waits, Here
    <3>2. strong[k] \in Nat /\ handles[k] \in Nat
      BY Types DEF IInv, OwnInv
    <3> QED BY <1>2, <1>3, <1>4, <3>1, <3>2 DEF Ind
  <2>4. OwnInv'
    <3>1. Len(falling') <= 1 /\ \A i \in DOMAIN seen' : seen'[i][2] <= made
      BY <1>3, <2>1
    <3>2. \A k \in Nodes : k > made \/ children[k] # <<>> => (strong'[k] > 0 <=> strong[k] > 0)
      BY <1>3
    <3> QED BY <1>1, <2>2, <2>3, <3>1, <3>2, OwnersKept
  <2>5. Phases'
    BY <2>1 DEF Phases
  <2>6. Visited' /\ Waiting' /\ Levels'
    BY <2>1 DEF Visited, Waiting, Levels
  <2>7. Covered'
    <3>1. Ahead' = {n}
      BY <2>1 DEF Ahead, Waits, Here
    <3>2. Below(Ahead)' = Below({n})
      BY <1>3, <3>1 DEF Below, Kids
    <3> QED BY <2>1, <3>2 DEF Covered
  <2> QED BY <2>4, <2>5, <2>6, <2>7 DEF IInv, TripInv
<1> QED BY <1>7, <1>8

\* One entry leaves the queue, at its front in level order and at its end in the other one;
\* the rest stays in its order.
LEMMA Popped ==
  ASSUME IInv, VisitNext
  PROVE  \E k \in DOMAIN queue, d \in {0, 1} :
           /\ k \in Nat /\ (mode = "level" => k = 1) /\ (mode = "in" => k = Len(queue))
           /\ at' = queue[k] /\ queue' \in Seq(Entries) /\ Len(queue') = Len(queue) - 1
           /\ \A i \in DOMAIN queue' :
                i \in Nat /\ i + d \in DOMAIN queue /\ i + d # k /\ queue'[i] = queue[i + d]
           /\ \A i \in DOMAIN queue : i # k => i - d \in DOMAIN queue' /\ i - d + d = i
<1>1. /\ mode \in {"level", "in"} /\ queue # <<>> /\ at' = Pop[1] /\ queue' = Pop[2]
      /\ queue \in Seq(Entries)
  BY DEF VisitNext, IInv, OwnInv, TypeOK
<1>2. /\ Len(queue) \in Nat \ {0} /\ DOMAIN queue = 1..Len(queue)
      /\ \A i \in DOMAIN queue : queue[i] \in Entries
  BY <1>1, EmptySeq, LenProperties, ElementOfSeq
<1>3. CASE mode = "level"
  <2>1. at' = queue[1] /\ queue' = Tail(queue)
    BY <1>1, <1>3 DEF Pop, PopFirst
  <2>2. /\ queue' \in Seq(Entries) /\ Len(queue') = Len(queue) - 1
        /\ 1 \in DOMAIN queue
        /\ \A i \in DOMAIN queue' : i \in Nat /\ i + 1 \in DOMAIN queue /\ queue'[i] = queue[i + 1]
        /\ \A i \in DOMAIN queue : i \in Nat /\ (i # 1 => i - 1 \in DOMAIN queue')
    BY <1>1, <2>1, Tailed
  <2>3. \A i \in DOMAIN queue' : i # 0
    BY <2>2, LenProperties
  <2>4. \A i \in DOMAIN queue' :
          i \in Nat /\ i + 1 \in DOMAIN queue /\ i + 1 # 1 /\ queue'[i] = queue[i + 1]
    BY <2>2, <2>3
  <2>5. \A i \in DOMAIN queue : i # 1 => i - 1 \in DOMAIN queue' /\ i - 1 + 1 = i
    BY <2>2
  <2> QED BY <1>3, <2>1, <2>2, <2>4, <2>5
<1>4. CASE mode = "in"
  <2> PICK k : k = Len(queue)
    OBVIOUS
  <2>1. at' = queue[k] /\ queue' = SubSeq(queue, 1, k - 1)
    BY <1>1, <1>4 DEF Pop, PopLast
  <2>2. k \in Nat /\ k \in DOMAIN queue /\ k # 0 /\ k - 1 \in Nat /\ 1..(k - 1) \subseteq DOMAIN queue
    BY <1>2
  <2>3. /\ queue' \in Seq(Entries) /\ Len(queue') = k - 1
        /\ \A i \in 1..(k - 1) : queue'[i] = queue[i]
    <3>1. \A i \in 1..(k - 1) : queue[i] \in Entries
      BY <1>2, <2>2
    <3>2. /\ SubSeq(queue, 1, k - 1) \in Seq(Entries)
          /\ Len(SubSeq(queue, 1, k - 1)) = IF 1 <= k - 1 THEN k - 1 - 1 + 1 ELSE 0
          /\ \A i \in 1..(k - 1 - 1 + 1) : SubSeq(queue, 1, k - 1)[i] = queue[1 + i - 1]
      BY <2>2, <3>1, SubSeqProperties
    <3>3. k - 1 - 1 + 1 = k - 1 /\ (IF 1 <= k - 1 THEN k - 1 - 1 + 1 ELSE 0) = k - 1
      BY <2>2
    <3>4. \A i \in 1..(k - 1) : 1 + i - 1 = i
      OBVIOUS
    <3> QED BY <2>1, <3>2, <3>3, <3>4
  <2>4. DOMAIN queue' = 1..(k - 1)
    BY <2>3, LenProperties
  <2>5. \A i \in DOMAIN queue' :
          i \in Nat /\ i + 0 \in DOMAIN queue /\ i + 0 # k /\ queue'[i] = queue[i + 0]
    BY <1>2, <2>2, <2>3, <2>4
  <2>6. \A i \in DOMAIN queue : i # k => i - 0 \in DOMAIN queue' /\ i - 0 + 0 = i
    BY <1>2, <2>2, <2>4
  <2> QED BY <1>4, <2>1, <2>2, <2>3, <2>5, <2>6
<1> QED BY <1>1, <1>3, <1>4

\* A node leaves the queue and is shown to the visitor.
LEMMA VisitNextKeeps ==
  ASSUME IInv, VisitNext
  PROVE  IInv'
<1>1. /\ mode \in {"level", "in"} /\ falling = <<>> /\ at = <<>> /\ seen' = Append(seen, at')
      /\ UNCHANGED <<tree, strong, handles, field, falling, mode, todo, halted>>
  BY DEF VisitNext, Idle
<1>2. /\ made' = made /\ parent' = parent /\ children' = children
  BY <1>1 DEF tree
<1>3. PICK k \in DOMAIN queue, d \in {0, 1} :
           /\ k \in Nat /\ (mode = "level" => k = 1) /\ (mode = "in" => k = Len(queue))
           /\ at' = queue[k] /\ queue' \in Seq(Entries) /\ Len(queue') = Len(queue) - 1
           /\ \A i \in DOMAIN queue' :
                i \in Nat /\ i + d \in DOMAIN queue /\ i + d # k /\ queue'[i] = queue[i + d]
           /\ \A i \in DOMAIN queue : i # k => i - d \in DOMAIN queue' /\ i - d + d = i
  BY Popped
<1>4. PICK a : a = queue[k]
  OBVIOUS
<1>5. a \in Entries /\ a[1] \in Nat /\ a[2] \in Nodes /\ a # <<>> /\ at' = a /\ Waits(a[2])
  <2>1. a \in Entries /\ a[1] \in Nat /\ a[2] \in Nodes
    BY <1>4, Types DEF IInv, OwnInv
  <2>2. a # <<>>
    BY <2>1 DEF Entries
  <2> QED BY <2>1, <2>2, <1>3, <1>4 DEF Waits
<1>6. PICK l \in Nat : l = Len(seen)
  BY LenProperties DEF IInv, OwnInv, TypeOK
<1>7. /\ seen' \in Seq(Entries) /\ seen' # <<>> /\ Len(seen') = l + 1
      /\ DOMAIN seen' = DOMAIN seen \cup {l + 1} /\ DOMAIN seen = 1..l
      /\ l + 1 \notin DOMAIN seen
      /\ \A i \in DOMAIN seen : seen'[i] = seen[i]
      /\ seen'[l + 1] = a
  <2>1. seen \in Seq(Entries) /\ seen' = Append(seen, a)
    BY <1>1, <1>5 DEF IInv, OwnInv, TypeOK
  <2> QED BY <2>1, <1>5, <1>6, Appended, SMTT(30)
<1>8. TypeOK'
  BY <1>1, <1>2, <1>3, <1>5, <1>7 DEF IInv, OwnInv, TypeOK
<1>9. \A m \in Nodes : /\ Falls(m)' = Falls(m) /\ ~Here(m) /\ (Here(m)' <=> m = a[2])
                       /\ Waits(m)' <=> Waits(m) /\ m # a[2]
  <2> SUFFICES ASSUME NEW m \in Nodes
               PROVE  /\ Falls(m)' = Falls(m) /\ ~Here(m) /\ (Here(m)' <=> m = a[2])
                      /\ Waits(m)' <=> Waits(m) /\ m # a[2]
    OBVIOUS
  <2>1. Falls(m)' = Falls(m) /\ ~Here(m) /\ (Here(m)' <=> m = a[2])
    BY <1>1, <1>5 DEF Falls, Here
  <2>2. Waits(m)' => Waits(m) /\ m # a[2]
    BY <1>3, <1>4 DEF Waits, IInv, TripInv, Waiting
  <2>3. Waits(m) /\ m # a[2] => Waits(m)'
    <3> SUFFICES ASSUME NEW i \in DOMAIN queue, queue[i][2] = m, m # a[2] PROVE Waits(m)'
      BY DEF Waits
    <3>1. i # k /\ i - d \in DOMAIN queue' /\ i - d + d = i
      BY <1>3, <1>4
    <3>2. queue'[i - d] = queue[i]
      BY <3>1, <1>3
    <3> QED BY <3>1, <3>2 DEF Waits
  <2> QED BY <2>1, <2>2, <2>3
<1>10. OwnInv'
  <2>1. ASSUME NEW m \in Nodes
        PROVE  strong'[m] - handles'[m] - Ind(Falls(m)') - Ind(Waits(m)') - Ind(Here(m)')
                 = strong[m] - handles[m] - Ind(Falls(m)) - Ind(Waits(m)) - Ind(Here(m))
    <3>1. strong[m] \in Nat /\ handles[m] \in Nat /\ strong'[m] = strong[m] /\ handles'[m] = handles[m]
      BY <1>1, Types DEF IInv, OwnInv
    <3>2. Waits(a[2])
      BY <1>5
    <3>3. CASE m = a[2]
      <4>1. Waits(m) /\ ~Waits(m)' /\ ~Here(m) /\ Here(m)' /\ Falls(m)' = Falls(m)
        BY <3>2, <3>3, <1>9
      <4> QED BY <3>1, <4>1 DEF Ind
    <3>4. CASE m # a[2]
      <4>1. (Waits(m)' <=> Waits(m)) /\ ~Here(m) /\ ~Here(m)' /\ Falls(m)' = Falls(m)
        BY <3>4, <1>9
      <4> QED BY <3>1, <4>1 DEF Ind
    <3> QED BY <3>3, <3>4
  <2>2. Len(falling') <= 1
    BY <1>1
  <2>3. a[2] <= made
    BY <1>5, Owners DEF IInv
  <2>4. \A i \in DOMAIN seen' : seen'[i][2] <= made
    BY <2>3, <1>7 DEF IInv, OwnInv, Ages
  <2>5. \A m \in Nodes : m > made \/ children[m] # <<>> => (strong'[m] > 0 <=> strong[m] > 0)
    BY <1>1
  <2> QED BY <1>1, <1>8, <2>1, <2>2, <2>4, <2>5, OwnersKept
<1>11. Phases'
  BY <1>1, <1>5, <1>7 DEF Phases
<1>12. \A i \in DOMAIN seen : seen[i][2] # a[2]
  BY <1>1, <1>3, <1>4 DEF IInv, TripInv, Waiting
<1>13. l # 0 => \E j \in DOMAIN seen : seen[j][1] + 1 = a[1] /\ seen[j][2] = parent[a[2]]
  <2>1. l # 0 => seen # <<>>
    BY <1>6
  <2> QED BY <2>1, <1>1, <1>3, <1>4 DEF IInv, TripInv, Waiting
<1>14. Visited'
  <2>1. \A i, j \in DOMAIN seen' : seen'[i][2] = seen'[j][2] => i = j
    BY <1>7, <1>12 DEF IInv, TripInv, Visited
  <2>2. ASSUME NEW i \in DOMAIN seen'
        PROVE  /\ seen'[i][2] >= seen'[1][2]
               /\ i # 1 => \E j \in 1..(i - 1) :
                    seen'[j][1] + 1 = seen'[i][1] /\ seen'[j][2] = parent[seen'[i][2]]
    <3>1. CASE i \in DOMAIN seen
      <4>1. /\ seen[i][2] >= seen[1][2]
            /\ i # 1 => \E j \in 1..(i - 1) :
                    seen[j][1] + 1 = seen[i][1] /\ seen[j][2] = parent[seen[i][2]]
        BY <3>1, <1>1 DEF IInv, TripInv, Visited
      <4>2. 1 \in DOMAIN seen /\ \A j \in 1..(i - 1) : j \in DOMAIN seen
        BY <3>1, <1>7
      <4> QED BY <3>1, <4>1, <4>2, <1>7
    <3>2. CASE i = l + 1 /\ l = 0
      BY <3>2, <1>5, <1>7, NodeFacts
    <3>3. CASE i = l + 1 /\ l # 0
      <4>1. PICK j \in DOMAIN seen : seen[j][1] + 1 = a[1] /\ seen[j][2] = parent[a[2]]
        BY <3>3, <1>13
      <4>2. 1 \in DOMAIN seen /\ j \in 1..(i - 1)
        BY <3>3, <1>7
      <4>3. seen[j][2] >= seen[1][2]
        BY <1>1 DEF IInv, TripInv, Visited
      <4>4. parent[a[2]] < a[2] /\ seen[j][2] \in Nat /\ seen[1][2] \in Nat /\ a[2] \in Nat
        BY <4>2, <1>5, Types, NodeFacts DEF IInv, OwnInv, Ages
      <4>5. a[2] >= seen[1][2]
        BY <4>1, <4>3, <4>4
      <4> QED BY <3>3, <4>1, <4>2, <4>5, <1>7
    <3> QED BY <3>1, <3>2, <3>3, <1>7
  <2> QED BY <1>1, <1>2, <2>1, <2>2 DEF Visited
<1>15. Waiting'
  <2>1. \A i, j \in DOMAIN queue' : queue'[i][2] = queue'[j][2] => i = j
    <3> SUFFICES ASSUME NEW i \in DOMAIN queue', NEW j \in DOMAIN queue', queue'[i][2] = queue'[j][2]
                 PROVE  i = j
      OBVIOUS
    <3>1. i + d = j + d
      BY <1>3 DEF IInv, TripInv, Waiting
    <3> QED BY <3>1, <1>3
  <2>2. ASSUME NEW q \in DOMAIN queue'
        PROVE  /\ \A i \in DOMAIN seen' : seen'[i][2] # queue'[q][2]
               /\ \E j \in DOMAIN seen' :
                    /\ seen'[j][1] + 1 = queue'[q][1] /\ seen'[j][2] = parent[queue'[q][2]]
                    /\ j # l + 1
    <3>1. q + d \in DOMAIN queue /\ q + d # k /\ queue'[q] = queue[q + d]
      BY <1>3
    <3>2. \A i \in DOMAIN seen' : seen'[i][2] # queue'[q][2]
      BY <3>1, <1>1, <1>4, <1>7 DEF IInv, TripInv, Waiting
    <3>3. seen # <<>>
      <4>1. Len(queue) > 1
        BY <1>3, LenProperties
      <4> QED BY <4>1, <1>3 DEF IInv, TripInv, Waiting
    <3>4. PICK j \in DOMAIN seen : seen[j][1] + 1 = queue[q + d][1]
             /\ seen[j][2] = parent[queue[q + d][2]]
      BY <3>1, <3>3, <1>1 DEF IInv, TripInv, Waiting
    <3> QED BY <3>1, <3>2, <3>4, <1>7
  <2> QED BY <1>2, <1>7, <2>1, <2>2 DEF Waiting
<1>16. Levels'
  <2>1. \A q, r \in DOMAIN queue' : q < r => queue'[q][1] <= queue'[r][1]
    <3> SUFFICES ASSUME NEW q \in DOMAIN queue', NEW r \in DOMAIN queue', q < r
                 PROVE  queue'[q][1] <= queue'[r][1]
      OBVIOUS
    <3>1. q + d < r + d
      BY <1>3
    <3> QED BY <3>1, <1>3 DEF IInv, TripInv, Levels
  <2>2. CASE mode = "level"
    <3>1. \A i \in DOMAIN seen : seen[i][1] <= a[1]
      BY <2>2, <1>4 DEF IInv, TripInv, Levels
    <3>2. \A i, j \in DOMAIN seen' : i < j => seen'[i][1] <= seen'[j][1]
      BY <2>2, <3>1, <1>7 DEF IInv, TripInv, Levels
    <3>3. ASSUME NEW q \in DOMAIN queue' PROVE a[1] <= queue'[q][1]
      <4>1. q + d \in DOMAIN queue /\ queue'[q] = queue[q + d] /\ k < q + d
        <5>1. k = 1 /\ q + d \in DOMAIN queue /\ queue'[q] = queue[q + d] /\ q + d # k
          BY <2>2, <1>3
        <5>2. q + d \in Nat /\ q + d >= 1
          BY <5>1, LenProperties DEF IInv, OwnInv, TypeOK
        <5> QED BY <5>1, <5>2
      <4> QED BY <4>1, <1>3, <1>4 DEF IInv, TripInv, Levels
    <3>4. \A i \in DOMAIN seen', q \in DOMAIN queue' : seen'[i][1] <= queue'[q][1]
      BY <2>2, <3>3, <1>3, <1>7 DEF IInv, TripInv, Levels
    <3>5. ASSUME NEW q \in DOMAIN queue' PROVE queue'[q][1] <= a[1] + 1
      <4>1. l # 0 /\ seen # <<>> /\ l \in DOMAIN seen
        <5>1. Len(queue) > 1
          BY <1>3, LenProperties
        <5> QED BY <5>1, <1>3, <1>6, <1>7 DEF IInv, TripInv, Waiting
      <4>2. queue[q + d][1] <= seen[l][1] + 1 /\ queue'[q] = queue[q + d] /\ q + d \in DOMAIN queue
        BY <2>2, <4>1, <1>3, <1>6 DEF IInv, TripInv, Levels
      <4>3. seen[l][1] <= a[1] /\ seen[l][1] \in Nat /\ queue[q + d][1] \in Nat
        BY <3>1, <4>1, <4>2, Types DEF IInv, OwnInv
      <4> QED BY <4>2, <4>3, <1>5
    <3> QED BY <1>1, <1>7, <2>1, <2>2, <3>2, <3>4, <3>5 DEF Levels
  <2>3. CASE mode = "in"
    <3>1. ASSUME NEW q \in DOMAIN queue' PROVE queue'[q][1] <= a[1]
      <4>1. q + d \in DOMAIN queue /\ queue'[q] = queue[q + d] /\ q + d < k
        <5>1. k = Len(queue) /\ q + d \in DOMAIN queue /\ queue'[q] = queue[q + d] /\ q + d # k
          BY <2>3, <1>3
        <5>2. q + d \in Nat /\ q + d <= k
          BY <5>1, LenProperties DEF IInv, OwnInv, TypeOK
        <5> QED BY <5>1, <5>2, <1>3
      <4> QED BY <4>1, <1>3, <1>4 DEF IInv, TripInv, Levels
    <3>2. ASSUME NEW i \in DOMAIN seen', NEW j \in DOMAIN seen', j < i,
                 seen'[j][2] = parent[seen'[i][2]],
                 NEW x \in (j + 1)..(i - 1)
          PROVE  seen'[x][1] > seen'[j][1]
      <4>1. j \in DOMAIN seen /\ x \in DOMAIN seen
        BY <3>2, <1>7
      <4>2. CASE i \in DOMAIN seen
        BY <2>3, <3>2, <4>1, <4>2, <1>7 DEF IInv, TripInv, Levels
      <4>3. CASE i = l + 1
        <5>1. seen[j][2] = parent[queue[k][2]] /\ x \in (j + 1)..l
          BY <3>2, <4>1, <4>3, <1>4, <1>7
        <5> QED BY <2>3, <4>1, <5>1, <1>6, <1>7 DEF IInv, TripInv, Levels
      <4> QED BY <4>2, <4>3, <1>7
    <3>3. ASSUME NEW q \in DOMAIN queue', NEW j \in DOMAIN seen', seen'[j][2] = parent[queue'[q][2]],
                 NEW x \in (j + 1)..(l + 1)
          PROVE  seen'[x][1] > seen'[j][1]
      <4>1. j \in DOMAIN seen /\ j \in Nat
        BY <3>3, <1>7
      <4>2. q + d \in DOMAIN queue /\ queue'[q] = queue[q + d] /\ queue[q + d][1] \in Nat
        BY <1>3, Types DEF IInv, OwnInv
      <4>3. CASE x # l + 1
        <5>1. x \in (j + 1)..l /\ x \in DOMAIN seen
          BY <3>3, <4>1, <4>3, <1>7
        <5> QED BY <2>3, <3>3, <4>1, <4>2, <5>1, <1>6, <1>7 DEF IInv, TripInv, Levels
      <4>4. CASE x = l + 1
        <5>1. seen # <<>>
          BY <4>1
        <5>2. PICK i \in DOMAIN seen : seen[i][1] + 1 = queue[q + d][1]
                 /\ seen[i][2] = parent[queue[q + d][2]]
          BY <4>2, <5>1, <1>1 DEF IInv, TripInv, Waiting
        <5>3. i = j
          BY <3>3, <4>1, <4>2, <5>2, <1>7 DEF IInv, TripInv, Visited
        <5>4. queue[q + d][1] <= a[1] /\ seen[j][1] \in Nat
          BY <3>1, <4>1, <4>2, Types DEF IInv, OwnInv
        <5> QED BY <4>1, <4>2, <4>4, <5>2, <5>3, <5>4, <1>5, <1>7
      <4> QED BY <4>3, <4>4
    <3>4. mode' = "in" /\ parent' = parent /\ at'[1] = a[1] /\ Len(seen') = l + 1
      BY <2>3, <1>1, <1>2, <1>5, <1>7
    <3>5. \A i, j \in DOMAIN seen' : j < i /\ seen'[j][2] = parent'[seen'[i][2]] =>
             \A x \in (j + 1)..(i - 1) : seen'[x][1] > seen'[j][1]
      BY <3>2, <3>4
    <3>6. \A q \in DOMAIN queue', j \in DOMAIN seen' : seen'[j][2] = parent'[queue'[q][2]] =>
             \A x \in (j + 1)..Len(seen') : seen'[x][1] > seen'[j][1]
      BY <3>3, <3>4
    <3>7. \A q \in DOMAIN queue' : queue'[q][1] <= at'[1]
      BY <3>1, <3>4
    <3> QED BY <2>1, <3>4, <3>5, <3>6, <3>7, Zenon DEF Levels
  <2> QED BY <1>1, <2>2, <2>3
<1>17. Covered'
  <2>1. Ahead' = Ahead
    <3>1. \A m \in Nodes : (Waits(m)' \/ Here(m)') <=> (Waits(m) \/ Here(m))
      BY <1>5, <1>9
    <3> QED BY <3>1 DEF Ahead
  <2>2. Below(Ahead)' = Below(Ahead)
    BY <2>1, <1>2 DEF Below, Kids
  <2>3. Occurs(seen) \subseteq Occurs(seen')
    BY <1>7 DEF Occurs
  <2>4. todo \subseteq Occurs(seen) \cup Below(Ahead)
    BY <1>1 DEF IInv, TripInv, Covered
  <2>5. Occurs(seen)' = Occurs(seen')
    BY DEF Occurs
  <2>6. mode' \in {"level", "in"} /\ todo' = todo
    BY <1>1
  <2> QED BY <2>2, <2>3, <2>4, <2>5, <2>6 DEF Covered
<1> QED BY <1>10, <1>11, <1>14, <1>15, <1>16, <1>17 DEF IInv, TripInv

\* A child of the node being visited was neither queued nor visited before.
LEMMA KidsAreNew ==
  ASSUME IInv, mode \in {"level", "in"}, at # <<>>, NEW k \in DOMAIN children[at[2]],
         NEW c, c = children[at[2]][k]
  PROVE  /\ c \in Nodes /\ parent[c] = at[2] /\ strong[c] > 0 /\ Listed(c)
         /\ ~Waits(c) /\ \A i \in DOMAIN seen : seen[i][2] # c
<1>1. /\ seen # <<>> /\ at = seen[Len(seen)] /\ Len(seen) \in DOMAIN seen /\ Len(seen) \in Nat
      /\ DOMAIN seen = 1..Len(seen)
  <2>1. seen # <<>> /\ at = seen[Len(seen)] /\ seen \in Seq(Entries)
    BY DEF IInv, TripInv, Phases, OwnInv, TypeOK
  <2>2. Len(seen) \in Nat \ {0} /\ DOMAIN seen = 1..Len(seen)
    BY <2>1, EmptySeq, LenProperties
  <2> QED BY <2>1, <2>2
<1>2. at[2] \in Nodes
  BY Types DEF IInv, OwnInv
<1>3. c \in Nodes /\ parent[c] = at[2] /\ Listed(c)
  <2>1. c \in Nodes /\ parent[c] = at[2] /\ at[2] # 0
    BY <1>2, Types, NodeFacts DEF IInv, OwnInv, Lists
  <2> QED BY <2>1 DEF Listed
<1>4. strong[c] > 0 /\ parent[c] < c
  BY <1>3, Owners DEF IInv, OwnInv, Ages
<1>5. ~Waits(c)
  <2> SUFFICES ASSUME NEW q \in DOMAIN queue, queue[q][2] = c PROVE FALSE
    BY DEF Waits
  <2>1. PICK j \in DOMAIN seen : seen[j][2] = parent[queue[q][2]] /\ j # Len(seen)
    BY <1>1 DEF IInv, TripInv, Waiting
  <2> QED BY <2>1, <1>1, <1>3 DEF IInv, TripInv, Visited
<1>6. ASSUME NEW i \in DOMAIN seen, seen[i][2] = c PROVE FALSE
  <2>1. CASE i = 1
    <3>1. at[2] >= c /\ c \in Nat /\ at[2] \in Nat
      BY <1>1, <1>2, <1>3, <1>6, <2>1, NodeFacts DEF IInv, TripInv, Visited
    <3> QED BY <3>1, <1>3, <1>4
  <2>2. CASE i # 1
    <3>1. PICK j \in 1..(i - 1) : seen[j][2] = parent[seen[i][2]]
      BY <2>2 DEF IInv, TripInv, Visited
    <3>2. j \in DOMAIN seen /\ j # Len(seen)
      <4>1. i \in 1..Len(seen) /\ Len(seen) \in Nat
        BY <1>1
      <4>2. j \in 1..Len(seen) /\ j # Len(seen)
        BY ONLY <4>1, j \in 1..(i - 1)
      <4> QED BY <4>2, <1>1
    <3> QED BY <3>1, <3>2, <1>1, <1>3, <1>6 DEF IInv, TripInv, Visited
  <2> QED BY <2>1, <2>2
<1> QED BY <1>3, <1>4, <1>5, <1>6

\* What a visit leaves of the caller's FieldRef.
LEMMA ReturnTypes ==
  ASSUME IInv, VisitorReturns
  PROVE  /\ falling = <<>> /\ at # <<>> /\ field' \in 0..MaxNodes
         /\ at \in Entries /\ at[1] \in Nat /\ at[2] \in Nodes /\ seen # <<>> /\ at = seen[Len(seen)]
         /\ Len(seen) \in Nat \ {0} /\ DOMAIN seen = 1..Len(seen)
<1>1. falling = <<>> /\ at # <<>> /\ field' \in {0, field} /\ field \in 0..MaxNodes
  BY DEF VisitorReturns, Calling, IInv, OwnInv, TypeOK
<1>2. at \in Entries /\ at[1] \in Nat /\ at[2] \in Nodes
  BY <1>1, Types DEF IInv, OwnInv
<1>3. seen # <<>> /\ at = seen[Len(seen)] /\ seen \in Seq(Entries)
  BY <1>1 DEF IInv, TripInv, Phases, OwnInv, TypeOK
<1>4. Len(seen) \in Nat \ {0} /\ DOMAIN seen = 1..Len(seen)
  BY <1>3, EmptySeq, LenProperties
<1>5. field' \in 0..MaxNodes
  BY <1>1, TreeAssumption
<1> QED BY <1>1, <1>2, <1>3, <1>4, <1>5

\* The visitor returns: handles on the children join the queue, the one on the node falls.
LEMMA VisitChildrenKeeps ==
  ASSUME IInv, VisitChildren
  PROVE  IInv'
<1>a. PICK a : a = at
  OBVIOUS
<1>b. PICK kids : kids = children[a[2]]
  OBVIOUS
<1>c. PICK new : new = [i \in DOMAIN kids |-> <<a[1] + 1, kids[i]>>]
  OBVIOUS
<1>1. /\ VisitorReturns /\ mode \in {"level", "in"}
      /\ queue' = queue \o new
      /\ strong' = [n \in Nodes |-> IF \E i \in DOMAIN kids : kids[i] = n
                                    THEN strong[n] + 1 ELSE strong[n]]
      /\ falling' = <<a[2]>> /\ at' = <<>>
      /\ UNCHANGED <<tree, handles, mode, seen, todo, halted>>
  BY <1>a, <1>b, <1>c DEF VisitChildren
<1>2. made' = made /\ parent' = parent /\ children' = children
  BY <1>1 DEF tree
<1>3. /\ falling = <<>> /\ a # <<>> /\ field' \in 0..MaxNodes
      /\ a \in Entries /\ a[1] \in Nat /\ a[2] \in Nodes /\ seen # <<>>
  BY <1>1, <1>a, ReturnTypes
<1>4. PICK l \in Nat : l = Len(seen) /\ l # 0 /\ DOMAIN seen = 1..l /\ l \in DOMAIN seen /\ seen[l] = a
  <2>1. Len(seen) \in Nat \ {0} /\ DOMAIN seen = 1..Len(seen) /\ a = seen[Len(seen)]
    BY <1>1, <1>a, ReturnTypes
  <2>2. Len(seen) \in Nat /\ Len(seen) # 0 /\ Len(seen) \in DOMAIN seen
    BY <2>1
  <2> QED BY <2>1, <2>2, Zenon
<1>5. kids \in Seq(Nodes) /\ DOMAIN kids = 1..Len(kids) /\ Len(kids) \in Nat
  <2>1. kids \in Seq(Nodes)
    BY <1>b, <1>3, Types DEF IInv, OwnInv
  <2> QED BY <2>1, LenProperties
<1>6. \A k \in DOMAIN kids :
        /\ kids[k] \in Nodes /\ parent[kids[k]] = a[2] /\ strong[kids[k]] > 0
        /\ ~Waits(kids[k]) /\ \A i \in DOMAIN seen : seen[i][2] # kids[k]
  BY <1>1, <1>3, <1>a, <1>b, KidsAreNew
<1>7. new \in Seq(Entries) /\ DOMAIN new = DOMAIN kids /\ Len(new) = Len(kids)
  <2>1. \A k \in DOMAIN kids : <<a[1] + 1, kids[k]>> \in Entries
    BY <1>3, <1>6 DEF Entries
  <2>2. new \in [1..Len(kids) -> Entries]
    BY <2>1, <1>c, <1>5
  <2>3. new \in Seq(Entries)
    BY <2>2, <1>5
  <2> QED BY <2>2, <2>3, <1>5, LenProperties
<1>8. \A k \in DOMAIN new : new[k][1] = a[1] + 1 /\ new[k][2] = kids[k]
  BY <1>c
<1>9. PICK w \in Nat : w = Len(queue) /\ DOMAIN queue = 1..w
  BY LenProperties DEF IInv, OwnInv, TypeOK
<1>10. /\ queue' \in Seq(Entries)
       /\ \A i \in DOMAIN queue : i \in DOMAIN queue' /\ queue'[i] = queue[i]
       /\ \A i \in DOMAIN new : i + w \in DOMAIN queue' /\ queue'[i + w] = new[i]
       /\ \A i \in DOMAIN queue' : i \in Nat /\ (i \notin DOMAIN queue => i > w /\ i - w \in DOMAIN new)
  <2>1. queue \in Seq(Entries)
    BY DEF IInv, OwnInv, TypeOK
  <2> QED BY <2>1, <1>1, <1>7, <1>9, Concatenated, SMTT(30)
<1>11. \A i \in DOMAIN queue' : i \notin DOMAIN queue =>
          /\ i > w /\ i - w \in DOMAIN kids
          /\ queue'[i][1] = a[1] + 1 /\ queue'[i][2] = kids[i - w]
  <2> SUFFICES ASSUME NEW i \in DOMAIN queue', i \notin DOMAIN queue
               PROVE  /\ i > w /\ i - w \in DOMAIN kids
                      /\ queue'[i][1] = a[1] + 1 /\ queue'[i][2] = kids[i - w]
    OBVIOUS
  <2>1. i > w /\ i - w \in DOMAIN new /\ i - w + w = i
    BY <1>10
  <2> QED BY <2>1, <1>7, <1>8, <1>10
<1>12. /\ strong' \in [Nodes -> Nat]
       /\ \A m \in Nodes : strong'[m] = IF \E i \in DOMAIN kids : kids[i] = m THEN strong[m] + 1 ELSE strong[m]
  <2>1. \A m \in Nodes : strong[m] \in Nat /\ strong[m] + 1 \in Nat
    BY Types DEF IInv, OwnInv
  <2> QED BY <2>1, <1>1
<1>13. TypeOK'
  <2>1. falling' \in Seq(Nodes)
    BY <1>1, <1>3
  <2> QED BY <2>1, <1>1, <1>2, <1>3, <1>10, <1>12 DEF IInv, OwnInv, TypeOK
<1>14. \A m \in Nodes : /\ ~Falls(m) /\ (Falls(m)' <=> m = a[2])
                        /\ (Here(m) <=> m = a[2]) /\ ~Here(m)'
                        /\ Waits(m)' <=> Waits(m) \/ \E i \in DOMAIN kids : kids[i] = m
  <2> SUFFICES ASSUME NEW m \in Nodes
               PROVE  /\ ~Falls(m) /\ (Falls(m)' <=> m = a[2])
                      /\ (Here(m) <=> m = a[2]) /\ ~Here(m)'
                      /\ Waits(m)' <=> Waits(m) \/ \E i \in DOMAIN kids : kids[i] = m
    OBVIOUS
  <2>1. ~Falls(m) /\ (Falls(m)' <=> m = a[2]) /\ (Here(m) <=> m = a[2]) /\ ~Here(m)'
    BY <1>1, <1>3, <1>a DEF Falls, Here
  <2>2. Waits(m)' => Waits(m) \/ \E i \in DOMAIN kids : kids[i] = m
    BY <1>10, <1>11 DEF Waits
  <2>3. Waits(m) => Waits(m)'
    BY <1>10 DEF Waits
  <2>4. (\E i \in DOMAIN kids : kids[i] = m) => Waits(m)'
    BY <1>7, <1>8, <1>10 DEF Waits
  <2> QED BY <2>1, <2>2, <2>3, <2>4
<1>15. OwnInv'
  <2>1. ASSUME NEW m \in Nodes
        PROVE  strong'[m] - handles'[m] - Ind(Falls(m)') - Ind(Waits(m)') - Ind(Here(m)')
                 = strong[m] - handles[m] - Ind(Falls(m)) - Ind(Waits(m)) - Ind(Here(m))
    <3>1. strong[m] \in Nat /\ handles[m] \in Nat /\ handles'[m] = handles[m]
      BY <1>1, Types DEF IInv, OwnInv
    <3>2. ~Falls(m) /\ (Falls(m)' <=> m = a[2]) /\ (Here(m) <=> m = a[2]) /\ ~Here(m)'
      BY <1>14
    <3>3. CASE \E i \in DOMAIN kids : kids[i] = m
      <4>1. ~Waits(m) /\ Waits(m)' /\ strong'[m] = strong[m] + 1
        BY <3>3, <1>6, <1>12, <1>14
      <4> QED BY <3>1, <3>2, <4>1 DEF Ind
    <3>4. CASE ~\E i \in DOMAIN kids : kids[i] = m
      <4>1. (Waits(m)' <=> Waits(m)) /\ strong'[m] = strong[m]
        BY <3>4, <1>12, <1>14
      <4> QED BY <3>1, <3>2, <4>1 DEF Ind
    <3> QED BY <3>3, <3>4
  <2>2. Len(falling') <= 1 /\ \A i \in DOMAIN seen' : seen'[i][2] <= made
    BY <1>1 DEF IInv, OwnInv, Ages
  <2>3. \A m \in Nodes : strong'[m] > 0 <=> strong[m] > 0
    <3> SUFFICES ASSUME NEW m \in Nodes PROVE strong'[m] > 0 <=> strong[m] > 0
      OBVIOUS
    <3>1. strong[m] \in Nat
      BY Types DEF IInv, OwnInv
    <3>2. CASE \E i \in DOMAIN kids : kids[i] = m
      BY <3>1, <3>2, <1>6, <1>12
    <3>3. CASE ~\E i \in DOMAIN kids : kids[i] = m
      BY <3>3, <1>12
    <3> QED BY <3>2, <3>3
  <2>4. \A m \in Nodes : m > made \/ children[m] # <<>> => (strong'[m] > 0 <=> strong[m] > 0)
    BY <2>3
  <2> QED BY <1>1, <1>13, <2>1, <2>2, <2>4, OwnersKept
<1>16. Phases' /\ Visited'
  BY <1>1, <1>2 DEF IInv, TripInv, Phases, Visited
<1>17. Waiting'
  <2>1. ASSUME NEW i \in DOMAIN queue', NEW j \in DOMAIN queue', queue'[i][2] = queue'[j][2]
        PROVE  i = j
    <3>1. CASE i \in DOMAIN queue /\ j \in DOMAIN queue
      BY <2>1, <3>1, <1>10 DEF IInv, TripInv, Waiting
    <3>2. CASE i \in DOMAIN queue /\ j \notin DOMAIN queue
      BY <2>1, <3>2, <1>6, <1>10, <1>11 DEF Waits
    <3>3. CASE i \notin DOMAIN queue /\ j \in DOMAIN queue
      BY <2>1, <3>3, <1>6, <1>10, <1>11 DEF Waits
    <3>4. CASE i \notin DOMAIN queue /\ j \notin DOMAIN queue
      <4>1. i - w \in DOMAIN kids /\ j - w \in DOMAIN kids /\ kids[i - w] = kids[j - w]
        BY <2>1, <3>4, <1>11
      <4>2. i - w = j - w
        BY <4>1, <1>3, <1>b DEF IInv, OwnInv, Lists
      <4> QED BY <4>2, <1>10
    <3> QED BY <3>1, <3>2, <3>3, <3>4
  <2>2. ASSUME NEW q \in DOMAIN queue'
        PROVE  /\ \A i \in DOMAIN seen : seen[i][2] # queue'[q][2]
               /\ \E j \in DOMAIN seen :
                    seen[j][1] + 1 = queue'[q][1] /\ seen[j][2] = parent[queue'[q][2]]
    <3>1. CASE q \in DOMAIN queue
      BY <3>1, <1>1, <1>3, <1>10 DEF IInv, TripInv, Waiting
    <3>2. CASE q \notin DOMAIN queue
      BY <3>2, <1>4, <1>6, <1>11
    <3> QED BY <3>1, <3>2
  <2> QED BY <1>1, <1>2, <1>3, <2>1, <2>2 DEF Waiting
<1>18. Levels'
  <2>1. \A q \in DOMAIN queue : queue[q][1] <= a[1] + 1 /\ queue[q][1] \in Nat
    <3> SUFFICES ASSUME NEW q \in DOMAIN queue PROVE queue[q][1] <= a[1] + 1 /\ queue[q][1] \in Nat
      OBVIOUS
    <3>1. queue[q][1] \in Nat
      BY Types DEF IInv, OwnInv
    <3>2. CASE mode = "level"
      BY <3>1, <3>2, <1>3, <1>4 DEF IInv, TripInv, Levels
    <3>3. CASE mode = "in"
      <4>1. queue[q][1] <= a[1]
        BY <3>3, <1>3, <1>a DEF IInv, TripInv, Levels
      <4> QED BY <3>1, <4>1, <1>3
    <3> QED BY <3>2, <3>3, <1>1
  <2>2. ASSUME NEW q \in DOMAIN queue', NEW r \in DOMAIN queue', q < r
        PROVE  queue'[q][1] <= queue'[r][1]
    <3>1. CASE q \in DOMAIN queue /\ r \in DOMAIN queue
      BY <2>2, <3>1, <1>10 DEF IInv, TripInv, Levels
    <3>2. CASE q \in DOMAIN queue /\ r \notin DOMAIN queue
      BY <2>1, <3>2, <1>10, <1>11
    <3>3. CASE q \notin DOMAIN queue
      <4>1. r \notin DOMAIN queue
        BY <2>2, <3>3, <1>9, <1>10
      <4> QED BY <4>1, <3>3, <1>3, <1>11
    <3> QED BY <3>1, <3>2, <3>3
  <2>3. CASE mode = "level"
    <3>1. \A i \in DOMAIN seen : seen[i][1] <= a[1] /\ seen[i][1] \in Nat
      <4> SUFFICES ASSUME NEW i \in DOMAIN seen PROVE seen[i][1] <= a[1] /\ seen[i][1] \in Nat
        OBVIOUS
      <4>1. seen[i][1] \in Nat
        BY Types DEF IInv, OwnInv
      <4>2. i = l \/ i < l
        BY <1>4
      <4> QED BY <4>1, <4>2, <2>3, <1>3, <1>4 DEF IInv, TripInv, Levels
    <3>2. \A i \in DOMAIN seen, q \in DOMAIN queue' : seen[i][1] <= queue'[q][1]
      <4> SUFFICES ASSUME NEW i \in DOMAIN seen, NEW q \in DOMAIN queue'
               PROVE seen[i][1] <= queue'[q][1]
        OBVIOUS
      <4>1. CASE q \in DOMAIN queue
        BY <4>1, <2>3, <1>10 DEF IInv, TripInv, Levels
      <4>2. CASE q \notin DOMAIN queue
        BY <4>2, <3>1, <1>3, <1>11
      <4> QED BY <4>1, <4>2
    <3>3. \A q \in DOMAIN queue' : queue'[q][1] <= seen[Len(seen)][1] + 1
      BY <2>1, <1>3, <1>4, <1>10, <1>11
    <3>4. \A i, j \in DOMAIN seen : i < j => seen[i][1] <= seen[j][1]
      BY <2>3 DEF IInv, TripInv, Levels
    <3>5. mode' = "level" /\ seen' = seen
      BY <2>3, <1>1
    <3> QED BY <2>2, <3>2, <3>3, <3>4, <3>5 DEF Levels
  <2>4. CASE mode = "in"
    <3>1. ASSUME NEW q \in DOMAIN queue', NEW j \in DOMAIN seen, seen[j][2] = parent[queue'[q][2]],
                 NEW x \in (j + 1)..Len(seen)
          PROVE  seen[x][1] > seen[j][1]
      <4>1. CASE q \in DOMAIN queue
        BY <2>4, <3>1, <4>1, <1>10 DEF IInv, TripInv, Levels
      <4>2. CASE q \notin DOMAIN queue
        <5>1. seen[j][2] = a[2]
          BY <3>1, <4>2, <1>6, <1>11
        <5>2. j = l
          BY <5>1, <1>4 DEF IInv, TripInv, Visited
        <5> QED BY <5>2, <3>1, <1>4
      <4> QED BY <4>1, <4>2
    <3>2. \A i, j \in DOMAIN seen : j < i /\ seen[j][2] = parent[seen[i][2]] =>
            \A k \in (j + 1)..(i - 1) : seen[k][1] > seen[j][1]
      BY <2>4 DEF IInv, TripInv, Levels
    <3>3. mode' = "in" /\ seen' = seen /\ at' = <<>> /\ parent' = parent
      BY <2>4, <1>1, <1>2
    <3> QED BY <2>2, <3>1, <3>2, <3>3 DEF Levels
  <2> QED BY <1>1, <2>3, <2>4
<1>19. Covered'
  <2>1. Kids(a[2]) = {kids[i] : i \in DOMAIN kids}
    BY <1>b DEF Kids
  <2>2. \A m \in Nodes : (Waits(m)' \/ Here(m)') <=> (Waits(m) \/ m \in Kids(a[2]))
    BY <2>1, <1>14
  <2>3. \A m \in Nodes : (Waits(m) \/ Here(m)) <=> (Waits(m) \/ m = a[2])
    BY <1>14
  <2>4. ASSUME NEW x \in Below(Ahead), x # a[2] PROVE x \in Below(Ahead)'
    <3> SUFFICES ASSUME NEW T \in SUBSET Nodes, Ahead' \subseteq T, \A p \in T : Kids(p)' \subseteq T
                 PROVE  x \in T
      BY <2>4 DEF Below
    <3>1. \A p \in Nodes : Kids(p)' = Kids(p)
      BY <1>2 DEF Kids
    <3>2. Ahead \subseteq T \cup {a[2]}
      BY <2>2, <2>3 DEF Ahead
    <3>3. Kids(a[2]) \subseteq T
      <4>1. \A m \in Kids(a[2]) : m \in Nodes
        BY <2>1, <1>6
      <4> QED BY <4>1, <2>2 DEF Ahead
    <3>4. \A p \in T \cup {a[2]} : Kids(p) \subseteq T \cup {a[2]}
      BY <3>1, <3>3
    <3>5. T \cup {a[2]} \in SUBSET Nodes
      BY <1>3
    <3>6. x \in T \cup {a[2]}
      BY <3>2, <3>4, <3>5 DEF Below
    <3> QED BY <3>6, <2>4
  <2>5. a[2] \in Occurs(seen)
    BY <1>4 DEF Occurs
  <2>6. todo \subseteq Occurs(seen) \cup Below(Ahead)
    BY <1>1 DEF IInv, TripInv, Covered
  <2>7. mode' \in {"level", "in"} /\ todo' = todo /\ Occurs(seen)' = Occurs(seen)
    BY <1>1 DEF Occurs
  <2> QED BY <2>4, <2>5, <2>6, <2>7 DEF Covered
<1> QED BY <1>15, <1>16, <1>17, <1>18, <1>19 DEF IInv, TripInv

\* Nothing waits any more, so nothing is left out.
LEMMA EndVisitKeeps ==
  ASSUME IInv, EndVisit
  PROVE  IInv'
<1>1. /\ mode \in {"level", "in"} /\ queue = <<>> /\ falling = <<>> /\ at = <<>> /\ mode' = "done"
      /\ UNCHANGED <<tree, strong, handles, field, falling, queue, at, seen, todo, halted>>
  BY DEF EndVisit, Idle
<1>2. made' = made /\ parent' = parent /\ children' = children
  BY <1>1 DEF tree
<1>3. TypeOK'
  BY <1>1, <1>2 DEF IInv, OwnInv, TypeOK
<1>4. \A m \in Nodes : Falls(m)' = Falls(m) /\ Waits(m)' = Waits(m) /\ Here(m)' = Here(m)
  BY <1>1 DEF Falls, Waits, Here
<1>5. OwnInv'
  <2>1. \A m \in Nodes : strong'[m] - handles'[m] - Ind(Falls(m)') - Ind(Waits(m)') - Ind(Here(m)')
                       = strong[m] - handles[m] - Ind(Falls(m)) - Ind(Waits(m)) - Ind(Here(m))
    BY <1>1, <1>4
  <2>2. Len(falling') <= 1 /\ \A i \in DOMAIN seen' : seen'[i][2] <= made
    BY <1>1 DEF IInv, OwnInv, Ages
  <2>3. \A m \in Nodes : m > made \/ children[m] # <<>> => (strong'[m] > 0 <=> strong[m] > 0)
    BY <1>1
  <2> QED BY <1>1, <1>3, <2>1, <2>2, <2>3, OwnersKept
<1>6. Phases' /\ Visited' /\ Waiting' /\ Levels'
  BY <1>1, <1>2 DEF IInv, TripInv, Phases, Visited, Waiting, Levels
<1>7. Covered'
  <2>1. Ahead = {}
    BY <1>1 DEF Ahead, Waits, Here
  <2>2. Below(Ahead) = {}
    BY <2>1 DEF Below
  <2>3. todo \subseteq Occurs(seen)
    BY <1>1, <2>2 DEF IInv, TripInv, Covered
  <2> QED BY <1>1, <2>3 DEF Covered, Occurs
<1> QED BY <1>5, <1>6, <1>7 DEF IInv, TripInv

\* node = parent: the node of the walk and the one before change their places.
LEMMA SetNodeKeeps ==
  ASSUME IInv, SetNode
  PROVE  IInv'
<1>a. PICK a : a = at
  OBVIOUS
<1>1. /\ VisitorReturns /\ mode = "walk" /\ queue' = <<a>> /\ at' = <<>>
      /\ falling' = IF queue = <<>> THEN <<>> ELSE <<queue[1][2]>>
      /\ UNCHANGED <<tree, strong, handles, mode, seen, todo, halted>>
  BY <1>a DEF SetNode
<1>2. made' = made /\ parent' = parent /\ children' = children
  BY <1>1 DEF tree
<1>3. /\ falling = <<>> /\ field' \in 0..MaxNodes /\ a \in Entries /\ a[2] \in Nodes
      /\ seen # <<>> /\ a = seen[Len(seen)]
  BY <1>1, <1>a, ReturnTypes
<1>4. /\ queue = <<>> \/ 1 \in DOMAIN queue
      /\ \A i \in DOMAIN queue : i = 1 /\ queue[i][2] \in Nodes
  <2>1. /\ queue \in Seq(Entries) /\ Len(queue) <= 1
        /\ \A i \in DOMAIN queue : queue[i][2] \in Nodes
    BY <1>1, Types DEF IInv, OwnInv, TripInv, Phases
  <2>2. Len(queue) \in Nat /\ DOMAIN queue = 1..Len(queue) /\ (queue = <<>> \/ Len(queue) # 0)
    BY <2>1, LenProperties, EmptySeq
  <2> QED BY <2>1, <2>2
<1>5. ASSUME NEW m \in Nodes
      PROVE  /\ ~Falls(m) /\ (Falls(m)' <=> Waits(m))
             /\ (Here(m) <=> m = a[2]) /\ ~Here(m)' /\ (Waits(m)' <=> m = a[2])
  <2>1. ~Falls(m) /\ (Here(m) <=> m = a[2]) /\ ~Here(m)' /\ (Waits(m)' <=> m = a[2])
    BY <1>1, <1>3, <1>a DEF Falls, Waits, Here, VisitorReturns
  <2>2. CASE queue = <<>>
    BY <2>1, <2>2, <1>1 DEF Falls, Waits
  <2>3. CASE queue # <<>>
    <3>1. falling' = <<queue[1][2]>> /\ 1 \in DOMAIN queue
      BY <2>3, <1>1, <1>4
    <3>2. Waits(m) <=> queue[1][2] = m
      BY <3>1, <1>4 DEF Waits
    <3>3. Falls(m)' <=> queue[1][2] = m
      BY <3>1 DEF Falls
    <3> QED BY <2>1, <3>2, <3>3
  <2> QED BY <2>2, <2>3
<1>6. TypeOK'
  <2>1. falling' \in Seq(Nodes) /\ queue' \in Seq(Entries)
    BY <1>1, <1>3, <1>4
  <2> QED BY <2>1, <1>1, <1>2, <1>3 DEF IInv, OwnInv, TypeOK
<1>7. OwnInv'
  <2>1. ASSUME NEW m \in Nodes
        PROVE  strong'[m] - handles'[m] - Ind(Falls(m)') - Ind(Waits(m)') - Ind(Here(m)')
                 = strong[m] - handles[m] - Ind(Falls(m)) - Ind(Waits(m)) - Ind(Here(m))
    <3>1. strong[m] \in Nat /\ handles[m] \in Nat /\ handles'[m] = handles[m] /\ strong'[m] = strong[m]
      BY <1>1, Types DEF IInv, OwnInv
    <3> QED BY <3>1, <1>5 DEF Ind
  <2>2. Len(falling') <= 1 /\ \A i \in DOMAIN seen' : seen'[i][2] <= made
    BY <1>1 DEF IInv, OwnInv, Ages
  <2>3. \A m \in Nodes : m > made \/ children[m] # <<>> => (strong'[m] > 0 <=> strong[m] > 0)
    BY <1>1
  <2> QED BY <1>1, <1>6, <2>1, <2>2, <2>3, OwnersKept
<1>8. Phases' /\ Visited'
  BY <1>1, <1>2, <1>3 DEF IInv, TripInv, Phases, Visited
<1>9. Waiting' /\ Levels'
  BY <1>1, <1>3 DEF Waiting, Levels
<1>10. Covered'
  BY <1>1 DEF IInv, TripInv, Covered, Occurs
<1> QED BY <1>7, <1>8, <1>9, <1>10 DEF IInv, TripInv

\* What a walk holds between two visits: the node it visited last.
LEMMA WalkRests ==
  ASSUME IInv, Idle, mode = "walk"
  PROVE  \E a \in Entries :
           /\ queue = <<a>> /\ a[1] \in Nat /\ a[2] \in Nodes /\ falling = <<>> /\ at = <<>>
           /\ seen # <<>> /\ a = seen[Len(seen)] /\ Len(seen) \in Nat \ {0} /\ DOMAIN seen = 1..Len(seen)
<1>1. seen \in Seq(Entries) /\ seen # <<>> /\ queue = <<seen[Len(seen)]>> /\ at = <<>> /\ falling = <<>>
  BY DEF Idle, IInv, TripInv, Phases, OwnInv, TypeOK
<1>2. Len(seen) \in Nat \ {0} /\ DOMAIN seen = 1..Len(seen)
  BY <1>1, EmptySeq, LenProperties
<1>3. seen[Len(seen)] \in Entries
  BY <1>1, <1>2, ElementOfSeq
<1>4. \A e \in Entries : e[1] \in Nat /\ e[2] \in Nodes
  BY DEF Entries
<1> QED BY <1>1, <1>2, <1>3, <1>4

\* The walk goes to the parent, which is older than all it has visited.
LEMMA WalkUpKeeps ==
  ASSUME IInv, WalkUp
  PROVE  IInv'
<1>0. Idle /\ mode = "walk"
  BY DEF WalkUp
<1>a. PICK a \in Entries :
           /\ queue = <<a>> /\ a[1] \in Nat /\ a[2] \in Nodes /\ falling = <<>> /\ at = <<>>
           /\ seen # <<>> /\ a = seen[Len(seen)] /\ Len(seen) \in Nat \ {0} /\ DOMAIN seen = 1..Len(seen)
  BY <1>0, WalkRests
<1>b. PICK p : p = parent[a[2]]
  OBVIOUS
<1>1. /\ p # 0 /\ strong[p] > 0
      /\ strong' = [strong EXCEPT ![p] = @ + 1]
      /\ at' = <<a[1] + 1, p>> /\ seen' = Append(seen, at')
      /\ UNCHANGED <<tree, handles, field, falling, mode, queue, todo, halted>>
  <2>1. queue[1] = a
    BY <1>a
  <2> QED BY <2>1, <1>b DEF WalkUp, HasParent
<1>2. made' = made /\ parent' = parent /\ children' = children
  BY <1>1 DEF tree
<1>4. PICK l \in Nat : l = Len(seen) /\ l # 0 /\ DOMAIN seen = 1..l /\ l \in DOMAIN seen /\ seen[l] = a
  <2>1. Len(seen) \in Nat /\ Len(seen) # 0 /\ Len(seen) \in DOMAIN seen
    BY <1>a
  <2> QED BY <2>1, <1>a, Zenon
<1>5. p \in Nodes /\ p <= made /\ p < a[2] /\ p \in Nat /\ a[2] \in Nat
  <2>1. p \in Nodes
    BY <1>1, <1>a, <1>b, Types DEF IInv, OwnInv
  <2>2. p <= made
    BY <2>1, <1>1, Owners DEF IInv
  <2> QED BY <2>1, <2>2, <1>a, <1>b, NodeFacts DEF IInv, OwnInv, Ages
<1>6. at' \in Entries /\ at' # <<>> /\ at'[1] = a[1] + 1 /\ at'[2] = p
  BY <1>1, <1>a, <1>5 DEF Entries
<1>7. /\ seen' \in Seq(Entries) /\ seen' # <<>> /\ Len(seen') = l + 1
      /\ DOMAIN seen' = DOMAIN seen \cup {l + 1}
      /\ l + 1 \notin DOMAIN seen
      /\ \A i \in DOMAIN seen : seen'[i] = seen[i]
      /\ seen'[l + 1] = at'
  <2>1. seen \in Seq(Entries) /\ seen' = Append(seen, at')
    BY <1>1 DEF IInv, OwnInv, TypeOK
  <2> QED BY <2>1, <1>4, <1>6, Appended, SMTT(30)
<1>8. /\ strong' \in [Nodes -> Nat] /\ strong'[p] = strong[p] + 1
      /\ \A m \in Nodes \ {p} : strong'[m] = strong[m]
  <2>1. strong[p] + 1 \in Nat
    BY <1>5, Types DEF IInv, OwnInv
  <2> QED BY <2>1, <1>1, <1>5 DEF IInv, OwnInv, TypeOK
<1>9. TypeOK'
  BY <1>0, <1>1, <1>2, <1>6, <1>7, <1>8 DEF IInv, OwnInv, TypeOK
<1>10. OwnInv'
  <2>1. ASSUME NEW m \in Nodes
        PROVE  strong'[m] - handles'[m] - Ind(Falls(m)') - Ind(Waits(m)') - Ind(Here(m)')
                 = strong[m] - handles[m] - Ind(Falls(m)) - Ind(Waits(m)) - Ind(Here(m))
    <3>1. strong[m] \in Nat /\ handles[m] \in Nat /\ handles'[m] = handles[m]
      BY <1>1, Types DEF IInv, OwnInv
    <3>2. /\ (Falls(m)' <=> Falls(m)) /\ (Waits(m)' <=> Waits(m))
          /\ ~Here(m) /\ (Here(m)' <=> m = p)
      BY <1>1, <1>6, <1>a DEF Falls, Waits, Here
    <3>3. CASE m = p
      BY <3>1, <3>2, <3>3, <1>8 DEF Ind
    <3>4. CASE m # p
      BY <3>1, <3>2, <3>4, <1>8 DEF Ind
    <3> QED BY <3>3, <3>4
  <2>2. Len(falling') <= 1
    BY <1>1, <1>a
  <2>3. \A i \in DOMAIN seen' : seen'[i][2] <= made
    BY <1>5, <1>6, <1>7 DEF IInv, OwnInv, Ages
  <2>4. \A m \in Nodes : strong'[m] > 0 <=> strong[m] > 0
    BY <1>1, <1>5, <1>8, Types DEF IInv, OwnInv
  <2>5. \A m \in Nodes : m > made \/ children[m] # <<>> => (strong'[m] > 0 <=> strong[m] > 0)
    BY <2>4
  <2> QED BY <1>1, <1>9, <2>1, <2>2, <2>3, <2>5, OwnersKept
<1>11. mode' = "walk" /\ queue' = <<a>>
  BY <1>0, <1>1, <1>a
<1>12. Phases'
  BY <1>6, <1>7, <1>11 DEF Phases
<1>13. \A i \in DOMAIN seen : p < seen[i][2]
  <2> SUFFICES ASSUME NEW i \in DOMAIN seen PROVE p < seen[i][2]
    OBVIOUS
  <2>1. i = l \/ i < l
    BY <1>4
  <2>2. a[2] <= seen[i][2] /\ seen[i][2] \in Nat
    <3>1. seen[i][2] \in Nat
      BY Types, NodeFacts DEF IInv, OwnInv
    <3>2. CASE i = l
      BY <3>1, <3>2, <1>4
    <3>3. CASE i < l
      <4>1. seen[l][2] < seen[i][2]
        BY <3>3, <1>0, <1>4 DEF IInv, TripInv, Visited
      <4> QED BY <4>1, <3>1, <1>4, <1>5
    <3> QED BY <2>1, <3>2, <3>3
  <2> QED BY <2>2, <1>5
<1>14. Visited'
  <2>1. ASSUME NEW i \in DOMAIN seen', NEW j \in DOMAIN seen', seen'[i][2] = seen'[j][2]
        PROVE  i = j
    <3>1. \A k \in DOMAIN seen : seen[k][2] # p
      BY <1>13, <1>5
    <3> QED BY <2>1, <3>1, <1>6, <1>7 DEF IInv, TripInv, Visited
  <2>2. ASSUME NEW i \in DOMAIN seen' \ {1} PROVE parent[seen'[i - 1][2]] = seen'[i][2]
    <3>1. CASE i \in DOMAIN seen
      <4>1. i - 1 \in DOMAIN seen /\ parent[seen[i - 1][2]] = seen[i][2]
        BY <3>1, <1>0, <1>4 DEF IInv, TripInv, Visited
      <4> QED BY <3>1, <4>1, <1>7
    <3>2. CASE i = l + 1
      <4>1. i - 1 = l
        BY <3>2
      <4> QED BY <3>2, <4>1, <1>4, <1>6, <1>7, <1>b
    <3> QED BY <3>1, <3>2, <1>7
  <2>3. ASSUME NEW i \in DOMAIN seen', NEW j \in DOMAIN seen', i < j
        PROVE  seen'[j][2] < seen'[i][2]
    <3>1. i \in DOMAIN seen
      BY <2>3, <1>4, <1>7
    <3>2. CASE j \in DOMAIN seen
      BY <2>3, <3>1, <3>2, <1>0, <1>7 DEF IInv, TripInv, Visited
    <3>3. CASE j = l + 1
      BY <3>1, <3>3, <1>6, <1>7, <1>13
    <3> QED BY <3>2, <3>3, <1>7
  <2> QED BY <1>2, <1>11, <2>1, <2>2, <2>3 DEF Visited
<1>15. Waiting' /\ Levels'
  BY <1>7, <1>11 DEF Waiting, Levels
<1>16. Covered'
  <2>1. todo \subseteq Occurs(seen)
    BY <1>0 DEF IInv, TripInv, Covered
  <2>2. Occurs(seen) \subseteq Occurs(seen)'
    BY <1>7 DEF Occurs
  <2> QED BY <1>1, <1>11, <2>1, <2>2 DEF Covered
<1> QED BY <1>10, <1>12, <1>14, <1>15, <1>16 DEF IInv, TripInv

\* There is no parent, or it is gone: the handle of the last node falls.
LEMMA EndWalkKeeps ==
  ASSUME IInv, EndWalk
  PROVE  IInv' /\ WalkedOut'
<1>0. Idle /\ mode = "walk"
  BY DEF EndWalk
<1>a. PICK a \in Entries :
           /\ queue = <<a>> /\ a[1] \in Nat /\ a[2] \in Nodes /\ falling = <<>> /\ at = <<>>
           /\ seen # <<>> /\ a = seen[Len(seen)] /\ Len(seen) \in Nat \ {0} /\ DOMAIN seen = 1..Len(seen)
  BY <1>0, WalkRests
<1>1. /\ ~HasParent(a[2])
      /\ falling' = <<a[2]>> /\ queue' = <<>> /\ mode' = "walked"
      /\ UNCHANGED <<tree, strong, handles, field, at, seen, todo, halted>>
  <2>1. queue[1] = a
    BY <1>a
  <2> QED BY <2>1 DEF EndWalk
<1>2. made' = made /\ parent' = parent /\ children' = children
  BY <1>1 DEF tree
<1>4. TypeOK'
  <2>1. falling' \in Seq(Nodes) /\ queue' \in Seq(Entries)
    BY <1>1, <1>a
  <2> QED BY <2>1, <1>1, <1>2 DEF IInv, OwnInv, TypeOK
<1>5. OwnInv'
  <2>1. ASSUME NEW m \in Nodes
        PROVE  strong'[m] - handles'[m] - Ind(Falls(m)') - Ind(Waits(m)') - Ind(Here(m)')
                 = strong[m] - handles[m] - Ind(Falls(m)) - Ind(Waits(m)) - Ind(Here(m))
    <3>1. strong[m] \in Nat /\ handles[m] \in Nat /\ handles'[m] = handles[m] /\ strong'[m] = strong[m]
      BY <1>1, Types DEF IInv, OwnInv
    <3>2. /\ ~Falls(m) /\ (Falls(m)' <=> m = a[2]) /\ (Waits(m) <=> m = a[2])
          /\ ~Waits(m)' /\ ~Here(m) /\ ~Here(m)'
      BY <1>1, <1>a DEF Falls, Waits, Here
    <3> QED BY <3>1, <3>2 DEF Ind
  <2>2. Len(falling') <= 1 /\ \A i \in DOMAIN seen' : seen'[i][2] <= made
    BY <1>1 DEF IInv, OwnInv, Ages
  <2>3. \A m \in Nodes : m > made \/ children[m] # <<>> => (strong'[m] > 0 <=> strong[m] > 0)
    BY <1>1
  <2> QED BY <1>1, <1>4, <2>1, <2>2, <2>3, OwnersKept
<1>6. Phases' /\ Waiting' /\ Levels'
  BY <1>1, <1>a DEF Phases, Waiting, Levels
<1>7. Visited'
  BY <1>1, <1>2 DEF IInv, TripInv, Visited
<1>8. Covered'
  BY <1>0, <1>1 DEF IInv, TripInv, Covered, Occurs
<1>9. WalkedOut'
  BY <1>1, <1>2, <1>a DEF WalkedOut, HasParent
<1> QED BY <1>5, <1>6, <1>7, <1>8, <1>9 DEF IInv, TripInv

\* After the walk its last handle drops, which gives no node its life back.
LEMMA WalkedStays ==
  ASSUME IInv, WalkedOut, mode = "walked", [Next]_vars
  PROVE  WalkedOut'
<1>1. at = <<>> /\ ~Calling
  BY DEF IInv, TripInv, Phases, Calling
<1>2. CASE DropStep
  <2>1. PICK n \in Nodes : n = Head(falling)
    <3>1. falling # <<>> /\ falling \in Seq(Nodes)
      BY <1>2 DEF DropStep, IInv, OwnInv, TypeOK
    <3> QED BY <3>1, HeadTailProperties
  <2>2. strong' = [strong EXCEPT ![n] = @ - 1] /\ parent' = parent /\ seen' = seen /\ mode' = mode
    BY <1>2, <2>1 DEF DropStep, trip
  <2>3. Falls(n)
    <3>1. falling # <<>> /\ falling \in Seq(Nodes)
      BY <1>2 DEF DropStep, IInv, OwnInv, TypeOK
    <3> QED BY <3>1, <2>1, Tailed DEF Falls
  <2>4. \A m \in Nodes : strong[m] = 0 => strong'[m] = 0
    <3>1. strong[n] > 0
      BY <2>3, Owners DEF IInv
    <3> QED BY <3>1, <2>2 DEF IInv, OwnInv, TypeOK
  <2>5. Len(seen) \in DOMAIN seen
    <3>1. seen \in Seq(Entries) /\ seen # <<>>
      BY DEF WalkedOut, IInv, OwnInv, TypeOK
    <3> QED BY <3>1, EmptySeq, LenProperties
  <2>6. seen[Len(seen)][2] \in Nodes
    BY <2>5, Types DEF IInv, OwnInv
  <2>7. ~HasParent(seen[Len(seen)][2])'
    <3>1. CASE parent[seen[Len(seen)][2]] = 0
      BY <3>1, <2>2 DEF HasParent
    <3>2. CASE parent[seen[Len(seen)][2]] # 0
      <4>1. parent[seen[Len(seen)][2]] \in Nodes
        BY <3>2, <2>6, Types DEF IInv, OwnInv
      <4>2. strong[parent[seen[Len(seen)][2]]] = 0
        BY <3>2, <4>1, Types DEF WalkedOut, HasParent, IInv, OwnInv
      <4> QED BY <4>1, <4>2, <2>2, <2>4 DEF HasParent
    <3> QED BY <3>1, <3>2
  <2> QED BY <2>2, <2>7 DEF WalkedOut
<1>3. CASE Traversal
  BY <1>1, <1>3 DEF Traversal, VisitNext, VisitChildren, EndVisit, SetNode, WalkUp, EndWalk
<1>4. CASE UNCHANGED vars
  BY <1>4 DEF vars, trip, tree, WalkedOut, HasParent
<1>5. Next => DropStep \/ Traversal
  BY <1>1 DEF Next, Release, New, AddChild, Adds, AddChildPanics, Outgrows, Clone, Borrow, DropHandle, Start
<1> QED BY <1>2, <1>3, <1>4, <1>5

\* A walk that is over has no parent left to visit.
LEMMA WalkedOutStep == IInv /\ WalkedOut /\ [Next]_vars => WalkedOut'
<1> SUFFICES ASSUME IInv, WalkedOut, [Next]_vars, mode # "walked", mode' = "walked" PROVE WalkedOut'
  BY WalkedStays DEF WalkedOut
<1>1. EndWalk
  <2>1. CASE Traversal
    BY <2>1 DEF Traversal, VisitNext, VisitChildren, EndVisit, SetNode, WalkUp
  <2>2. \A n \in Nodes, m \in {"level", "in", "walk"} : ~Start(n, m)
    BY DEF Start
  <2>3. ~(UNCHANGED trip)
    BY DEF trip
  <2>4. CASE Next /\ ~Traversal
    BY <2>2, <2>3, <2>4
    DEF Next, DropStep, Release, New, AddChild, Adds, AddChildPanics, Outgrows, Clone, Borrow, DropHandle
  <2>5. CASE UNCHANGED vars
    BY <2>3, <2>5 DEF vars
  <2> QED BY <2>1, <2>4, <2>5
<1> QED BY <1>1, EndWalkKeeps

-----------------------------------------------------------------------------
\* No traversal has begun.
THEOREM InitIInv == Init => IInv
<1> SUFFICES ASSUME Init PROVE IInv
  OBVIOUS
<1>1. queue = <<>> /\ at = <<>> /\ seen = <<>> /\ mode = "none" /\ todo = {}
  BY DEF Init
<1>2. Phases /\ Visited /\ Waiting /\ Levels /\ Covered
  BY <1>1 DEF Phases, Visited, Waiting, Levels, Covered
<1> QED BY <1>2, InitOwn DEF IInv, TripInv

\* Every step keeps the inductive invariant.
THEOREM NextIInv == IInv /\ [Next]_vars => IInv'
<1> SUFFICES ASSUME IInv, [Next]_vars PROVE IInv'
  OBVIOUS
<1>1. CASE DropStep
  BY <1>1, DropStepKeeps
<1>2. CASE Traversal
  BY <1>2, VisitNextKeeps, VisitChildrenKeeps, EndVisitKeeps, SetNodeKeeps, WalkUpKeeps,
     EndWalkKeeps DEF Traversal
<1>3. CASE Release \/ \E n \in Nodes : Borrow(n)
  BY <1>3, BorrowKeeps
<1>4. CASE \E p \in 0..MaxNodes : New(p)
  BY <1>4, NewKeeps
<1>5. CASE \E n \in Nodes : AddChild(n) \/ AddChildPanics(n) \/ Outgrows(n) \/ Clone(n) \/ DropHandle(n)
  BY <1>5, AddChildKeeps, PanicKeeps, CloneKeeps, DropHandleKeeps
<1>6. CASE \E n \in Nodes : \E m \in {"level", "in", "walk"} : Start(n, m)
  BY <1>6, StartKeeps
<1>7. CASE UNCHANGED vars
  <2>1. UNCHANGED <<tree, strong, handles, falling, trip>> /\ field' = field /\ halted' = halted
    BY <1>7 DEF vars
  <2>2. field' \in 0..MaxNodes /\ halted' \in {"no", "panic", "outgrown"}
    BY <2>1 DEF IInv, OwnInv, TypeOK
  <2> QED BY <2>1, <2>2, Untouched
<1> QED BY <1>1, <1>2, <1>3, <1>4, <1>5, <1>6, <1>7 DEF Next

\* What every state of the tree and of its traversal satisfies.
THEOREM Invariant == Spec => []IInv
BY InitIInv, NextIInv, PTL DEF Spec

\* Every variable keeps its type; a strong count never goes below zero.
THEOREM TypeCorrect == Spec => []TypeOK
<1>1. IInv => TypeOK
  BY DEF IInv, OwnInv
<1> QED BY <1>1, Invariant, PTL

-----------------------------------------------------------------------------
(* What the invariant says to the caller.                                  *)

\* A set of nodes that is not empty has a least one.
LEMMA LeastNode ==
  ASSUME NEW S \in SUBSET Nodes, S # {}
  PROVE  \E m \in S : \A k \in S : ~(k < m)
<1> DEFINE R == OpToRel(<, Nat)
<1>1. IsWellFoundedOn(R, Nat)
  BY NatLessThanWellFounded
<1>2. \A x, y \in Nat : x < y => <<x, y>> \in R
  BY DEF OpToRel
<1> HIDE DEF R
<1>3. S \subseteq Nat
  BY NodeFacts
<1>4. PICK m \in S : \A k \in S : <<k, m>> \notin R
  BY <1>1, <1>3, WFMin, Zenon
<1> QED BY <1>2, <1>3, <1>4

\* Whatever the caller, a traversal or a drop holds, and what is under it, is alive.
LEMMA OwnedLive ==
  ASSUME IInv, NEW n \in Below(Owned)
  PROVE  strong[n] > 0
<1> DEFINE Live == {m \in Nodes : strong[m] > 0}
<1>1. Owned \subseteq Live
  <2> SUFFICES ASSUME NEW m \in Owned PROVE m \in Live
    OBVIOUS
  <2>1. m \in Nodes /\ (handles[m] > 0 \/ Falls(m) \/ Waits(m) \/ Here(m))
    <3>1. CASE m \in {k \in Nodes : handles[k] > 0}
      BY <3>1
    <3>2. CASE m \in {falling[i] : i \in DOMAIN falling}
      BY <3>2, Types DEF IInv, OwnInv, Falls
    <3>3. CASE m \in Occurs(queue)
      BY <3>3, Types DEF IInv, OwnInv, Waits, Occurs
    <3>4. CASE m \in Occurs(IF at = <<>> THEN <<>> ELSE <<at>>)
      <4>1. at # <<>> /\ m = at[2]
        BY <3>4 DEF Occurs
      <4> QED BY <4>1, Types DEF IInv, OwnInv, Here
    <3> QED BY <3>1, <3>2, <3>3, <3>4 DEF Owned
  <2> QED BY <2>1, Owners DEF IInv
<1>2. \A p \in Live : Kids(p) \subseteq Live
  <2> SUFFICES ASSUME NEW p \in Live, NEW i \in DOMAIN children[p] PROVE children[p][i] \in Live
    BY DEF Kids
  <2>1. /\ children[p][i] \in Nodes /\ parent[children[p][i]] = p /\ p # 0
    BY Types, NodeFacts DEF IInv, OwnInv, Lists
  <2>2. Listed(children[p][i])
    BY <2>1 DEF Listed
  <2> QED BY <2>1, <2>2, Owners DEF IInv
<1>3. Live \in SUBSET Nodes
  OBVIOUS
<1>4. n \in Live
  BY <1>1, <1>2, <1>3 DEF Below
<1> QED BY <1>4

\* No node outlives its owners: the oldest that did would hang on an older one.
LEMMA LiveOwned ==
  ASSUME IInv, NEW n \in Nodes, strong[n] > 0
  PROVE  n \in Below(Owned)
<1> PICK Lost : Lost = {m \in Nodes : strong[m] > 0 /\ m \notin Below(Owned)}
  OBVIOUS
<1> SUFFICES ASSUME Lost # {} PROVE FALSE
  OBVIOUS
<1>1. PICK m \in Lost : \A k \in Lost : ~(k < m)
  BY LeastNode
<1>2. m \in Nodes /\ strong[m] > 0 /\ m \notin Below(Owned)
  BY <1>1
<1>3. m \notin Owned
  BY <1>2 DEF Below
<1>4. ~(handles[m] > 0) /\ ~Falls(m) /\ ~Waits(m) /\ ~Here(m)
  <2>1. ~(handles[m] > 0) /\ ~Falls(m)
    BY <1>2, <1>3 DEF Owned, Falls
  <2>2. ~Waits(m)
    BY <1>3 DEF Owned, Waits, Occurs
  <2>3. ~Here(m)
    BY <1>3 DEF Owned, Here, Occurs
  <2> QED BY <2>1, <2>2, <2>3
<1>5. Listed(m)
  BY <1>2, <1>4, Owners DEF IInv
<1>6. PICK p \in Nodes : p = parent[m] /\ p < m /\ m \in Kids(p) /\ children[p] # <<>>
  <2>1. parent[m] \in Nodes /\ parent[m] < m
    BY <1>2, <1>5, Types DEF IInv, OwnInv, Ages, Listed
  <2>2. m \in Kids(parent[m]) /\ children[parent[m]] # <<>>
    BY <1>5 DEF Listed, Kids
  <2> QED BY <2>1, <2>2
<1>7. strong[p] > 0
  BY <1>6 DEF IInv, OwnInv, Lists
<1>8. p \in Below(Owned)
  BY <1>1, <1>6, <1>7
<1>9. m \in Below(Owned)
  BY <1>2, <1>6, <1>8 DEF Below
<1> QED BY <1>2, <1>9

\* A node lives exactly as long as something that is held, or is under something that is,
\* whatever the caller drops, in whatever order (Rc around Inner, Weak to the parent).
THEOREM LivesWhileOwned == Spec => []AliveIffOwned
<1>1. IInv => AliveIffOwned
  BY OwnedLive, LiveOwned DEF AliveIffOwned
<1> QED BY <1>1, Invariant, PTL

\* The order of the visits, from what the invariant says of the levels and the parents.
LEMMA InOrder ==
  ASSUME IInv
  PROVE  VisitOrder
<1>1. \A i, j \in DOMAIN seen : seen[i][2] = seen[j][2] => i = j
  BY DEF IInv, TripInv, Visited
<1>2. ASSUME mode \in {"level", "in"}, NEW i \in DOMAIN seen \ {1}
      PROVE  \E j \in 1..(i - 1) : seen[j] = <<seen[i][1] - 1, parent[seen[i][2]]>>
  <2>1. PICK j \in 1..(i - 1) : seen[j][1] + 1 = seen[i][1] /\ seen[j][2] = parent[seen[i][2]]
    BY <1>2 DEF IInv, TripInv, Visited
  <2>2. j \in DOMAIN seen
    <3>1. DOMAIN seen = 1..Len(seen) /\ Len(seen) \in Nat
      BY LenProperties DEF IInv, OwnInv, TypeOK
    <3> QED BY <3>1
  <2>3. seen[j] \in Nat \X Nodes /\ seen[i][1] \in Nat /\ seen[j][1] \in Nat
    BY <2>2, Types DEF IInv, OwnInv, Entries
  <2>4. seen[j] = <<seen[j][1], seen[j][2]>> /\ seen[j][1] = seen[i][1] - 1
    BY <2>1, <2>3
  <2> QED BY <2>1, <2>4
<1>3. mode = "level" => \A i, j \in DOMAIN seen : i < j => seen[i][1] <= seen[j][1]
  BY DEF IInv, TripInv, Levels
<1>4. ASSUME mode = "in", NEW i \in DOMAIN seen \ {1}, NEW j \in 1..(i - 1),
             seen[j][2] = parent[seen[i][2]], NEW k \in (j + 1)..(i - 1)
      PROVE  seen[k][1] > seen[j][1]
  <2>1. j \in DOMAIN seen /\ j < i
    <3>1. DOMAIN seen = 1..Len(seen) /\ Len(seen) \in Nat
      BY LenProperties DEF IInv, OwnInv, TypeOK
    <3> QED BY <3>1
  <2> QED BY <1>4, <2>1 DEF IInv, TripInv, Levels
<1>5. mode = "walk" => \A i \in DOMAIN seen \ {1} : parent[seen[i - 1][2]] = seen[i][2]
  BY DEF IInv, TripInv, Visited
<1> QED BY <1>1, <1>2, <1>3, <1>4, <1>5 DEF VisitOrder

\* A traversal shows its visitor no node twice, each in its place, and in the end all that
\* were under its root when it began, or a walk all parents there are (visit_level_order,
\* visit_in_order, walk).
THEOREM VisitsAllInOrder == Spec => []VisitsRight
<1>1. IInv /\ WalkedOut => VisitsAll
  BY DEF IInv, TripInv, Covered, WalkedOut, VisitsAll
<1>2. IInv /\ WalkedOut => VisitsRight
  BY <1>1, InOrder DEF VisitsRight
<1>3. Init => WalkedOut
  BY DEF Init, WalkedOut
<1>4. Spec => []WalkedOut
  BY <1>3, WalkedOutStep, Invariant, PTL DEF Spec
<1> QED BY <1>2, <1>4, Invariant, PTL
=============================================================================
