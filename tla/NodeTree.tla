------------------------------ MODULE NodeTree ------------------------------
(***************************************************************************)
(* The tree nodes of x005 graph.rs and the Rc and RefCell around them in   *)
(* shared.rs.  One thread calls them: a node owns its children, knows its  *)
(* parent weakly, and is kept alive by the handles (Node values) that the  *)
(* caller, a traversal or another node's list holds.  The caller makes at  *)
(* most one traversal, whose visitor may call everything else.             *)
(***************************************************************************)
EXTENDS Naturals, Sequences

CONSTANTS MaxNodes,   \* nodes created in all
          MaxHandles  \* handles the caller holds of one node

ASSUME TreeAssumption == MaxNodes \in Nat \ {0} /\ MaxHandles \in Nat \ {0}

Nodes == 1..MaxNodes

VARIABLES made,      \* nodes created: COUNTER
          parent,    \* Inner.parent, 0 if it dangles from the start
          children,  \* Inner.children
          strong,    \* the strong count of a node's Rc
          handles,   \* handles the caller holds
          field,     \* the node the caller holds a FieldRef of (one at most), or 0
          falling,   \* handles being dropped
          mode,      \* the traversal: "none", "level", "in", "walk", "done", or "walked"
          queue,     \* its queue of levels and nodes; of a walk, the variable `node`
          at,        \* the level and node whose visitor runs, or <<>>
          seen,      \* the levels and nodes visited
          todo,      \* the nodes under the root when the traversal began
          halted     \* "panic": the RefCell was borrowed; "outgrown": the visitor adds
                     \* more nodes than MaxNodes, where the model ends; or "no"

tree == <<made, parent, children>>
trip == <<mode, queue, at, seen, todo>>
vars == <<tree, strong, handles, field, falling, trip, halted>>

Entries == Nat \X Nodes

TypeOK ==
  /\ made \in 0..MaxNodes
  /\ parent \in [Nodes -> 0..MaxNodes]
  /\ children \in [Nodes -> Seq(Nodes)]
  /\ strong \in [Nodes -> Nat]
  /\ handles \in [Nodes -> 0..MaxHandles]
  /\ field \in 0..MaxNodes
  /\ falling \in Seq(Nodes)
  /\ mode \in {"none", "level", "in", "walk", "done", "walked"}
  /\ queue \in Seq(Entries) /\ seen \in Seq(Entries)
  /\ at \in Entries \cup {<<>>}
  /\ todo \subseteq Nodes
  /\ halted \in {"no", "panic", "outgrown"}

Init ==
  /\ made = 0
  /\ parent = [n \in Nodes |-> 0]
  /\ children = [n \in Nodes |-> <<>>]
  /\ strong = [n \in Nodes |-> 0]
  /\ handles = [n \in Nodes |-> 0]
  /\ field = 0
  /\ falling = <<>>
  /\ mode = "none" /\ queue = <<>> /\ at = <<>> /\ seen = <<>> /\ todo = {}
  /\ halted = "no"

Kids(n) == {children[n][i] : i \in DOMAIN children[n]}

\* The nodes of S and all below them: the least set that has S and is closed under children.
Below(S) ==
  {n \in Nodes : \A T \in SUBSET Nodes : S \subseteq T /\ (\A p \in T : Kids(p) \subseteq T) => n \in T}

-----------------------------------------------------------------------------
(* The caller, or the visitor it gave to a traversal.                      *)

Calling == halted = "no" /\ falling = <<>> /\ (mode = "none" \/ at # <<>>)

\* A node the caller can name.
Has(n) == handles[n] > 0 \/ (at # <<>> /\ at[2] = n)

Gains(n, count) ==
  /\ handles[n] < MaxHandles
  /\ handles' = [handles EXCEPT ![n] = @ + 1]
  /\ strong' = [strong EXCEPT ![n] = count]

\* Node::new, with a parent that does not list the new node, or without one (0).
New(p) ==
  /\ Calling /\ made < MaxNodes
  /\ p # 0 => Has(p)
  /\ made' = made + 1
  /\ parent' = [parent EXCEPT ![made'] = p]
  /\ Gains(made', 1)
  /\ UNCHANGED <<children, field, falling, trip, halted>>

\* Mutation: the visitor is called inside the loop over children().
BorrowedInLoop(n) == field = n \/ (at # <<>> /\ at[2] = n)

\* The RefCell has a reader: borrow_mut panics.
Borrowed(n) == field = n

\* The new node has two owners, the list and the handle that is returned, and owns no one.
Adds(p, strongAfter) ==
  /\ Calling /\ made < MaxNodes
  /\ Has(p) /\ ~Borrowed(p)
  /\ made' = made + 1
  /\ parent' = [parent EXCEPT ![made'] = p]
  /\ children' = [children EXCEPT ![p] = Append(@, made')]
  /\ handles' = [handles EXCEPT ![made'] = 1]
  /\ strong' = strongAfter
  /\ UNCHANGED <<field, falling, trip, halted>>

\* Mutations: the handle in the list is not cloned for the caller; the parent link is strong.
AddChildUncloned(p) == Adds(p, [strong EXCEPT ![made + 1] = 1])
AddChildOwning(p)   == Adds(p, [strong EXCEPT ![made + 1] = 2, ![p] = @ + 1])

AddChild(p) == Adds(p, [strong EXCEPT ![made + 1] = 2])

AddChildPanics(p) ==
  /\ Calling /\ Has(p) /\ Borrowed(p)
  /\ halted' = "panic"
  /\ UNCHANGED <<tree, strong, handles, field, falling, trip>>

\* add_child has no bound: a visitor that adds to each node it is given is given what it
\* adds. Here the model stops following it.
Outgrows(p) ==
  /\ Calling /\ mode \in {"level", "in"} /\ made = MaxNodes
  /\ Has(p) /\ ~Borrowed(p)
  /\ halted' = "outgrown"
  /\ UNCHANGED <<tree, strong, handles, field, falling, trip>>

\* clone() of a handle, of an element of children(), or of what parent() upgrades.
Clone(n) ==
  /\ Calling
  /\ \/ Has(n)
     \/ \E m \in Nodes : Has(m) /\ (n = parent[m] \/ n \in Kids(m))
  /\ strong[n] > 0
  /\ Gains(n, strong[n] + 1)
  /\ UNCHANGED <<tree, field, falling, trip, halted>>

\* children() or data(): the FieldRef lives at most as long as the handle it was called on.
Borrow(n) ==
  /\ Calling /\ Has(n) /\ field = 0
  /\ field' = n
  /\ UNCHANGED <<tree, strong, handles, falling, trip, halted>>

Release ==
  /\ Calling /\ field # 0
  /\ field' = 0
  /\ UNCHANGED <<tree, strong, handles, falling, trip, halted>>

\* A handle of the caller's goes elsewhere. The last one cannot while a FieldRef needs it.
Loses(n) ==
  /\ handles[n] > 0 /\ (field = n => handles[n] > 1)
  /\ handles' = [handles EXCEPT ![n] = @ - 1]

DropHandle(n) ==
  /\ Calling /\ Loses(n)
  /\ falling' = <<n>>
  /\ UNCHANGED <<tree, strong, field, trip, halted>>

\* Rc::drop: the last owner drops the node, and with it the handles in its list.
DropStep ==
  /\ falling # <<>> /\ halted = "no"
  /\ LET n == Head(falling)
     IN /\ strong' = [strong EXCEPT ![n] = @ - 1]
        /\ falling' = (IF strong'[n] = 0 THEN children[n] ELSE <<>>) \o Tail(falling)
        /\ children' = IF strong'[n] = 0 THEN [children EXCEPT ![n] = <<>>] ELSE children
  /\ UNCHANGED <<made, parent, handles, field, trip, halted>>

-----------------------------------------------------------------------------
(* visit_level_order, visit_in_order and walk.                             *)

\* The handle of the root moves into the traversal.
Start(n, m) ==
  /\ Calling /\ mode = "none" /\ Loses(n)
  /\ mode' = m
  /\ queue' = IF m = "walk" THEN <<>> ELSE <<<<0, n>>>>
  /\ at' = IF m = "walk" THEN <<0, n>> ELSE <<>>
  /\ seen' = IF m = "walk" THEN <<at'>> ELSE <<>>
  /\ todo' = IF m = "walk" THEN {} ELSE Below({n})
  /\ UNCHANGED <<tree, strong, field, falling, halted>>

\* Mutation: the first-in end is popped in both.
PopFirst == <<queue[1], Tail(queue)>>
PopLast  == <<queue[Len(queue)], SubSeq(queue, 1, Len(queue) - 1)>>

\* pop_front or pop_back: the entry and what is left.
Pop == IF mode = "level" THEN PopFirst ELSE PopLast

Idle == halted = "no" /\ falling = <<>> /\ at = <<>>

VisitNext ==
  /\ Idle /\ mode \in {"level", "in"} /\ queue # <<>>
  /\ at' = Pop[1] /\ queue' = Pop[2]
  /\ seen' = Append(seen, at')
  /\ UNCHANGED <<tree, strong, handles, field, falling, mode, todo, halted>>

\* A FieldRef on the reference that the visitor was given ends with its call.
VisitorReturns ==
  /\ Calling /\ at # <<>>
  /\ field' = IF field = at[2] /\ handles[at[2]] = 0 THEN 0 ELSE field

\* The children are cloned into the queue, then the node is dropped.
VisitChildren ==
  LET kids == children[at[2]]
  IN /\ VisitorReturns /\ mode \in {"level", "in"}
     /\ queue' = queue \o [i \in DOMAIN kids |-> <<at[1] + 1, kids[i]>>]
     /\ strong' = [n \in Nodes |-> IF \E i \in DOMAIN kids : kids[i] = n
                                   THEN strong[n] + 1 ELSE strong[n]]
     /\ falling' = <<at[2]>>
     /\ at' = <<>>
     /\ UNCHANGED <<tree, handles, mode, seen, todo, halted>>

EndVisit ==
  /\ Idle /\ mode \in {"level", "in"} /\ queue = <<>>
  /\ mode' = "done"
  /\ UNCHANGED <<tree, strong, handles, field, falling, queue, at, seen, todo, halted>>

\* The weak link to the node's parent can be upgraded.
HasParent(n) == parent[n] # 0 /\ strong[parent[n]] > 0

\* node = parent, after the visitor: the node below was held until now. At first the visitor
\* is given `node` itself.
SetNode ==
  /\ VisitorReturns /\ mode = "walk"
  /\ queue' = <<at>> /\ at' = <<>>
  /\ falling' = IF queue = <<>> THEN <<>> ELSE <<queue[1][2]>>
  /\ UNCHANGED <<tree, strong, handles, mode, seen, todo, halted>>

\* The parent is upgraded and visited.
WalkUp ==
  /\ Idle /\ mode = "walk" /\ HasParent(queue[1][2])
  /\ LET p == parent[queue[1][2]]
     IN /\ strong' = [strong EXCEPT ![p] = @ + 1]
        /\ at' = <<queue[1][1] + 1, p>>
  /\ seen' = Append(seen, at')
  /\ UNCHANGED <<tree, handles, field, falling, mode, queue, todo, halted>>

EndWalk ==
  /\ Idle /\ mode = "walk" /\ ~HasParent(queue[1][2])
  /\ falling' = <<queue[1][2]>> /\ queue' = <<>>
  /\ mode' = "walked"
  /\ UNCHANGED <<tree, strong, handles, field, at, seen, todo, halted>>

Traversal == VisitNext \/ VisitChildren \/ EndVisit \/ SetNode \/ WalkUp \/ EndWalk

Next ==
  \/ DropStep \/ Traversal \/ Release
  \/ \E p \in 0..MaxNodes : New(p)
  \/ \E n \in Nodes :
       \/ AddChild(n) \/ AddChildPanics(n) \/ Outgrows(n) \/ Clone(n) \/ Borrow(n)
       \/ DropHandle(n) \/ \E m \in {"level", "in", "walk"} : Start(n, m)

\* The visitor returns; what it calls in between disables the traversal for a while.
Spec == Init /\ [][Next]_vars /\ WF_vars(DropStep) /\ SF_vars(Traversal)

-----------------------------------------------------------------------------
(* Properties.                                                             *)

Occurs(s) == {s[i][2] : i \in DOMAIN s}
Owned == {n \in Nodes : handles[n] > 0} \cup {falling[i] : i \in DOMAIN falling} \cup Occurs(queue)
           \cup Occurs(IF at = <<>> THEN <<>> ELSE <<at>>)

\* A node lives exactly as long as something that is held, or is under something that is:
\* links to parents leak nothing, and no list or queue holds a node that is gone.
AliveIffOwned == \A n \in Nodes : strong[n] > 0 <=> n \in Below(Owned)

\* A traversal visits no node twice and each one below the node that lists it; in level
\* order the levels ascend, in the other one a subtree is visited in one go; a walk goes
\* from each node to its parent.
VisitOrder ==
  /\ \A i, j \in DOMAIN seen : seen[i][2] = seen[j][2] => i = j
  /\ mode \in {"level", "in"} => \A i \in DOMAIN seen \ {1} :
       \E j \in 1..(i - 1) : seen[j] = <<seen[i][1] - 1, parent[seen[i][2]]>>
  /\ mode = "level" => \A i, j \in DOMAIN seen : i < j => seen[i][1] <= seen[j][1]
  /\ mode = "in" => \A i \in DOMAIN seen \ {1} :
       \/ seen[i - 1][2] = parent[seen[i][2]]
       \/ \A j \in 1..(i - 1) : seen[j][2] = parent[seen[i][2]] =>
            \A k \in (j + 1)..(i - 1) : seen[k][1] > seen[j][1]
  /\ mode = "walk" => \A i \in DOMAIN seen \ {1} : parent[seen[i - 1][2]] = seen[i][2]

\* Every node that was under the root at the start has its visit, whatever handles the
\* visitor drops and whatever nodes it adds; a walk stops only where the parent is gone.
VisitsAll ==
  /\ mode = "done" => todo \subseteq Occurs(seen)
  /\ mode = "walked" => ~HasParent(seen[Len(seen)][2])

\* What a traversal shows its visitor: nothing twice, nothing out of order, nothing left out.
VisitsRight == VisitOrder /\ VisitsAll

\* A walk ends whatever its visitor does, and the other traversals end unless theirs goes on
\* adding children (Outgrows), if add_child does not panic; it does only for a FieldRef that
\* the caller keeps, in a visitor too.
TraversalEnds ==
  mode \in {"level", "in", "walk"} ~>
    \/ mode \in {"done", "walked"}
    \/ halted = "panic" /\ field # 0
    \/ halted = "outgrown" /\ mode # "walk"
=============================================================================
