------------------------- MODULE InternCacheProofs -------------------------
(***************************************************************************)
(* The string cache, for any number of threads, values and addresses: its  *)
(* blocks and its entries belong together, a block that every miss on its  *)
(* key has settled for stays, and each call is a step of the table.        *)
(*                                                                         *)
(* HeapIsCache is inductive on top of TypeOK.  That two threads may insert *)
(* the same key, the second freeing the first one's block, is what it has  *)
(* to survive: a block is only ever replaced by a new one for its value.   *)
(***************************************************************************)
EXTENDS InternCache, TLAPS

IInv == TypeOK /\ HeapIsCache

-----------------------------------------------------------------------------
\* A call that is on its way has a value to intern.
LEMMA CallHasValue ==
  ASSUME TypeOK, NEW t \in Threads, pc[t] # "out"
  PROVE  want[t] \in Values
BY DEF TypeOK

\* An empty map and no block: nothing to disagree about.
LEMMA InitIInv == Init => IInv
BY CacheAssumption DEF Init, IInv, TypeOK, HeapIsCache

\* A step of thread t that leaves the cache alone and takes it from one place in its call to
\* another.
LEMMA MoveKeeps ==
  ASSUME IInv, NEW t \in Threads, pc[t] # "out",
         NEW to \in {"read", "look", "write", "drain"},
         pc' = [pc EXCEPT ![t] = to],
         readers' = IF to = "look" THEN readers \cup {t} ELSE readers \ {t},
         UNCHANGED <<want, cache, heap, answer, held>>
  PROVE  IInv'
<1>1. readers' = {s \in Threads : pc'[s] = "look"}
  BY DEF IInv, TypeOK
<1>2. \A s \in Threads : want'[s] = None <=> pc'[s] = "out"
  BY DEF IInv, TypeOK
<1>3. TypeOK'
  BY <1>1, <1>2 DEF IInv, TypeOK
<1>4. HeapIsCache'
  BY DEF IInv, HeapIsCache
<1> QED BY <1>3, <1>4 DEF IInv

\* A call that returns block a: the cache holds its value there.
LEMMA ReturnKeeps ==
  ASSUME TypeOK, NEW t \in Threads, pc[t] # "out", NEW a \in Addresses,
         Return(t, a), readers' = readers \ {t},
         cache' \in [Values -> Addresses \cup {None}],
         heap' \in [Addresses -> Values \cup {None}]
  PROVE  TypeOK'
<1>1. readers' = {s \in Threads : pc'[s] = "look"}
  BY DEF TypeOK, Return
<1>2. \A s \in Threads : want'[s] = None <=> pc'[s] = "out"
  BY DEF TypeOK, Return
<1>3. /\ pc' \in [Threads -> {"out", "read", "look", "write", "drain"}]
      /\ want' \in [Threads -> Values \cup {None}]
      /\ answer' \in [Threads -> Values \cup {None}]
      /\ held' \in [Threads -> Addresses \cup {None}]
  BY DEF TypeOK, Return
<1> QED BY <1>1, <1>2, <1>3 DEF TypeOK

\* What an insertion does to the map and to the blocks: the value has a new block, the one it
\* had is free, and no other entry is touched.
LEMMA InsertFacts ==
  ASSUME IInv, NEW t \in Threads, Insert(t)
  PROVE  \E a \in Addresses :
           /\ want[t] \in Values /\ pc[t] = "drain" /\ heap[a] = None
           /\ cache' = [cache EXCEPT ![want[t]] = a]
           /\ heap' = [b \in Addresses |-> IF b = a THEN want[t]
                                           ELSE IF b = cache[want[t]] THEN None ELSE heap[b]]
           /\ readers' = readers \ {t}
           /\ Return(t, a)
<1>1. PICK a \in Addresses : InsertAt(t, a, {cache[want[t]]})
  BY DEF Insert
<1>2. pc[t] = "drain" /\ readers = {} /\ heap[a] = None /\ readers' = readers
      /\ cache' = [cache EXCEPT ![want[t]] = a] /\ Return(t, a)
      /\ heap' = [b \in Addresses |-> IF b = a THEN want[t]
                                      ELSE IF b \in {cache[want[t]]} THEN None ELSE heap[b]]
  BY <1>1 DEF InsertAt
<1>3. want[t] \in Values
  BY <1>2, CallHasValue DEF IInv
<1> QED BY <1>2, <1>3

\* The block of a replaced entry was that entry's alone, so freeing it hurts no other entry.
LEMMA InsertKeeps ==
  ASSUME IInv, NEW t \in Threads, Insert(t)
  PROVE  IInv'
<1>1. PICK a \in Addresses :
        /\ want[t] \in Values /\ pc[t] = "drain" /\ heap[a] = None
        /\ cache' = [cache EXCEPT ![want[t]] = a]
        /\ heap' = [b \in Addresses |-> IF b = a THEN want[t]
                                        ELSE IF b = cache[want[t]] THEN None ELSE heap[b]]
        /\ readers' = readers \ {t}
        /\ Return(t, a)
  BY InsertFacts
<1>2. cache' \in [Values -> Addresses \cup {None}] /\ heap' \in [Addresses -> Values \cup {None}]
  BY <1>1 DEF IInv, TypeOK
<1>3. TypeOK'
  BY <1>1, <1>2, ReturnKeeps DEF IInv
<1>4. ASSUME NEW v \in Values, cache'[v] # None PROVE heap'[cache'[v]] = v
  <2>1. CASE v = want[t]
    BY <1>1, <2>1 DEF IInv, TypeOK
  <2>2. CASE v # want[t]
    <3>1. cache'[v] = cache[v] /\ cache[v] \in Addresses /\ heap[cache[v]] = v
      BY <1>1, <1>4, <2>2 DEF IInv, TypeOK, HeapIsCache
    <3>2. cache[v] # a
      BY <1>1, <3>1, CacheAssumption
    <3>3. cache[v] # cache[want[t]]
      BY <1>1, <2>2, <3>1, CacheAssumption DEF IInv, HeapIsCache
    <3> QED BY <1>1, <3>1, <3>2, <3>3
  <2> QED BY <2>1, <2>2
<1>5. ASSUME NEW b \in Addresses, heap'[b] # None PROVE cache'[heap'[b]] = b
  <2>1. CASE b = a
    BY <1>1, <2>1 DEF IInv, TypeOK
  <2>2. CASE b # a
    <3>1. b # cache[want[t]] /\ heap'[b] = heap[b]
      BY <1>1, <1>5, <2>2
    <3>2. heap[b] \in Values /\ cache[heap[b]] = b
      BY <1>5, <3>1 DEF IInv, TypeOK, HeapIsCache
    <3>3. heap[b] # want[t]
      BY <3>1, <3>2
    <3> QED BY <1>1, <3>1, <3>2, <3>3 DEF IInv, TypeOK
  <2> QED BY <2>1, <2>2
<1>6. HeapIsCache'
  BY <1>4, <1>5 DEF HeapIsCache
<1> QED BY <1>3, <1>6 DEF IInv

LEMMA StepKeeps == IInv /\ [Next]_vars => IInv'
<1> SUFFICES ASSUME IInv, [Next]_vars PROVE IInv'
  OBVIOUS
<1>1. ASSUME NEW t \in Threads, NEW v \in Values, Call(t, v) PROVE IInv'
  <2>1. readers' = {s \in Threads : pc'[s] = "look"}
    BY <1>1 DEF IInv, TypeOK, Call
  <2>2. \A s \in Threads : want'[s] = None <=> pc'[s] = "out"
    BY <1>1, CacheAssumption DEF IInv, TypeOK, Call
  <2>3. TypeOK'
    BY <1>1, <2>1, <2>2 DEF IInv, TypeOK, Call
  <2> QED BY <1>1, <2>3 DEF IInv, HeapIsCache, Call
<1>2. ASSUME NEW t \in Threads, Read(t) PROVE IInv'
  BY <1>2, MoveKeeps DEF Read
<1>3. ASSUME NEW t \in Threads, Hit(t) PROVE IInv'
  <2>1. cache[want[t]] \in Addresses
    BY <1>3, CallHasValue DEF IInv, TypeOK, Hit
  <2>2. TypeOK'
    BY <1>3, <2>1, ReturnKeeps DEF IInv, TypeOK, Hit
  <2> QED BY <1>3, <2>2 DEF IInv, HeapIsCache, Hit
<1>4. ASSUME NEW t \in Threads, Miss(t) PROVE IInv'
  BY <1>4, MoveKeeps DEF Miss
<1>5. ASSUME NEW t \in Threads, LockWrite(t) PROVE IInv'
  <2>1. readers' = readers \ {t}
    BY <1>5 DEF LockWrite, IInv, TypeOK
  <2> QED BY <1>5, <2>1, MoveKeeps DEF LockWrite
<1>6. ASSUME NEW t \in Threads, Insert(t) PROVE IInv'
  BY <1>6, InsertKeeps
<1>7. CASE UNCHANGED vars
  BY <1>7 DEF IInv, TypeOK, HeapIsCache, vars
<1> QED BY <1>1, <1>2, <1>3, <1>4, <1>5, <1>6, <1>7 DEF Next

THEOREM Invariant == SafeSpec => []IInv
BY InitIInv, StepKeeps, PTL DEF SafeSpec

\* Every variable of the cache and of its callers keeps its type, and the holders of the
\* read lock are the threads that look (AllocInterned::alloc_interned).
THEOREM TypeCorrect == Spec => []TypeOK
BY Invariant, PTL DEF Spec, IInv

\* However many threads miss the same key at once, an entry's block holds its value and
\* no block without an entry stays allocated (the insertion after drop(cache)).
THEOREM BlocksAreEntries == Spec => []HeapIsCache
BY Invariant, PTL DEF Spec, IInv

-----------------------------------------------------------------------------
(* Blocks that stay.                                                       *)

SettledAt(v, a) == Settled(v) /\ cache[v] = a

\* A call that begins after v is settled finds the entry, so it never inserts.
LEMMA SettledKeeps ==
  ASSUME NEW v \in Values, NEW a \in Addresses
  PROVE  IInv /\ SettledAt(v, a) /\ [Next]_vars => SettledAt(v, a)'
<1> SUFFICES ASSUME IInv, SettledAt(v, a), [Next]_vars PROVE SettledAt(v, a)'
  OBVIOUS
<1>1. ASSUME NEW t \in Threads, NEW w \in Values, Call(t, w) PROVE SettledAt(v, a)'
  BY <1>1 DEF SettledAt, Settled, Call, IInv, TypeOK
<1>2. ASSUME NEW t \in Threads, Read(t) PROVE SettledAt(v, a)'
  BY <1>2 DEF SettledAt, Settled, Read, IInv, TypeOK
<1>3. ASSUME NEW t \in Threads, Hit(t) PROVE SettledAt(v, a)'
  BY <1>3, CacheAssumption DEF SettledAt, Settled, Hit, Return, IInv, TypeOK
<1>4. ASSUME NEW t \in Threads, Miss(t) \/ LockWrite(t) PROVE SettledAt(v, a)'
  <2>1. want[t] # v /\ want' = want /\ cache' = cache
    BY <1>4 DEF SettledAt, Settled, Miss, LockWrite, IInv, TypeOK
  <2> QED BY <1>4, <2>1 DEF SettledAt, Settled, Miss, LockWrite, IInv, TypeOK
<1>5. ASSUME NEW t \in Threads, Insert(t) PROVE SettledAt(v, a)'
  <2>1. PICK b \in Addresses : /\ pc[t] = "drain" /\ Return(t, b)
                               /\ cache' = [cache EXCEPT ![want[t]] = b]
    BY <1>5, InsertFacts
  <2>2. want[t] # v
    BY <2>1 DEF SettledAt, Settled
  <2> QED BY <2>1, <2>2, CacheAssumption DEF SettledAt, Settled, Return, IInv, TypeOK
<1>6. CASE UNCHANGED vars
  BY <1>6 DEF SettledAt, Settled, vars
<1> QED BY <1>1, <1>2, <1>3, <1>4, <1>5, <1>6 DEF Next

\* Once the calls that missed v have returned, v's block is v's block for ever: the
\* references handed out from then on are as static as they claim
\* (HashMap::insert replaces an entry, get returns it).
THEOREM SettledStays == Spec => SettledForGood
<1> SUFFICES ASSUME NEW v \in Values, NEW a \in Addresses
             PROVE  Spec => [](SettledAt(v, a) => []SettledAt(v, a))
  BY DEF SettledForGood, SettledAt
<1>1. IInv /\ SettledAt(v, a) /\ [Next]_vars => SettledAt(v, a)'
  BY SettledKeeps
<1> QED BY <1>1, Invariant, PTL DEF Spec, SafeSpec

-----------------------------------------------------------------------------
(* The table.                                                              *)

Known == {v \in Values : cache[v] # None}

\* Every step of the cache is a step of the table or leaves it as it is.
LEMMA StepRefines == IInv /\ [Next]_vars => [Table!Next]_(Table!vars)
<1> SUFFICES ASSUME IInv, [Next]_vars PROVE [Table!Next]_(Table!vars)
  OBVIOUS
<1> USE DEF Table!vars
<1>1. ASSUME NEW t \in Threads, NEW v \in Values, Call(t, v) PROVE Table!Next
  <2>1. want[t] = None
    BY <1>1 DEF Call, IInv, TypeOK
  <2>2. Table!Ask(t, v)
    BY <1>1, <2>1 DEF Call, Table!Ask
  <2> QED BY <2>2 DEF Table!Next
<1>2. ASSUME NEW t \in Threads, Read(t) \/ Miss(t) \/ LockWrite(t) PROVE UNCHANGED Table!vars
  BY <1>2 DEF Read, Miss, LockWrite
<1>3. ASSUME NEW t \in Threads, Hit(t) PROVE Table!Next
  <2>1. want[t] \in Values /\ cache[want[t]] # None
    BY <1>3, CallHasValue DEF Hit, IInv
  <2>2. heap'[cache[want[t]]] = want[t]
    BY <1>3, <2>1 DEF Hit, IInv, HeapIsCache
  <2>3. Known' = Known \cup {want[t]}
    BY <1>3, <2>1 DEF Hit, Known
  <2>4. Table!Answer(t)
    BY <1>3, <2>1, <2>2, <2>3, CacheAssumption DEF Hit, Return, Table!Answer, Known
  <2> QED BY <2>4 DEF Table!Next
<1>4. ASSUME NEW t \in Threads, Insert(t) PROVE Table!Next
  <2>1. PICK a \in Addresses :
          /\ want[t] \in Values /\ pc[t] = "drain" /\ heap[a] = None
          /\ cache' = [cache EXCEPT ![want[t]] = a]
          /\ heap' = [b \in Addresses |-> IF b = a THEN want[t]
                                          ELSE IF b = cache[want[t]] THEN None ELSE heap[b]]
          /\ Return(t, a)
    BY <1>4, InsertFacts
  <2>2. heap'[a] = want[t]
    BY <2>1
  <2>3. Known' = Known \cup {want[t]}
    BY <2>1, CacheAssumption DEF Known, IInv, TypeOK
  <2>4. Table!Answer(t)
    BY <2>1, <2>2, <2>3, CacheAssumption DEF Return, Table!Answer, Known
  <2> QED BY <2>4 DEF Table!Next
<1>5. CASE UNCHANGED vars
  BY <1>5 DEF vars
<1> QED BY <1>1, <1>2, <1>3, <1>4, <1>5 DEF Next

\* Whatever the threads do to the lock and the blocks in between, each call is answered with
\* the value that was asked for, and what is known stays known (the safety of the table).
THEOREM ImplementsTable == Spec => Table!SafeSpec
<1>1. Init => Table!Init
  BY DEF Init, Table!Init
<1> QED BY <1>1, StepRefines, Invariant, PTL DEF Spec, SafeSpec, Table!SafeSpec
=============================================================================
