---------------------------- MODULE InternCache ----------------------------
(***************************************************************************)
(* The StaticStringCache of x002 lib.rs, called by several threads: a      *)
(* parking_lot RwLock around a map from digests to Arc<[u8]>.  A call      *)
(* looks the value up under the read lock, drops that lock on a miss, and  *)
(* inserts under the write lock without looking again.                     *)
(*                                                                         *)
(* A digest is represented by the value it is the digest of: SHA3-512 is   *)
(* taken to be free of collisions.  An InternedString is a bare address;   *)
(* only the map counts as an owner of an Arc, so replacing an entry frees  *)
(* its block, and the allocator may give the address out again.            *)
(***************************************************************************)
EXTENDS Naturals, FiniteSets

CONSTANTS Threads, Values,
          Addresses,  \* where the allocator may put a block
          None        \* no value, no block

\* A new block is allocated before the one it replaces is freed.
ASSUME CacheAssumption ==
  /\ IsFiniteSet(Addresses) /\ IsFiniteSet(Values) /\ IsFiniteSet(Threads)
  /\ Cardinality(Addresses) > Cardinality(Values)
  /\ None \notin Values \cup Addresses

VARIABLES pc,       \* a thread is "out" of a call, wants to "read", has the read lock
                    \* ("look"), wants to "write", or has the write lock once the
                    \* readers are gone ("drain")
          want,     \* the value of its call
          readers,  \* the threads that hold the read lock
          cache,    \* the block of each value's entry, or None
          heap,     \* what each block holds, None if it is not allocated
          answer,   \* what the InternedString a thread got last read as, when it got it
          held      \* the block of that InternedString

vars == <<pc, want, readers, cache, heap, answer, held>>

TypeOK ==
  /\ pc \in [Threads -> {"out", "read", "look", "write", "drain"}]
  /\ want \in [Threads -> Values \cup {None}]
  /\ \A t \in Threads : want[t] = None <=> pc[t] = "out"
  /\ readers = {t \in Threads : pc[t] = "look"}
  /\ cache \in [Values -> Addresses \cup {None}]
  /\ heap \in [Addresses -> Values \cup {None}]
  /\ answer \in [Threads -> Values \cup {None}]
  /\ held \in [Threads -> Addresses \cup {None}]

Init ==
  /\ pc = [t \in Threads |-> "out"]
  /\ want = [t \in Threads |-> None]
  /\ readers = {}
  /\ cache = [v \in Values |-> None]
  /\ heap = [a \in Addresses |-> None]
  /\ answer = [t \in Threads |-> None]
  /\ held = [t \in Threads |-> None]

\* Mutation: the block is read before the insertion filled it.
ReturnEarly(t, a) ==
  /\ pc' = [pc EXCEPT ![t] = "out"]
  /\ answer' = [answer EXCEPT ![t] = heap[a]]
  /\ held' = [held EXCEPT ![t] = a]
  /\ want' = [want EXCEPT ![t] = None]

\* The call returns an InternedString to block a.
Return(t, a) ==
  /\ pc' = [pc EXCEPT ![t] = "out"]
  /\ answer' = [answer EXCEPT ![t] = heap'[a]]
  /\ held' = [held EXCEPT ![t] = a]
  /\ want' = [want EXCEPT ![t] = None]

Call(t, v) ==
  /\ pc[t] = "out"
  /\ pc' = [pc EXCEPT ![t] = "read"]
  /\ want' = [want EXCEPT ![t] = v]
  /\ UNCHANGED <<readers, cache, heap, answer, held>>

WriteLocked == \E t \in Threads : pc[t] = "drain"

\* read() waits for a writer, also for one that still waits for readers.
Read(t) ==
  /\ pc[t] = "read" /\ ~WriteLocked
  /\ readers' = readers \cup {t}
  /\ pc' = [pc EXCEPT ![t] = "look"]
  /\ UNCHANGED <<want, cache, heap, answer, held>>

\* The read guard lives until the call has returned.
Hit(t) ==
  /\ pc[t] = "look" /\ cache[want[t]] # None
  /\ UNCHANGED <<cache, heap>>
  /\ Return(t, cache[want[t]])
  /\ readers' = readers \ {t}

\* Mutations: the entry is not looked at; the read guard outlives the match.
MissBlindly(t) ==
  /\ pc[t] = "look"
  /\ readers' = readers \ {t}
  /\ pc' = [pc EXCEPT ![t] = "write"]
  /\ UNCHANGED <<want, cache, heap, answer, held>>

MissHolding(t) ==
  /\ pc[t] = "look" /\ cache[want[t]] = None
  /\ pc' = [pc EXCEPT ![t] = "write"]
  /\ UNCHANGED <<want, readers, cache, heap, answer, held>>

\* drop(cache).
Miss(t) ==
  /\ pc[t] = "look" /\ cache[want[t]] = None
  /\ readers' = readers \ {t}
  /\ pc' = [pc EXCEPT ![t] = "write"]
  /\ UNCHANGED <<want, cache, heap, answer, held>>

LockWrite(t) ==
  /\ pc[t] = "write" /\ ~WriteLocked
  /\ pc' = [pc EXCEPT ![t] = "drain"]
  /\ UNCHANGED <<want, readers, cache, heap, answer, held>>

\* The value is copied to a new block, which becomes the entry's. A block it replaces is freed.
InsertAt(t, a, freed) ==
  /\ pc[t] = "drain" /\ readers = {}
  /\ heap[a] = None
  /\ heap' = [b \in Addresses |-> IF b = a THEN want[t] ELSE IF b \in freed THEN None ELSE heap[b]]
  /\ cache' = [cache EXCEPT ![want[t]] = a]
  /\ Return(t, a)
  /\ UNCHANGED readers

\* Mutation: the replaced block is not freed.
InsertLeaking(t) == \E a \in Addresses : InsertAt(t, a, {})

Insert(t) == \E a \in Addresses : InsertAt(t, a, {cache[want[t]]})

Next ==
  \E t \in Threads :
     \/ \E v \in Values : Call(t, v)
     \/ Read(t) \/ Hit(t) \/ Miss(t) \/ LockWrite(t) \/ Insert(t)

SafeSpec == Init /\ [][Next]_vars

\* Nobody has to call. The lock is task-fair (parking_lot's RwLock).
Fairness ==
  \A t \in Threads : /\ SF_vars(Read(t)) /\ SF_vars(LockWrite(t))
                     /\ WF_vars(Hit(t) \/ Miss(t)) /\ WF_vars(Insert(t))

Spec == SafeSpec /\ Fairness

-----------------------------------------------------------------------------
(* Properties.                                                             *)

\* An entry's block holds the entry's value, and nothing else is allocated: a replaced
\* block is freed, an owned one never is, whatever the threads do to the same key.
HeapIsCache ==
  /\ \A v \in Values : cache[v] # None => heap[cache[v]] = v
  /\ \A a \in Addresses : heap[a] # None => cache[heap[a]] = a

\* No call for v is between its miss and its insertion.
Settled(v) == cache[v] # None /\ \A t \in Threads : want[t] = v => pc[t] \in {"read", "look"}

\* Once every call that missed v has returned, v's block never moves again: what is handed
\* out from then on lasts as long as the cache.
SettledForGood ==
  \A v \in Values, a \in Addresses :
     [](Settled(v) /\ cache[v] = a => [](Settled(v) /\ cache[v] = a))

\* Every call is answered with the value it was given, and no value is forgotten.
Table == INSTANCE InternTable WITH
  known  <- {v \in Values : cache[v] # None},
  asked  <- want,
  answer <- answer

TableSpec == Table!Spec

\* InternedSlice::as_slice gives a &'static [T]: an InternedString reads for ever as it read
\* when it was handed out.
HandedOutStays == \A t \in Threads : held[t] # None => heap[held[t]] = answer[t]
=============================================================================
