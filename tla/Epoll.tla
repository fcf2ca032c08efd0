------------------------------- MODULE Epoll -------------------------------
(***************************************************************************)
(* The epoll driver of x004-rust-shell-scripting/src/pipe/linux.rs and the *)
(* tasks that park on it.  One pipe is watched: its read end "r" is polled *)
(* by the task that owns the PipeReader, its write end "w" by the task     *)
(* that owns the PipeWriter.                                               *)
(*                                                                         *)
(* The driver object is shared by every thread.  Its map of wakers is      *)
(* behind a mutex, its interest list lives in the kernel and is not: the   *)
(* steps below are as fine as the places where another thread can get in   *)
(* between (a failed read, the epoll_ctl call made under the lock, the     *)
(* insertion of the waker, epoll_wait, the dispatch of one event).         *)
(*                                                                         *)
(* Descriptors are never removed from the driver (the Drop impls that      *)
(* would call ctl_del_rawfd are commented out), and the numbers of closed  *)
(* descriptors are reused: gen counts the pipes that have lived on this    *)
(* pair of numbers, and a waker left by an earlier pipe belongs to a task  *)
(* that has finished.                                                      *)
(***************************************************************************)
EXTENDS Naturals

CONSTANTS MaxGen,     \* bound: pipes opened one after the other on this pair of numbers
          CtlMayFail  \* whether EPOLL_CTL_ADD may hit the limit on watches

ASSUME EpollAssumption == MaxGen \in Nat \ {0} /\ CtlMayFail \in BOOLEAN

Ends == {"r", "w"}
Free == "free"

VARIABLES
  gen,       \* which pipe owns the descriptors now
  interest,  \* kernel: "none" not registered, "armed", "queued" on the ready list, "off" after its one shot
  events,    \* driver: events returned by epoll_wait and not dispatched yet
  wakers,    \* Epoll.wakers: the generation of the task stored for the descriptor, 0 for no entry
  mutex,     \* holder of the lock around Epoll.wakers
  eph,       \* PipeReader.eph, PipeWriter.eph
  pc,        \* where the task that owns the end is in its poll
  notified   \* executor: the task was woken since its last poll began

epollVars == <<interest, events, wakers, mutex>>
taskVars  == <<eph, pc, notified>>

EpollTypeOK ==
  /\ gen \in 1..MaxGen
  /\ interest \in [Ends -> {"none", "armed", "queued", "off"}]
  /\ events \subseteq Ends
  /\ wakers \in [Ends -> 0..MaxGen]
  /\ mutex \in Ends \cup {Free}
  /\ eph \in [Ends -> BOOLEAN]
  /\ pc \in [Ends -> {"run", "block", "ctl", "idle", "done"}]
  /\ notified \in [Ends -> BOOLEAN]

EpollInit ==
  /\ gen = 1
  /\ interest = [e \in Ends |-> "none"]
  /\ events = {}
  /\ wakers = [e \in Ends |-> 0]
  /\ mutex = Free
  /\ eph = [e \in Ends |-> FALSE]
  /\ pc = [e \in Ends |-> "run"]
  /\ notified = [e \in Ends |-> FALSE]

(***************************************************************************)
(* Kernel.  After a step that leaves the descriptors R ready and O open, a *)
(* closed descriptor has left the interest list and an armed one that      *)
(* became ready is on the ready list.                                      *)
(***************************************************************************)
Settle(R, O) ==
  [e \in Ends |-> IF e \notin O THEN "none"
                  ELSE IF interest[e] = "armed" /\ e \in R THEN "queued"
                  ELSE interest[e]]

(***************************************************************************)
(* on_would_block, first half: take the lock and call epoll_ctl, ADD the   *)
(* first time and MOD afterwards.  Both look at the descriptor at once, so *)
(* data that arrived after the failed read is not missed.  R is the set of *)
(* ready descriptors.                                                      *)
(***************************************************************************)
Registered(e) == interest[e] # "none"

\* Mutation: a descriptor that was added once is not armed again.
EpollCtlOnce(e, R) ==
  /\ pc[e] = "block"
  /\ mutex = Free
  /\ mutex' = e
  /\ interest' = IF eph[e] THEN interest
                 ELSE [interest EXCEPT ![e] = IF e \in R THEN "queued" ELSE "armed"]
  /\ pc' = [pc EXCEPT ![e] = "ctl"]
  /\ UNCHANGED <<gen, events, wakers, eph, notified>>

EpollCtl(e, R) ==
  /\ pc[e] = "block"
  /\ mutex = Free
  /\ eph[e] <=> Registered(e)
  /\ mutex' = e
  /\ interest' = [interest EXCEPT ![e] = IF e \in R THEN "queued" ELSE "armed"]
  /\ pc' = [pc EXCEPT ![e] = "ctl"]
  /\ UNCHANGED <<gen, events, wakers, eph, notified>>

\* epoll_ctl returned -1: EEXIST and ENOENT when eph and the kernel disagree,
\* ENOSPC or ENOMEM on an ADD.  The lock is released and the poll returns the error.
EpollCtlFails(e) ==
  /\ pc[e] = "block"
  /\ mutex = Free
  /\ \/ ~(eph[e] <=> Registered(e))
     \/ CtlMayFail /\ ~eph[e]

(***************************************************************************)
(* on_would_block, second half: store the waker, wake the one it replaces, *)
(* release the lock; the poll returns Pending.  A replaced waker of an     *)
(* earlier generation belongs to a finished task.                          *)
(***************************************************************************)
StoreWaker(e) ==
  /\ wakers' = [wakers EXCEPT ![e] = gen]
  /\ notified' = [notified EXCEPT ![e] = @ \/ wakers[e] = gen]

\* Mutation: eph is not set after the first registration.
CtlInsertKeepsEph(e) ==
  /\ pc[e] = "ctl"
  /\ StoreWaker(e)
  /\ mutex' = Free
  /\ pc' = [pc EXCEPT ![e] = "idle"]
  /\ UNCHANGED <<gen, interest, events, eph>>

CtlInsert(e) ==
  /\ pc[e] = "ctl"
  /\ StoreWaker(e)
  /\ mutex' = Free
  /\ eph' = [eph EXCEPT ![e] = TRUE]
  /\ pc' = [pc EXCEPT ![e] = "idle"]
  /\ UNCHANGED <<gen, interest, events>>

(***************************************************************************)
(* Epoll::wait.  epoll_wait looks again at each descriptor on the ready    *)
(* list, reports and disarms (EPOLLONESHOT) the ready ones.  Its array of  *)
(* ten events holds both ends.  A timeout or an error returns no event and *)
(* changes nothing.                                                        *)
(***************************************************************************)
EpollWait(R) ==
  /\ events = {}
  /\ \E e \in Ends : interest[e] = "queued"
  /\ events' = {e \in R : interest[e] = "queued"}
  /\ interest' = [e \in Ends |-> IF interest[e] # "queued" THEN interest[e]
                                 ELSE IF e \in R THEN "off" ELSE "armed"]
  /\ UNCHANGED <<gen, wakers, mutex, taskVars>>

\* Mutation: the waker is looked up without the lock.
DispatchUnlocked(e) ==
  /\ e \in events
  /\ events' = events \ {e}
  /\ wakers' = [wakers EXCEPT ![e] = 0]
  /\ notified' = [notified EXCEPT ![e] = @ \/ wakers[e] = gen]
  /\ UNCHANGED <<gen, interest, mutex, eph, pc>>

\* One turn of the loop over the events: under the lock, remove the waker and wake it.
Dispatch(e) ==
  /\ e \in events
  /\ mutex = Free
  /\ events' = events \ {e}
  /\ wakers' = [wakers EXCEPT ![e] = 0]
  /\ notified' = [notified EXCEPT ![e] = @ \/ wakers[e] = gen]
  /\ UNCHANGED <<gen, interest, mutex, eph, pc>>

(***************************************************************************)
(* Executor.  A woken task is polled again; a task may also be polled      *)
(* without having been woken through its waker (join!, select!, a spurious *)
(* unpark of block_on).                                                    *)
(***************************************************************************)
BeginPoll(e) ==
  /\ pc[e] = "idle"
  /\ pc' = [pc EXCEPT ![e] = "run"]
  /\ notified' = [notified EXCEPT ![e] = FALSE]
  /\ UNCHANGED <<gen, epollVars, eph>>

PollWoken(e) == notified[e] /\ BeginPoll(e)
PollSpurious(e) == ~notified[e] /\ BeginPoll(e)
=============================================================================
