-------------------------- MODULE AsyncPipeProofs --------------------------
(***************************************************************************)
(* The safety invariants of AsyncPipe, proved for every capacity, buffer,  *)
(* number of writes and number of pipes.                                   *)
(*                                                                         *)
(* NoLostWakeup is not inductive: between epoll_ctl and the insertion of   *)
(* the waker the task is in neither state, and what carries it through is  *)
(* the mutex.  IInv adds what the lock protects (LockHeld, CtlWatched) and *)
(* what a closed end implies (OpenEnds).                                   *)
(***************************************************************************)
EXTENDS AsyncPipe, SequenceTheorems, TLAPS

\* The task inside on_would_block holds the mutex, and only one does.
LockHeld == \A e \in Ends : pc[e] = "ctl" <=> mutex = e

\* Until the waker is stored, what epoll_ctl armed is armed, queued or in an event
\* that the driver cannot dispatch yet.
CtlWatched ==
  \A e \in Ends : pc[e] = "ctl" => \/ interest[e] \in {"armed", "queued"}
                                   \/ interest[e] # "none" /\ e \in events

\* An end is open until its task returns; a closed end is not watched, and a writer
\* that still runs has writes left.
OpenEnds ==
  /\ \A e \in Ends : e \in open <=> pc[e] # "done"
  /\ \A e \in Ends : e \notin open => interest[e] = "none"
  /\ "w" \in open => sent < Writes

IInv ==
  /\ TypeOK
  /\ LockHeld
  /\ CtlWatched
  /\ OpenEnds
  /\ NoLostWakeup
  /\ EphIsRegistered
-----------------------------------------------------------------------------
(* Facts about the pipe and about one step of it.                          *)

\* What a read takes is between one unit and all of them (read() into the buffer).
LEMMA AvailableBounds ==
  ASSUME pipe \in Seq(Nat), pipe # <<>>
  PROVE  Available \in 1..Len(pipe)
BY KernelPipeAssumption, PipeAssumption DEF Available

\* The kernel's list after any step is well typed, holds only open descriptors, and an
\* armed descriptor on it is not ready (the wait queue hooks of epoll).
LEMMA SettleFacts ==
  ASSUME EpollTypeOK, NEW R, NEW O
  PROVE  /\ Settle(R, O) \in [Ends -> {"none", "armed", "queued", "off"}]
         /\ \A e \in Ends : e \notin O => Settle(R, O)[e] = "none"
         /\ \A e \in Ends : Settle(R, O)[e] = "armed" => e \notin R
         /\ \A e \in Ends : e \in O =>
              /\ Settle(R, O)[e] = "none" <=> interest[e] = "none"
              /\ interest[e] \in {"armed", "queued"} => Settle(R, O)[e] \in {"armed", "queued"}
BY DEF Settle, EpollTypeOK

LEMMA InitIInv == Init => IInv
<1> SUFFICES ASSUME Init PROVE IInv
  OBVIOUS
<1> USE EpollAssumption, KernelPipeAssumption, PipeAssumption DEF Init, EpollInit
<1>1. TypeOK
  BY DEF TypeOK, EpollTypeOK, Free
<1>2. LockHeld /\ CtlWatched
  BY DEF LockHeld, CtlWatched, Ends, Free
<1>3. OpenEnds /\ EphIsRegistered
  BY DEF OpenEnds, EphIsRegistered, Registered
<1>4. NoLostWakeup
  BY DEF NoLostWakeup
<1> QED BY <1>1, <1>2, <1>3, <1>4 DEF IInv

\* A step in which the task of end e leaves its poll at "run", "block" or "done".
LEMMA LeavePollKeeps ==
  ASSUME IInv,
         NEW e \in Ends, pc[e] = "run" \/ pc[e] = "block", mutex # e,
         NEW p \in Seq(Nat), Len(p) <= Cap,
         NEW to \in {"run", "block", "done"},
         LeavePoll(e, p, to),
         sent' \in 0..Writes, rcvd' \in Seq(Nat),
         "w" \in open' => sent' < Writes,
         UNCHANGED <<gen, events, wakers, mutex, eph, notified>>
  PROVE  IInv'
<1> DEFINE O == IF to = "done" THEN open \ {e} ELSE open
           R == ReadyEnds(p, O)
<1>1. /\ pipe' = p /\ open' = O /\ interest' = Settle(R, O)
      /\ pc' = [pc EXCEPT ![e] = to]
  BY DEF LeavePoll, KernelStep
<1>2. /\ O \subseteq open /\ O \subseteq Ends
      /\ \A d \in Ends : d \in O <=> (d \in open /\ ~(d = e /\ to = "done"))
      /\ e \in open
  BY DEF IInv, TypeOK, OpenEnds
<1> HIDE DEF O, R
<1>3. /\ interest' \in [Ends -> {"none", "armed", "queued", "off"}]
      /\ \A d \in Ends : d \notin O => interest'[d] = "none"
      /\ \A d \in Ends : interest'[d] = "armed" => d \notin R
      /\ \A d \in Ends : d \in O =>
           /\ interest'[d] = "none" <=> interest[d] = "none"
           /\ interest[d] \in {"armed", "queued"} => interest'[d] \in {"armed", "queued"}
  BY <1>1, SettleFacts DEF IInv, TypeOK
<1>4. pc' \in [Ends -> {"run", "block", "ctl", "idle", "done"}]
      /\ pc'[e] = to /\ \A d \in Ends \ {e} : pc'[d] = pc[d]
  BY <1>1 DEF IInv, TypeOK, EpollTypeOK
<1>5. TypeOK'
  BY <1>1, <1>2, <1>3, <1>4 DEF IInv, TypeOK, EpollTypeOK
<1>6. LockHeld'
  BY <1>4 DEF IInv, LockHeld
<1>7. CtlWatched'
  BY <1>2, <1>3, <1>4 DEF IInv, CtlWatched, OpenEnds
<1>8. OpenEnds'
  BY <1>1, <1>2, <1>3, <1>4 DEF IInv, OpenEnds
<1>9. NoLostWakeup'
  <2>1. R = Ready'
    BY <1>1 DEF R, Ready
  <2>2. \A d \in Ends : interest'[d] = "armed" => d \notin Ready'
    BY <1>3, <2>1
  <2>3. \A d \in Ends : pc'[d] = "idle" => notified'[d] \/ Watched(d)'
    BY <1>2, <1>3, <1>4 DEF IInv, NoLostWakeup, Watched, OpenEnds
  <2> QED BY <2>2, <2>3 DEF NoLostWakeup
<1>10. EphIsRegistered'
  BY <1>1, <1>2, <1>3, <1>4, <1>5 DEF IInv, EphIsRegistered, Registered, TypeOK, EpollTypeOK
<1> QED BY <1>5, <1>6, <1>7, <1>8, <1>9, <1>10 DEF IInv

-----------------------------------------------------------------------------
(* One lemma per kind of step.                                             *)

LEMMA ReaderKeeps == IInv /\ Reader => IInv'
<1> SUFFICES ASSUME IInv, Reader PROVE IInv'
  OBVIOUS
<1> "r" \in Ends /\ mutex # "r" /\ pc["r"] = "run"
  BY DEF Ends, IInv, LockHeld, Reader, ReadOk, ReadEof, ReadWouldBlock
<1>1. CASE ReadOk
  <2>1. Available \in 1..Len(pipe)
    BY <1>1, AvailableBounds DEF IInv, TypeOK, ReadOk
  <2> DEFINE p == SubSeq(pipe, Available + 1, Len(pipe))
  <2>2. p \in Seq(Nat) /\ Len(p) <= Cap
    BY <2>1, KernelPipeAssumption, PipeAssumption DEF IInv, TypeOK
  <2>3. rcvd' \in Seq(Nat)
    BY <1>1, <2>1 DEF ReadOk, IInv, TypeOK
  <2>4. PICK to \in {"run", "done"} : LeavePoll("r", p, to)
    BY <1>1 DEF ReadOk
  <2>5. sent' \in 0..Writes /\ ("w" \in open' => sent' < Writes)
    BY <1>1, <2>4 DEF ReadOk, LeavePoll, KernelStep, IInv, TypeOK, OpenEnds
  <2> HIDE DEF p
  <2> QED BY <1>1, <2>2, <2>3, <2>4, <2>5, LeavePollKeeps DEF ReadOk
<1>2. CASE ReadEof \/ ReadWouldBlock
  <2> USE <1>2 DEF ReadEof, ReadWouldBlock, IInv, epollVars
  <2>1. TypeOK'
    BY DEF TypeOK, EpollTypeOK
  <2>2. LockHeld' /\ CtlWatched' /\ OpenEnds'
    BY DEF TypeOK, EpollTypeOK, LockHeld, CtlWatched, OpenEnds
  <2>3. NoLostWakeup'
    BY SMTT(30) DEF TypeOK, EpollTypeOK, NoLostWakeup, Watched, Ready, ReadyEnds
  <2>4. EphIsRegistered'
    BY DEF TypeOK, EpollTypeOK, EphIsRegistered, Registered
  <2> QED BY <2>1, <2>2, <2>3, <2>4
<1> QED BY <1>1, <1>2 DEF Reader

LEMMA WriterKeeps == IInv /\ Writer => IInv'
<1> SUFFICES ASSUME IInv, Writer PROVE IInv'
  OBVIOUS
<1> "w" \in Ends /\ mutex # "w" /\ pc["w"] = "run" /\ "w" \in open
  BY DEF Ends, IInv, LockHeld, OpenEnds, Writer, WriteOk, WriteBroken, WriteWouldBlock
<1>1. CASE WriteOk
  <2> DEFINE p == Append(pipe, sent + 1)
  <2> HIDE DEF p
  <2>1. p \in Seq(Nat) /\ Len(p) <= Cap
    BY <1>1, KernelPipeAssumption, PipeAssumption DEF p, WriteOk, IInv, TypeOK
  <2>2. PICK to \in {"run", "done"} : /\ LeavePoll("w", p, to)
                                      /\ to = "run" => sent + 1 # Writes
    BY <1>1 DEF p, WriteOk
  <2>3. sent' \in 0..Writes /\ ("w" \in open' => sent' < Writes)
    BY <1>1, <2>2, KernelPipeAssumption, PipeAssumption
       DEF WriteOk, LeavePoll, KernelStep, IInv, TypeOK, OpenEnds
  <2>4. rcvd' \in Seq(Nat)
    BY <1>1 DEF WriteOk, IInv, TypeOK
  <2>5. LeavePoll("w", p, to) /\ to \in {"run", "block", "done"}
    BY <2>2
  <2>6. UNCHANGED <<gen, events, wakers, mutex, eph, notified>>
    BY <1>1 DEF WriteOk
  <2> QED BY <2>1, <2>3, <2>4, <2>5, <2>6, LeavePollKeeps
<1>2. CASE WriteBroken
  <2>1. LeavePoll("w", pipe, "done")
    BY <1>2 DEF WriteBroken
  <2>2. "w" \notin open' /\ sent' = sent /\ rcvd' = rcvd
    BY <1>2 DEF WriteBroken, LeavePoll, KernelStep
  <2>3. sent' \in 0..Writes /\ rcvd' \in Seq(Nat) /\ ("w" \in open' => sent' < Writes)
    BY <2>2 DEF IInv, TypeOK
  <2> QED BY <1>2, <2>1, <2>3, LeavePollKeeps DEF WriteBroken, IInv, TypeOK
<1>3. CASE WriteWouldBlock
  <2> USE <1>3 DEF WriteWouldBlock, IInv, epollVars
  <2>1. TypeOK'
    BY DEF TypeOK, EpollTypeOK
  <2>2. LockHeld' /\ CtlWatched' /\ OpenEnds'
    BY DEF TypeOK, EpollTypeOK, LockHeld, CtlWatched, OpenEnds
  <2>3. NoLostWakeup'
    BY SMTT(30) DEF TypeOK, EpollTypeOK, NoLostWakeup, Watched, Ready, ReadyEnds
  <2>4. EphIsRegistered'
    BY DEF TypeOK, EpollTypeOK, EphIsRegistered, Registered
  <2> QED BY <2>1, <2>2, <2>3, <2>4
<1> QED BY <1>1, <1>2, <1>3 DEF Writer

LEMMA CtlKeeps ==
  ASSUME IInv, NEW e \in Ends, Ctl(e) \/ CtlError(e) \/ Insert(e)
  PROVE  IInv'
<1>1. CASE Ctl(e)
  <2> USE <1>1 DEF Ctl, EpollCtl, IInv
  <2> mutex' = e /\ e # Free /\ pc[e] = "block" /\ mutex = Free
    BY DEF Ends, Free
  <2>1. TypeOK'
    BY DEF TypeOK, EpollTypeOK
  <2>2. LockHeld'
    BY DEF TypeOK, EpollTypeOK, LockHeld, Ends, Free
  <2>3. CtlWatched' /\ OpenEnds'
    BY DEF TypeOK, EpollTypeOK, CtlWatched, OpenEnds
  <2>4. NoLostWakeup'
    BY SMTT(30) DEF TypeOK, EpollTypeOK, NoLostWakeup, Watched, Ready, ReadyEnds
  <2>5. EphIsRegistered'
    BY DEF TypeOK, EpollTypeOK, EphIsRegistered, Registered
  <2> QED BY <2>1, <2>2, <2>3, <2>4, <2>5
<1>2. CASE CtlError(e)
  <2>1. LeavePoll(e, pipe, "done") /\ pc[e] = "block" /\ mutex # e
    BY <1>2 DEF CtlError, EpollCtlFails, IInv, LockHeld
  <2>2. "w" \in open' => "w" \in open
    BY <2>1 DEF LeavePoll, KernelStep
  <2>3. sent' \in 0..Writes /\ rcvd' \in Seq(Nat) /\ ("w" \in open' => sent' < Writes)
    BY <1>2, <2>2 DEF CtlError, IInv, TypeOK, OpenEnds
  <2> QED BY <1>2, <2>1, <2>3, LeavePollKeeps DEF CtlError, IInv, TypeOK
<1>3. CASE Insert(e)
  <2> USE <1>3 DEF Insert, CtlInsert, StoreWaker, IInv
  <2> mutex = e /\ pc[e] = "ctl"
    BY DEF LockHeld
  <2>1. TypeOK'
    BY DEF TypeOK, EpollTypeOK
  <2>2. LockHeld'
    BY DEF TypeOK, EpollTypeOK, LockHeld, Ends, Free
  <2>3. CtlWatched' /\ OpenEnds'
    BY DEF TypeOK, EpollTypeOK, CtlWatched, OpenEnds
  <2>4. NoLostWakeup'
    BY DEF TypeOK, EpollTypeOK, NoLostWakeup, Watched, CtlWatched, Ready, ReadyEnds
  <2>5. EphIsRegistered'
    BY DEF TypeOK, EpollTypeOK, EphIsRegistered, Registered, CtlWatched
  <2> QED BY <2>1, <2>2, <2>3, <2>4, <2>5
<1> QED BY <1>1, <1>2, <1>3

LEMMA DriverKeeps ==
  ASSUME IInv, Wait \/ \E e \in Ends : Wake(e) \/ Poll(e) \/ Spurious(e)
  PROVE  IInv'
<1>1. CASE Wait
  <2> USE <1>1 DEF Wait, EpollWait, IInv, taskVars
  <2>1. TypeOK'
    <3>1. interest' \in [Ends -> {"none", "armed", "queued", "off"}]
      BY DEF TypeOK, EpollTypeOK
    <3>2. events' \subseteq Ends
      BY DEF TypeOK, Ready, ReadyEnds
    <3> QED BY <3>1, <3>2 DEF TypeOK, EpollTypeOK
  <2>2. LockHeld' /\ CtlWatched' /\ OpenEnds'
    BY DEF TypeOK, EpollTypeOK, LockHeld, CtlWatched, OpenEnds
  <2>3. NoLostWakeup'
    BY SMTT(30) DEF TypeOK, EpollTypeOK, NoLostWakeup, Watched, Ready, ReadyEnds
  <2>4. EphIsRegistered'
    BY DEF TypeOK, EpollTypeOK, EphIsRegistered, Registered
  <2> QED BY <2>1, <2>2, <2>3, <2>4
<1>2. ASSUME NEW e \in Ends, Wake(e) PROVE IInv'
  <2> USE <1>2 DEF Wake, Dispatch, IInv
  <2>1. TypeOK'
    <3>1. notified' \in [Ends -> BOOLEAN] /\ events' \subseteq Ends
      BY DEF TypeOK, EpollTypeOK
    <3>2. wakers' \in [Ends -> 0..MaxGen]
      BY EpollAssumption DEF TypeOK, EpollTypeOK
    <3> QED BY <3>1, <3>2 DEF TypeOK, EpollTypeOK
  <2>2. LockHeld' /\ CtlWatched' /\ OpenEnds'
    BY DEF TypeOK, EpollTypeOK, LockHeld, CtlWatched, OpenEnds, Ends, Free
  <2>3. NoLostWakeup'
    <3>1. \A d \in Ends : interest'[d] = "armed" => d \notin Ready'
      BY DEF NoLostWakeup, Ready, ReadyEnds
    <3>2. \A d \in Ends \ {e} : pc'[d] = "idle" => notified'[d] \/ Watched(d)'
      BY DEF TypeOK, EpollTypeOK, NoLostWakeup, Watched
    <3>3. pc'[e] = "idle" => notified'[e] \/ Watched(e)'
      BY DEF TypeOK, EpollTypeOK, NoLostWakeup, Watched
    <3> QED BY <3>1, <3>2, <3>3 DEF NoLostWakeup
  <2>4. EphIsRegistered'
    BY DEF TypeOK, EpollTypeOK, EphIsRegistered, Registered
  <2> QED BY <2>1, <2>2, <2>3, <2>4
<1>3. ASSUME NEW e \in Ends, Poll(e) \/ Spurious(e) PROVE IInv'
  <2> USE <1>3 DEF Poll, Spurious, PollWoken, PollSpurious, BeginPoll, IInv, epollVars
  <2>1. TypeOK'
    BY DEF TypeOK, EpollTypeOK
  <2>2. LockHeld' /\ CtlWatched' /\ OpenEnds'
    BY DEF TypeOK, EpollTypeOK, LockHeld, CtlWatched, OpenEnds
  <2>3. NoLostWakeup'
    <3>1. \A d \in Ends : interest'[d] = "armed" => d \notin Ready'
      BY DEF NoLostWakeup, Ready, ReadyEnds
    <3>2. \A d \in Ends \ {e} : pc'[d] = "idle" => notified'[d] \/ Watched(d)'
      BY DEF TypeOK, EpollTypeOK, NoLostWakeup, Watched
    <3>3. pc'[e] = "idle" => notified'[e] \/ Watched(e)'
      BY DEF TypeOK, EpollTypeOK, NoLostWakeup, Watched
    <3> QED BY <3>1, <3>2, <3>3 DEF NoLostWakeup
  <2>4. EphIsRegistered'
    BY DEF TypeOK, EpollTypeOK, EphIsRegistered, Registered
  <2> QED BY <2>1, <2>2, <2>3, <2>4
<1> QED BY <1>1, <1>2, <1>3

LEMMA ReopenKeeps == IInv /\ Reopen => IInv'
<1> SUFFICES ASSUME IInv, Reopen PROVE IInv'
  OBVIOUS
<1> USE EpollAssumption, KernelPipeAssumption, PipeAssumption DEF Reopen, IInv, epollVars
<1>1. \A e \in Ends : interest[e] = "none" /\ mutex # e
  BY DEF OpenEnds, LockHeld
<1>2. TypeOK'
  BY DEF TypeOK, EpollTypeOK
<1>3. LockHeld' /\ CtlWatched' /\ OpenEnds' /\ NoLostWakeup'
  BY <1>1 DEF LockHeld, CtlWatched, OpenEnds, NoLostWakeup
<1>4. EphIsRegistered'
  BY <1>1 DEF EphIsRegistered, Registered
<1> QED BY <1>2, <1>3, <1>4

LEMMA IInvInductive == IInv /\ [Next]_vars => IInv'
<1> SUFFICES ASSUME IInv, [Next]_vars PROVE IInv'
  OBVIOUS
<1>1. CASE Reader \/ Writer
  BY <1>1, ReaderKeeps, WriterKeeps
<1>2. CASE Wait \/ \E e \in Ends : Wake(e) \/ Poll(e) \/ Spurious(e)
  BY <1>2, DriverKeeps
<1>3. CASE \E e \in Ends : Ctl(e) \/ CtlError(e) \/ Insert(e)
  BY <1>3, CtlKeeps
<1>4. CASE Reopen
  BY <1>4, ReopenKeeps
<1>5. CASE UNCHANGED vars
  BY <1>5 DEF vars, epollVars, taskVars, IInv, TypeOK, EpollTypeOK, LockHeld, CtlWatched,
              OpenEnds, NoLostWakeup, Watched, EphIsRegistered, Registered, Ready, ReadyEnds
<1> QED BY <1>1, <1>2, <1>3, <1>4, <1>5 DEF Next

-----------------------------------------------------------------------------
(* Order and contents of the pipe.                                         *)

Numbers(n) == [i \in 1..n |-> i]

\* A sequence that begins the sequence 1, 2, ... n is 1, 2, ... up to its own length.
LEMMA PrefixOfNumbers ==
  ASSUME NEW s \in Seq(Nat), NEW t \in Seq(Nat), NEW n \in Nat,
         s \o t = Numbers(n)
  PROVE  Len(s) + Len(t) = n /\ s = Numbers(Len(s))
<1> USE DEF Numbers
<1>1. Len(s \o t) = Len(s) + Len(t) /\ DOMAIN (s \o t) = 1..n
  BY ConcatProperties
<1>2. DOMAIN (s \o t) = 1..(Len(s) + Len(t)) /\ Len(s) \in Nat /\ Len(t) \in Nat
  BY <1>1, ConcatProperties, LenProperties
<1>3. Len(s) + Len(t) = n
  BY <1>1, <1>2
<1>4. \A i \in 1..Len(s) : s[i] = i
  <2> SUFFICES ASSUME NEW i \in 1..Len(s) PROVE s[i] = i
    OBVIOUS
  <2>1. i \in 1..(Len(s) + Len(t)) /\ i <= Len(s)
    BY <1>2
  <2>2. (s \o t)[i] = s[i]
    BY <2>1, ConcatProperties
  <2> QED BY <2>1, <2>2, <1>3
<1>5. s = [i \in 1..Len(s) |-> s[i]]
  BY LenProperties
<1> QED BY <1>3, <1>4, <1>5

\* The library's facts on concatenation, at the sequences of this module.
LEMMA ConcatNat ==
  \A s, t \in Seq(Nat) :
    /\ s \o t \in Seq(Nat) /\ Len(s \o t) = Len(s) + Len(t)
    /\ \A i \in 1..(Len(s) + Len(t)) :
         (s \o t)[i] = IF i <= Len(s) THEN s[i] ELSE t[i - Len(s)]
BY ConcatProperties

LEMMA ConcatNatAssociative == \A s, t, u \in Seq(Nat) : (s \o t) \o u = s \o (t \o u)
BY ConcatAssociative, SMTT(30)

\* Moving the first k elements from one sequence to the end of another.
LEMMA MoveFront ==
  ASSUME NEW s \in Seq(Nat), NEW t \in Seq(Nat), NEW k \in 1..Len(t)
  PROVE  (s \o SubSeq(t, 1, k)) \o SubSeq(t, k + 1, Len(t)) = s \o t
<1> DEFINE u == SubSeq(t, 1, k)
           v == SubSeq(t, k + 1, Len(t))
<1>1. u \in Seq(Nat) /\ v \in Seq(Nat)
  OBVIOUS
<1>2. u \o v = t
  <2>1. /\ 1 \in 1..(Len(t) + 1) /\ k \in (1 - 1)..Len(t) /\ Len(t) \in k..Len(t)
    BY LenProperties
  <2>2. u \o v = SubSeq(t, 1, Len(t))
    BY <2>1, ConcatAdjacentSubSeq
  <2> QED BY <2>2, SubSeqFull
<1> HIDE DEF u, v
<1>3. (s \o u) \o v = s \o (u \o v)
  BY <1>1, ConcatNatAssociative, Zenon
<1> QED BY <1>2, <1>3, Zenon DEF u, v

\* Appending the next number.
LEMMA AppendNext ==
  ASSUME NEW s \in Seq(Nat), NEW t \in Seq(Nat), NEW n \in Nat,
         s \o t = Numbers(n)
  PROVE  s \o Append(t, n + 1) = Numbers(n + 1)
<1> DEFINE a == <<n + 1>>
           b == s \o t
           c == b \o a
<1>1. a \in Seq(Nat) /\ Len(a) = 1 /\ a[1] = n + 1
  OBVIOUS
<1>2. Append(t, n + 1) = t \o a
  BY AppendIsConcat
<1>3. b \in Seq(Nat) /\ Len(b) = n /\ \A i \in 1..n : b[i] = i
  BY ConcatNat, PrefixOfNumbers DEF Numbers
<1> HIDE DEF a
<1>4. s \o (t \o a) = c
  BY <1>1, ConcatNatAssociative, Zenon
<1> HIDE DEF b
<1>5. /\ b \o a \in Seq(Nat) /\ Len(b \o a) = Len(b) + Len(a)
      /\ \A i \in 1..(Len(b) + Len(a)) :
           (b \o a)[i] = IF i <= Len(b) THEN b[i] ELSE a[i - Len(b)]
  BY <1>1, <1>3, ConcatNat, Zenon
<1> HIDE DEF c
<1>6. /\ c \in Seq(Nat) /\ Len(c) = Len(b) + Len(a)
      /\ \A i \in 1..(Len(b) + Len(a)) :
           c[i] = IF i <= Len(b) THEN b[i] ELSE a[i - Len(b)]
  BY <1>5, Zenon DEF c
<1>7. c \in Seq(Nat) /\ Len(c) = n + 1 /\ \A i \in 1..(n + 1) : c[i] = i
  BY <1>1, <1>3, <1>6
<1>8. c = Numbers(n + 1)
  BY <1>7, LenProperties DEF Numbers
<1> QED BY <1>2, <1>4, <1>8, Zenon

LEMMA FifoInductive == IInv /\ FifoOrder /\ [Next]_vars => FifoOrder'
<1> SUFFICES ASSUME IInv, FifoOrder, [Next]_vars PROVE FifoOrder'
  OBVIOUS
<1> USE DEF FifoOrder
<1>0. pipe \in Seq(Nat) /\ rcvd \in Seq(Nat) /\ sent \in Nat
  BY KernelPipeAssumption, PipeAssumption DEF IInv, TypeOK
<1>1. CASE ReadOk
  <2>1. Available \in 1..Len(pipe)
    BY <1>0, <1>1, AvailableBounds DEF ReadOk
  <2>2. /\ rcvd' = rcvd \o SubSeq(pipe, 1, Available)
        /\ pipe' = SubSeq(pipe, Available + 1, Len(pipe)) /\ sent' = sent
    BY <1>1 DEF ReadOk, LeavePoll, KernelStep
  <2> QED BY <1>0, <2>1, <2>2, MoveFront
<1>2. CASE WriteOk
  <2>1. pipe' = Append(pipe, sent + 1) /\ sent' = sent + 1 /\ rcvd' = rcvd
    BY <1>2 DEF WriteOk, LeavePoll, KernelStep
  <2>2. rcvd \o pipe = Numbers(sent)
    BY DEF Numbers
  <2>3. rcvd \o Append(pipe, sent + 1) = Numbers(sent + 1)
    BY <1>0, <2>2, AppendNext, Zenon
  <2> QED BY <2>1, <2>3, Zenon DEF Numbers
<1>3. CASE Reopen
  BY <1>3 DEF Reopen
<1>4. CASE UNCHANGED <<pipe, sent, rcvd>>
  BY <1>4
<1>5. ~ReadOk /\ ~WriteOk /\ ~Reopen => UNCHANGED <<pipe, sent, rcvd>>
  BY DEF Next, vars, Reader, Writer, ReadEof, ReadWouldBlock, WriteBroken, WriteWouldBlock,
         LeavePoll, KernelStep, Ctl, CtlError, Insert, Wait, Wake, Poll, Spurious
<1> QED BY <1>1, <1>2, <1>3, <1>4, <1>5

-----------------------------------------------------------------------------
(* Refinement: the pipe under its driver takes only the steps of Channel.  *)

\* The units in the pipe are those sent and not received yet.
LEMMA PipeContents ==
  ASSUME IInv, FifoOrder
  PROVE  Len(rcvd) + Len(pipe) = sent /\ rcvd = Numbers(Len(rcvd))
<1>1. pipe \in Seq(Nat) /\ rcvd \in Seq(Nat) /\ sent \in Nat
  BY KernelPipeAssumption, PipeAssumption DEF IInv, TypeOK
<1>2. rcvd \o pipe = Numbers(sent)
  BY DEF FifoOrder, Numbers
<1> QED BY <1>1, <1>2, PrefixOfNumbers, Zenon

LEMMA StepRefines ==
  ASSUME IInv, FifoOrder, IInv', FifoOrder', [Next]_vars
  PROVE  [Chan!Next]_Chan!chanVars
<1> USE DEF Chan!chanVars
<1>0. /\ pipe \in Seq(Nat) /\ rcvd \in Seq(Nat) /\ sent \in Nat
      /\ rcvd' \in Seq(Nat) /\ sent' \in Nat /\ pipe' \in Seq(Nat) /\ open \subseteq Ends
  BY KernelPipeAssumption, PipeAssumption DEF IInv, TypeOK
<1>1. Len(rcvd) + Len(pipe) = sent /\ Len(rcvd') + Len(pipe') = sent' /\ rcvd' = Numbers(Len(rcvd'))
  <2>1. Len(rcvd) + Len(pipe) = sent
    BY PipeContents
  <2>2. (Len(rcvd) + Len(pipe) = sent /\ rcvd = Numbers(Len(rcvd)))'
    BY PipeContents, PTL
  <2> QED BY <2>1, <2>2
<1>2. CASE ReadOk
  <2>1. Available \in 1..Len(pipe)
    BY <1>0, <1>2, AvailableBounds DEF ReadOk
  <2>2. /\ "r" \in open /\ sent' = sent /\ open' \in {open, open \ {"r"}}
        /\ pipe' = SubSeq(pipe, Available + 1, Len(pipe))
    BY <1>2 DEF ReadOk, LeavePoll, KernelStep, IInv, OpenEnds, Ends
  <2>3. Len(pipe') = Len(pipe) - Available
    BY <1>0, <2>1, <2>2
  <2>4. Len(rcvd') \in (Len(rcvd) + 1)..sent
    BY <1>0, <1>1, <2>1, <2>2, <2>3, SMTT(30)
  <2>5. rcvd' = Chan!Upto(Len(rcvd'))
    BY <1>1 DEF Numbers, Chan!Upto
  <2>6. Chan!Deliver
    BY <2>2, <2>4, <2>5 DEF Chan!Deliver
  <2> QED BY <2>6 DEF Chan!Next
<1>3. CASE WriteOk
  <2>1. /\ "r" \in open /\ "w" \in open /\ Len(pipe) < Cap
        /\ sent' = sent + 1 /\ rcvd' = rcvd /\ open' \in {open, open \ {"w"}}
    BY <1>3 DEF WriteOk, LeavePoll, KernelStep, IInv, OpenEnds, Ends
  <2>2. open = {"r", "w"}
    BY <1>0, <2>1 DEF Ends
  <2>3. sent - Len(rcvd) < Cap
    BY <1>0, <1>1, <2>1, SMTT(30)
  <2>4. Chan!Send
    BY <2>1, <2>2, <2>3 DEF Chan!Send
  <2> QED BY <2>4 DEF Chan!Next
<1>4. CASE WriteBroken \/ \E e \in Ends : CtlError(e)
  <2>1. PICK e \in {"r", "w"} :
           e \in open /\ open' = open \ {e} /\ sent' = sent /\ rcvd' = rcvd
    BY <1>4 DEF WriteBroken, CtlError, EpollCtlFails, LeavePoll, KernelStep, IInv, OpenEnds, Ends
  <2>2. Chan!Hangup(e)
    BY <2>1 DEF Chan!Hangup
  <2> QED BY <2>1, <2>2 DEF Chan!Next
<1>5. CASE Reopen
  <2>1. Chan!Reopen
    BY <1>5 DEF Reopen, Chan!Reopen, Ends
  <2> QED BY <2>1 DEF Chan!Next
<1>6. CASE UNCHANGED <<open, sent, rcvd>>
  BY <1>6
<1>7. ~ReadOk /\ ~WriteOk /\ ~WriteBroken /\ ~Reopen /\ ~(\E e \in Ends : CtlError(e))
      => UNCHANGED <<open, sent, rcvd>>
  BY DEF Next, vars, Reader, Writer, ReadEof, ReadWouldBlock, WriteWouldBlock,
         Ctl, Insert, Wait, Wake, Poll, Spurious
<1> QED BY <1>2, <1>3, <1>4, <1>5, <1>6, <1>7

-----------------------------------------------------------------------------
(* The theorems.                                                           *)

\* The invariant holds however the two tasks and the driver interleave.
THEOREM Invariant == SafeSpec => [](IInv /\ FifoOrder)
<1>1. Init => FifoOrder
  BY DEF Init, FifoOrder
<1> QED BY InitIInv, IInvInductive, FifoInductive, <1>1, PTL DEF SafeSpec

\* Every variable keeps its type; the kernel pipe never holds more than its capacity.
THEOREM TypeCorrect == Spec => []TypeOK
BY Invariant, PTL DEF Spec, IInv

\* No interleaving of on_would_block with Epoll::wait loses a wakeup.
THEOREM WakeupsAreKept == Spec => []NoLostWakeup
BY Invariant, PTL DEF Spec, IInv

\* PipeReader.eph and PipeWriter.eph agree with the kernel, on reused descriptors too.
THEOREM EphIsFaithful == Spec => []EphIsRegistered
BY Invariant, PTL DEF Spec, IInv

\* What is read is what was written, in order.
THEOREM PipeIsFifo == Spec => []FifoOrder
BY Invariant, PTL DEF Spec

\* The pipe, its driver and its two tasks implement the bounded channel of module Channel.
\* (That the channel also makes progress is left to TLC.)
THEOREM ImplementsChannel == Spec => Chan!SafeSpec
<1>1. Init => Chan!Init
  BY DEF Init, Chan!Init, Ends
<1>2. IInv /\ FifoOrder /\ (IInv /\ FifoOrder)' /\ [Next]_vars => [Chan!Next]_Chan!chanVars
  BY StepRefines
<1> QED BY Invariant, <1>1, <1>2, PTL DEF Spec, SafeSpec, Chan!SafeSpec
=============================================================================
