--------------------------- MODULE PipeSinkProofs ---------------------------
(***************************************************************************)
(* The safety properties of PipeSinkStream, proved for every number and    *)
(* length of items, batch, queue limit and capacity of the pipe.           *)
(*                                                                         *)
(* Three things are kept in step: the mutex and the kernel's list of       *)
(* watched ends, as in AsyncPipeProofs; what the sender has handed over    *)
(* when it moves on to the next operation (Handing); and the stream, which *)
(* the kernel pipe and the receiver share, with the queue that feeds it    *)
(* (Queued, OnlyTailsCut).  Unlike NoLostWakeup of AsyncPipe, that a task  *)
(* is never asleep is not an invariant here, the sink registers no waker   *)
(* in two places; the action property says that these are the only two.    *)
(***************************************************************************)
EXTENDS PipeSinkStream, SequenceTheorems, TLAPS

\* The task inside on_would_block holds the mutex, and only one does.
LockHeld == \A e \in Ends : pc[e] = "ctl" <=> mutex = e

\* Until the waker is stored, what epoll_ctl armed is armed, queued or in an event
\* that the driver cannot dispatch yet.
CtlWatched ==
  \A e \in Ends : pc[e] = "ctl" => interest[e] \in {"armed", "queued"} \/ e \in events

\* An end is open until its task returns, and a closed end is not watched.
OpenEnds ==
  \A e \in Ends : /\ e \in open <=> pc[e] # "done"
                  /\ e \notin open => interest[e] = "none"

\* The sender feeds while there are items left, and without an error it closes when all of
\* them were fed.
Handing ==
  /\ op = "feed" => fed < Items
  /\ op = "close" /\ status = "ok" => fed = Items

\* The buffer holds the last items that were fed, in order.
Queued ==
  /\ Len(buffer) <= fed
  /\ \A k \in DOMAIN buffer : buffer[k] = Gone + k

\* The types, the lock and the watched ends.
DriverInv == TypeOK /\ LockHeld /\ CtlWatched /\ OpenEnds

\* What the sender has handed over, and the stream.
SinkInv == Handing /\ DoneMeansHanded /\ Queued /\ OnlyTailsCut

IInv == DriverInv /\ SinkInv

-----------------------------------------------------------------------------
(* Facts about the pipe and about one step of it.                          *)

LEMMA Bounds ==
  /\ MaxGen \in Nat \ {0} /\ Cap \in Nat \ {0} /\ ReadMax \in Nat \ {0}
  /\ Items \in Nat \ {0}
BY EpollAssumption, KernelPipeAssumption, SinkAssumption

USE Bounds

\* What a read takes is between one unit and all of them (read() into the buffer).
LEMMA AvailableBounds ==
  ASSUME pipe \in Seq(Units), pipe # <<>>
  PROVE  Available \in 1..Len(pipe)
BY DEF Available

\* What one write() takes of the first item: at least its first unit, in order, and no
\* more than fits (poll_flush calls write() once).
LEMMA WrittenFacts ==
  ASSUME buffer \in Seq(1..Items), buffer # <<>>, Len(pipe) \in Nat, Len(pipe) < Cap
  PROVE  /\ Head(buffer) \in 1..Items
         /\ Written \in Seq(Units)
         /\ Len(Written) \in 1..2 /\ Len(Written) <= Cap - Len(pipe)
         /\ \A k \in 1..Len(Written) : Written[k] = <<Head(buffer), k>>
<1> DEFINE i == Head(buffer)
           room == Cap - Len(pipe)
           n == IF room < Size(i) THEN room ELSE Size(i)
<1>1. i \in 1..Items
  OBVIOUS
<1>2. Size(i) \in 1..2 /\ room \in Nat /\ room >= 1
  BY DEF Size
<1>3. n \in 1..2 /\ n <= room
  BY <1>2
<1>4. Written = [k \in 1..n |-> <<i, k>>]
  BY DEF Written
<1> HIDE DEF i, n, room
<1>5. Written \in Seq(Units) /\ Len(Written) = n
  <2>1. \A k \in 1..n : <<i, k>> \in Units
    BY <1>1, <1>3 DEF Units
  <2> QED BY <1>3, <1>4, <2>1
<1> QED BY <1>1, <1>3, <1>4, <1>5 DEF i, room

\* The kernel's list after any step is well typed and holds only open descriptors, and
\* what is armed or queued stays so.
LEMMA SettleFacts ==
  ASSUME EpollTypeOK, NEW R, NEW O
  PROVE  /\ Settle(R, O) \in [Ends -> {"none", "armed", "queued", "off"}]
         /\ \A e \in Ends : e \notin O => Settle(R, O)[e] = "none"
         /\ \A e \in Ends : e \in O /\ interest[e] \in {"armed", "queued"}
                            => Settle(R, O)[e] \in {"armed", "queued"}
BY DEF Settle, EpollTypeOK

\* A step in which the task of end e leaves its poll: the other end is as well watched as
\* it was.
LEMMA LeavePollKeeps ==
  ASSUME DriverInv,
         NEW e \in Ends, pc[e] = "run" \/ pc[e] = "block",
         NEW p \in Seq(Units), Len(p) <= Cap,
         NEW to \in {"run", "block", "idle", "done"},
         LeavePoll(e, p, to),
         buffer' \in Seq(1..Items), status' \in {"ok", "closed"},
         op' \in {"feed", "flush", "close"}, fed' \in 0..Items, rcvd' \in Seq(Units),
         UNCHANGED driverVars
  PROVE  DriverInv'
<1> DEFINE O == IF to = "done" THEN open \ {e} ELSE open
           R == ReadyEnds(p, O)
<1>1. /\ pipe' = p /\ open' = O /\ interest' = Settle(R, O)
      /\ pc' = [pc EXCEPT ![e] = to]
  BY DEF LeavePoll, KernelStep
<1>2. /\ O \subseteq open /\ O \subseteq Ends
      /\ \A d \in Ends : d \in O <=> (d \in open /\ ~(d = e /\ to = "done"))
      /\ e \in open
  BY DEF DriverInv, TypeOK, OpenEnds
<1> HIDE DEF O, R
<1>3. /\ interest' \in [Ends -> {"none", "armed", "queued", "off"}]
      /\ \A d \in Ends : d \notin O => interest'[d] = "none"
      /\ \A d \in Ends : d \in O /\ interest[d] \in {"armed", "queued"}
                         => interest'[d] \in {"armed", "queued"}
  BY <1>1, SettleFacts DEF DriverInv, TypeOK
<1>4. pc' \in [Ends -> {"run", "block", "ctl", "idle", "done"}]
      /\ pc'[e] = to /\ \A d \in Ends \ {e} : pc'[d] = pc[d]
  BY <1>1 DEF DriverInv, TypeOK, EpollTypeOK
<1>5. EpollTypeOK'
  BY <1>3, <1>4 DEF DriverInv, TypeOK, EpollTypeOK, driverVars
<1>6. TypeOK'
  BY <1>1, <1>2, <1>5 DEF TypeOK
<1>7. LockHeld'
  BY <1>4 DEF DriverInv, LockHeld, driverVars
<1>8. CtlWatched'
  BY <1>2, <1>3, <1>4 DEF DriverInv, CtlWatched, OpenEnds, driverVars
<1>9. OpenEnds'
  BY <1>1, <1>2, <1>3, <1>4 DEF DriverInv, OpenEnds
<1> QED BY <1>6, <1>7, <1>8, <1>9 DEF DriverInv

LEMMA InitDriver == Init => DriverInv
<1> SUFFICES ASSUME Init PROVE DriverInv
  OBVIOUS
<1> USE DEF Init, EpollInit
<1>1. TypeOK
  BY DEF TypeOK, EpollTypeOK, Free
<1>2. LockHeld /\ CtlWatched /\ OpenEnds
  BY DEF LockHeld, CtlWatched, OpenEnds, Ends, Free
<1> QED BY <1>1, <1>2 DEF DriverInv

\* The data of the sender and of the receiver keep their types, and a step takes or brings
\* at most what the pipe holds.
LEMMA SenderKeepsDriver == DriverInv /\ Handing /\ (Sender \/ SinkCtlError) => DriverInv'
<1> SUFFICES ASSUME DriverInv, Handing, Sender \/ SinkCtlError PROVE DriverInv'
  OBVIOUS
<1> "w" \in Ends
  BY DEF Ends
<1>0. /\ buffer \in Seq(1..Items) /\ status \in {"ok", "closed"} /\ fed \in 0..Items
      /\ op \in {"feed", "flush", "close"} /\ rcvd \in Seq(Units)
      /\ pipe \in Seq(Units) /\ Len(pipe) <= Cap
  BY DEF DriverInv, TypeOK
<1>1. CASE Refused \/ FlushBroken \/ SinkCtlError
  <2>1. /\ pc["w"] \in {"run", "block"} /\ SenderFails /\ status' \in {"ok", "closed"}
        /\ UNCHANGED <<driverVars, buffer, fed, rcvd>>
    BY <1>0, <1>1 DEF Refused, FlushBroken, SinkCtlError, EpollCtlFails, Sending
  <2>2. PICK to \in {"run", "done"} : LeavePoll("w", pipe, to)
    BY <2>1 DEF SenderFails
  <2>3. op' \in {"feed", "flush", "close"}
    BY <1>0, <2>1 DEF SenderFails
  <2> QED BY <1>0, <2>1, <2>2, <2>3, LeavePollKeeps
<1>2. CASE FlushEmpty
  <2>1. /\ pc["w"] = "run" /\ SenderGoesOn(pipe)
        /\ UNCHANGED <<driverVars, buffer, status, fed, rcvd>>
    BY <1>2 DEF FlushEmpty, Sending
  <2>2. op' \in {"feed", "flush", "close"} /\ \E to \in {"run", "done"} : LeavePoll("w", pipe, to)
    BY <1>0, <2>1 DEF SenderGoesOn
  <2>3. PICK to \in {"run", "done"} : LeavePoll("w", pipe, to)
    BY <2>2
  <2> QED BY <1>0, <2>1, <2>2, <2>3, LeavePollKeeps
<1>3. CASE FlushOk
  <2> DEFINE p == pipe \o Written
  <2>1. /\ pc["w"] = "run" /\ buffer # <<>> /\ Len(pipe) < Cap /\ buffer' = Tail(buffer)
        /\ UNCHANGED <<driverVars, status, fed, rcvd>>
    BY <1>3 DEF FlushOk, WriteFirst, Sending
  <2>2. /\ op' \in {"feed", "flush", "close"}
        /\ \E to \in {"run", "idle", "done"} : LeavePoll("w", p, to)
    BY <1>0, <1>3 DEF FlushOk, WriteFirst, SenderGoesOn
  <2>3. PICK to \in {"run", "idle", "done"} : LeavePoll("w", p, to)
    BY <2>2
  <2>4. Written \in Seq(Units) /\ Len(Written) <= Cap - Len(pipe)
    BY <1>0, <2>1, WrittenFacts
  <2>5. p \in Seq(Units) /\ Len(p) <= Cap
    BY <1>0, <2>4
  <2> HIDE DEF p
  <2>6. buffer' \in Seq(1..Items)
    BY <1>0, <2>1
  <2> QED BY <1>0, <2>1, <2>2, <2>3, <2>5, <2>6, LeavePollKeeps
<1>4. CASE Feed
  <2> USE <1>4 DEF Feed, Sending, DriverInv, epollVars, taskVars
  <2>1. fed' \in 0..Items /\ buffer' \in Seq(1..Items)
    BY <1>0 DEF Handing
  <2>2. op' \in {"feed", "flush", "close"}
    BY DEF FeedsOrFlushes
  <2>3. TypeOK'
    BY <2>1, <2>2 DEF TypeOK, EpollTypeOK
  <2>4. LockHeld' /\ CtlWatched' /\ OpenEnds'
    BY DEF LockHeld, CtlWatched, OpenEnds
  <2> QED BY <2>3, <2>4
<1>5. CASE FeedFull \/ FlushWouldBlock
  <2> USE <1>5 DEF FeedFull, FlushWouldBlock, Sending, DriverInv, epollVars, sinkVars
  <2>1. EpollTypeOK'
    BY DEF TypeOK, EpollTypeOK
  <2>2. TypeOK'
    BY <2>1 DEF TypeOK
  <2>3. LockHeld' /\ CtlWatched' /\ OpenEnds'
    BY DEF TypeOK, EpollTypeOK, LockHeld, CtlWatched, OpenEnds
  <2> QED BY <2>2, <2>3
<1> QED BY <1>1, <1>2, <1>3, <1>4, <1>5 DEF Sender

LEMMA ReceiverKeepsDriver == DriverInv /\ (Receiver \/ StreamCtlError) => DriverInv'
<1> SUFFICES ASSUME DriverInv, Receiver \/ StreamCtlError PROVE DriverInv'
  OBVIOUS
<1> "r" \in Ends
  BY DEF Ends
<1>0. /\ buffer \in Seq(1..Items) /\ status \in {"ok", "closed"} /\ fed \in 0..Items
      /\ op \in {"feed", "flush", "close"} /\ rcvd \in Seq(Units)
      /\ pipe \in Seq(Units) /\ Len(pipe) <= Cap
  BY DEF DriverInv, TypeOK
<1>1. CASE StreamItem
  <2>1. Available \in 1..Len(pipe)
    BY <1>0, <1>1, AvailableBounds DEF StreamItem
  <2> DEFINE p == SubSeq(pipe, Available + 1, Len(pipe))
  <2>2. p \in Seq(Units) /\ Len(p) <= Cap
    BY <1>0, <2>1
  <2>3. rcvd' \in Seq(Units)
    BY <1>0, <1>1, <2>1 DEF StreamItem
  <2>4. PICK to \in {"run", "done"} : LeavePoll("r", p, to)
    BY <1>1 DEF StreamItem
  <2>5. pc["r"] = "run" /\ UNCHANGED <<driverVars, buffer, status, op, fed>>
    BY <1>1 DEF StreamItem, sinkVars
  <2> HIDE DEF p
  <2> QED BY <1>0, <2>2, <2>3, <2>4, <2>5, LeavePollKeeps
<1>2. CASE StreamCtlError
  <2>1. /\ LeavePoll("r", pipe, "done") /\ pc["r"] = "block"
        /\ UNCHANGED <<driverVars, buffer, status, op, fed, rcvd>>
    BY <1>2 DEF StreamCtlError, EpollCtlFails, sinkVars
  <2> QED BY <1>0, <2>1, LeavePollKeeps
<1>3. CASE StreamEof \/ StreamWouldBlock
  <2> USE <1>3 DEF StreamEof, StreamWouldBlock, DriverInv, epollVars, sinkVars
  <2>1. EpollTypeOK'
    BY DEF TypeOK, EpollTypeOK
  <2>2. TypeOK'
    BY <2>1 DEF TypeOK
  <2>3. LockHeld' /\ CtlWatched' /\ OpenEnds'
    BY DEF TypeOK, EpollTypeOK, LockHeld, CtlWatched, OpenEnds
  <2> QED BY <2>2, <2>3
<1> QED BY <1>1, <1>2, <1>3 DEF Receiver

\* on_would_block, the driver and the executor touch neither the sink nor the stream.
Background ==
  \/ SinkInsert \/ StreamInsert \/ Wait
  \/ \E e \in Ends : Ctl(e) \/ Wake(e) \/ Poll(e) \/ Spurious(e)

LEMMA BackgroundKeepsDriver == DriverInv /\ Background => DriverInv'
<1> SUFFICES ASSUME DriverInv, Background PROVE DriverInv'
  OBVIOUS
<1> USE DEF DriverInv, sinkVars
<1>1. CASE SinkInsert \/ StreamInsert
  <2> USE <1>1 DEF SinkInsert, StreamInsert, CtlInsert, StoreWaker
  <2>0. gen \in 0..MaxGen /\ gen \in Nat
    BY DEF TypeOK, EpollTypeOK
  <2>1. EpollTypeOK'
    <3>1. wakers' \in [Ends -> 0..MaxGen]
      BY <2>0 DEF TypeOK, EpollTypeOK
    <3>2. notified' \in [Ends -> BOOLEAN]
      BY DEF TypeOK, EpollTypeOK
    <3>3. eph' \in [Ends -> BOOLEAN] /\ pc' \in [Ends -> {"run", "block", "ctl", "idle", "done"}]
      BY DEF TypeOK, EpollTypeOK
    <3>4. UNCHANGED <<gen, interest, events>> /\ mutex' = Free
      OBVIOUS
    <3> QED BY <3>1, <3>2, <3>3, <3>4 DEF TypeOK, EpollTypeOK
  <2>2. TypeOK'
    BY <2>1 DEF TypeOK
  <2>3. LockHeld' /\ CtlWatched' /\ OpenEnds'
    BY DEF TypeOK, EpollTypeOK, LockHeld, CtlWatched, OpenEnds, Ends, Free
  <2> QED BY <2>2, <2>3
<1>2. CASE Wait
  <2> USE <1>2 DEF Wait, EpollWait, taskVars
  <2>1. interest' \in [Ends -> {"none", "armed", "queued", "off"}]
    BY DEF TypeOK, EpollTypeOK
  <2>2. events' \subseteq Ends
    BY DEF TypeOK, Ready, ReadyEnds
  <2>3. TypeOK'
    BY <2>1, <2>2 DEF TypeOK, EpollTypeOK
  <2>4. LockHeld' /\ CtlWatched' /\ OpenEnds'
    BY DEF TypeOK, EpollTypeOK, LockHeld, CtlWatched, OpenEnds
  <2> QED BY <2>3, <2>4
<1>3. ASSUME NEW e \in Ends, Ctl(e) PROVE DriverInv'
  <2> USE <1>3 DEF Ctl, EpollCtl
  <2> mutex' = e /\ e # Free /\ pc[e] = "block" /\ mutex = Free
    BY DEF Ends, Free
  <2>1. EpollTypeOK'
    BY DEF TypeOK, EpollTypeOK
  <2>2. TypeOK'
    BY <2>1 DEF TypeOK
  <2>3. LockHeld' /\ CtlWatched' /\ OpenEnds'
    BY DEF TypeOK, EpollTypeOK, LockHeld, CtlWatched, OpenEnds, Ends, Free
  <2> QED BY <2>2, <2>3
<1>4. ASSUME NEW e \in Ends, Wake(e) PROVE DriverInv'
  <2> USE <1>4 DEF Wake, Dispatch
  <2>1. notified' \in [Ends -> BOOLEAN] /\ events' \subseteq Ends
    BY DEF TypeOK, EpollTypeOK
  <2>2. wakers' \in [Ends -> 0..MaxGen]
    BY DEF TypeOK, EpollTypeOK
  <2>3. TypeOK'
    BY <2>1, <2>2 DEF TypeOK, EpollTypeOK
  <2>4. LockHeld' /\ CtlWatched' /\ OpenEnds'
    BY DEF TypeOK, EpollTypeOK, LockHeld, CtlWatched, OpenEnds, Ends, Free
  <2> QED BY <2>3, <2>4
<1>5. ASSUME NEW e \in Ends, Poll(e) \/ Spurious(e) PROVE DriverInv'
  <2> USE <1>5 DEF Poll, Spurious, PollWoken, PollSpurious, BeginPoll, epollVars
  <2>1. EpollTypeOK'
    BY DEF TypeOK, EpollTypeOK
  <2>2. TypeOK'
    BY <2>1 DEF TypeOK
  <2>3. LockHeld' /\ CtlWatched' /\ OpenEnds'
    BY DEF TypeOK, EpollTypeOK, LockHeld, CtlWatched, OpenEnds
  <2> QED BY <2>2, <2>3
<1> QED BY <1>1, <1>2, <1>3, <1>4, <1>5 DEF Background

-----------------------------------------------------------------------------
(* The sender's promise and the stream.                                    *)

\* s is the items 1 to n, one after the other, of each its first units.
ItemsOf(s, n) ==
  /\ \A a, b \in DOMAIN s : a < b =>
       \/ s[a][1] < s[b][1]
       \/ s[a][1] = s[b][1] /\ s[a][2] < s[b][2]
  /\ {u[1] : u \in {s[a] : a \in DOMAIN s}} = 1..n
  /\ \A a \in DOMAIN s : s[a][2] = 2 => a > 1 /\ s[a - 1] = <<s[a][1], 1>>

\* The library's facts on concatenation, at the sequences of this module.
LEMMA ConcatUnits ==
  \A s, t \in Seq(Units) :
    /\ s \o t \in Seq(Units) /\ Len(s \o t) = Len(s) + Len(t)
    /\ \A i \in 1..(Len(s) + Len(t)) :
         (s \o t)[i] = IF i <= Len(s) THEN s[i] ELSE t[i - Len(s)]
BY ConcatProperties

LEMMA ConcatUnitsAssociative == \A s, t, u \in Seq(Units) : (s \o t) \o u = s \o (t \o u)
BY ConcatAssociative

\* What a read moves from the pipe to the receiver leaves the stream as it is.
LEMMA MoveFront ==
  ASSUME NEW s \in Seq(Units), NEW t \in Seq(Units), NEW k \in 1..Len(t)
  PROVE  (s \o SubSeq(t, 1, k)) \o SubSeq(t, k + 1, Len(t)) = s \o t
<1> DEFINE u == SubSeq(t, 1, k)
           v == SubSeq(t, k + 1, Len(t))
<1>1. u \in Seq(Units) /\ v \in Seq(Units)
  OBVIOUS
<1>2. u \o v = t
  <2>1. /\ 1 \in 1..(Len(t) + 1) /\ k \in (1 - 1)..Len(t) /\ Len(t) \in k..Len(t)
    BY LenProperties
  <2>2. u \o v = SubSeq(t, 1, Len(t))
    BY <2>1, ConcatAdjacentSubSeq
  <2> QED BY <2>2, SubSeqFull
<1> HIDE DEF u, v
<1>3. (s \o u) \o v = s \o (u \o v)
  BY <1>1, ConcatUnitsAssociative, Zenon
<1> QED BY <1>2, <1>3, Zenon DEF u, v

\* The first unit or the first two of the next item continue the stream.
LEMMA NextItem ==
  ASSUME NEW s \in Seq(Units), NEW t \in Seq(Units), NEW n \in Nat,
         ItemsOf(s, n), Len(t) \in 1..2,
         \A k \in 1..Len(t) : t[k] = <<n + 1, k>>
  PROVE  ItemsOf(s \o t, n + 1)
<1> DEFINE c == s \o t
<1>0. Len(t) \in Nat /\ Len(t) >= 1
  <2>1. \A i \in 1..2 : i \in Nat /\ i >= 1
    OBVIOUS
  <2> QED BY <2>1, Zenon
<1>1. /\ c \in Seq(Units) /\ Len(c) = Len(s) + Len(t)
      /\ \A i \in 1..(Len(s) + Len(t)) : c[i] = IF i <= Len(s) THEN s[i] ELSE t[i - Len(s)]
  BY ConcatUnits
<1> HIDE DEF c
<1>2. /\ Len(s) \in Nat /\ DOMAIN s = 1..Len(s) /\ DOMAIN c = 1..(Len(s) + Len(t))
      /\ \A a \in 1..Len(s) : c[a] = s[a] /\ c[a] \in Units
      /\ \A a \in (Len(s) + 1)..(Len(s) + Len(t)) : c[a] = <<n + 1, a - Len(s)>>
  <2>1. /\ Len(s) \in Nat /\ DOMAIN s = 1..Len(s) /\ DOMAIN c = 1..(Len(s) + Len(t))
    BY <1>1, LenProperties
  <2>2. \A a \in 1..Len(s) : c[a] = s[a] /\ c[a] \in Units
    BY <1>1, <2>1
  <2>3. ASSUME NEW a \in (Len(s) + 1)..(Len(s) + Len(t)) PROVE c[a] = <<n + 1, a - Len(s)>>
    <3>1. a \in 1..(Len(s) + Len(t)) /\ ~(a <= Len(s)) /\ a - Len(s) \in 1..Len(t)
      BY <2>1
    <3>2. c[a] = t[a - Len(s)]
      BY <1>1, <3>1
    <3> QED BY <3>1, <3>2
  <2> QED BY <2>1, <2>2, <2>3
<1>3. \A a \in 1..Len(s) : c[a][1] \in 1..n
  <2> SUFFICES ASSUME NEW a \in 1..Len(s) PROVE c[a][1] \in 1..n
    OBVIOUS
  <2>1. c[a] = s[a] /\ s[a][1] \in {u[1] : u \in {s[b] : b \in DOMAIN s}}
    BY <1>2
  <2> QED BY <2>1 DEF ItemsOf
<1>4. ASSUME NEW a \in DOMAIN c, NEW b \in DOMAIN c, a < b
      PROVE  \/ c[a][1] < c[b][1]
             \/ c[a][1] = c[b][1] /\ c[a][2] < c[b][2]
  <2>1. CASE b <= Len(s)
    <3>1. a \in DOMAIN s /\ b \in DOMAIN s /\ c[a] = s[a] /\ c[b] = s[b]
      BY <1>2, <1>4, <2>1
    <3> QED BY <1>4, <3>1 DEF ItemsOf
  <2>2. CASE a <= Len(s) /\ ~(b <= Len(s))
    <3>1. c[a][1] \in 1..n /\ c[b] = <<n + 1, b - Len(s)>>
      BY <1>2, <1>3, <2>2
    <3> QED BY <3>1
  <2>3. CASE ~(a <= Len(s))
    <3>1. c[a] = <<n + 1, a - Len(s)>> /\ c[b] = <<n + 1, b - Len(s)>>
      BY <1>2, <1>4, <2>3
    <3>2. a \in Nat /\ b \in Nat
      BY <1>2
    <3> QED BY <1>2, <1>4, <3>1, <3>2
  <2> QED BY <1>2, <1>4, <2>1, <2>2, <2>3
<1>5. {u[1] : u \in {c[a] : a \in DOMAIN c}} = 1..(n + 1)
  <2>1. ASSUME NEW x \in {u[1] : u \in {c[a] : a \in DOMAIN c}} PROVE x \in 1..(n + 1)
    <3>1. PICK a \in DOMAIN c : x = c[a][1]
      BY <2>1
    <3>2. CASE a <= Len(s)
      BY <1>2, <1>3, <3>1, <3>2
    <3>3. CASE ~(a <= Len(s))
      <4>1. c[a] = <<n + 1, a - Len(s)>>
        BY <1>2, <3>3
      <4> QED BY <3>1, <4>1
    <3> QED BY <3>2, <3>3
  <2>2. ASSUME NEW x \in 1..(n + 1) PROVE x \in {u[1] : u \in {c[a] : a \in DOMAIN c}}
    <3>1. CASE x <= n
      <4>1. x \in {u[1] : u \in {s[a] : a \in DOMAIN s}}
        <5>1. x \in 1..n
          BY <2>2, <3>1
        <5>2. {u[1] : u \in {s[a] : a \in DOMAIN s}} = 1..n
          BY DEF ItemsOf
        <5> QED BY <5>1, <5>2, Zenon
      <4>2. PICK a \in DOMAIN s : x = s[a][1]
        BY <4>1
      <4>3. a \in DOMAIN c /\ c[a] = s[a]
        BY <1>2
      <4> QED BY <4>2, <4>3
    <3>2. CASE x = n + 1
      <4>0. Len(s) \in Nat /\ Len(t) \in Nat /\ Len(t) >= 1
        <5>1. Len(s) \in Nat
          BY <1>2
        <5> QED BY <1>0, <5>1
      <4>1. Len(s) + 1 \in DOMAIN c /\ Len(s) + 1 \in (Len(s) + 1)..(Len(s) + Len(t))
        <5>1. Len(s) + 1 \in (Len(s) + 1)..(Len(s) + Len(t)) /\ Len(s) + 1 \in 1..(Len(s) + Len(t))
          BY <4>0
        <5> QED BY <1>2, <5>1
      <4>2. c[Len(s) + 1] = <<n + 1, (Len(s) + 1) - Len(s)>>
        BY <1>2, <4>1
      <4>3. c[Len(s) + 1][1] = x
        BY <3>2, <4>2
      <4> QED BY <4>1, <4>3
    <3> QED BY <2>2, <3>1, <3>2
  <2> QED BY <2>1, <2>2
<1>6. ASSUME NEW a \in DOMAIN c, c[a][2] = 2
      PROVE  a > 1 /\ c[a - 1] = <<c[a][1], 1>>
  <2>1. CASE a <= Len(s)
    <3>1. a \in DOMAIN s /\ c[a] = s[a]
      BY <1>2, <2>1
    <3>2. a > 1 /\ s[a - 1] = <<s[a][1], 1>>
      BY <1>6, <3>1 DEF ItemsOf
    <3>3. a - 1 \in 1..Len(s)
      BY <1>2, <3>1, <3>2
    <3> QED BY <1>2, <3>1, <3>2, <3>3
  <2>2. CASE ~(a <= Len(s))
    <3>1. a \in (Len(s) + 1)..(Len(s) + Len(t)) /\ c[a] = <<n + 1, a - Len(s)>>
      BY <1>2, <2>2
    <3>2. a - Len(s) = 2
      BY <1>6, <3>1
    <3>3. a - 1 = Len(s) + 1 /\ a - 1 \in (Len(s) + 1)..(Len(s) + Len(t)) /\ a > 1
      BY <1>2, <3>1, <3>2
    <3>4. c[a - 1] = <<n + 1, (a - 1) - Len(s)>>
      BY <1>2, <3>3
    <3>5. (a - 1) - Len(s) = 1 /\ c[a][1] = n + 1
      BY <1>2, <3>1, <3>3
    <3> QED BY <3>3, <3>4, <3>5
  <2> QED BY <2>1, <2>2
<1> QED BY <1>4, <1>5, <1>6 DEF ItemsOf, c

LEMMA InitSink == Init => SinkInv
<1> SUFFICES ASSUME Init PROVE SinkInv
  OBVIOUS
<1> USE DEF Init, EpollInit
<1>1. Handing /\ DoneMeansHanded
  BY DEF Handing, DoneMeansHanded, Ends
<1>2. Queued
  BY DEF Queued
<1>3. Stream = <<>> /\ Gone = 0
  <2>1. rcvd = <<>> /\ pipe = <<>> /\ fed = 0 /\ Len(buffer) = 0
    OBVIOUS
  <2>2. <<>> \in Seq(Units)
    OBVIOUS
  <2>3. <<>> \o <<>> = <<>>
    BY <2>2, ConcatEmptySeq
  <2>4. Stream = <<>>
    BY <2>1, <2>3, Zenon DEF Stream
  <2>5. Gone = 0 - 0
    BY <2>1, Zenon DEF Gone
  <2> QED BY <2>4, <2>5
<1>4. OnlyTailsCut
  BY <1>3 DEF OnlyTailsCut
<1> QED BY <1>1, <1>2, <1>4 DEF SinkInv

\* Steps that leave the sender's data and the stream alone.
LEMMA StreamMoves ==
  ASSUME SinkInv, UNCHANGED <<buffer, status, op, fed>>, Stream' = Stream,
         pc'["w"] = "done" => pc["w"] = "done"
  PROVE  SinkInv'
<1>1. Handing' /\ DoneMeansHanded'
  BY DEF SinkInv, Handing, DoneMeansHanded
<1>2. Gone' = Gone
  BY DEF Gone
<1>3. Queued' /\ OnlyTailsCut'
  BY <1>2 DEF SinkInv, Queued, OnlyTailsCut
<1> QED BY <1>1, <1>3 DEF SinkInv

\* The sender gives up after an error, which has closed the sink.
LEMMA FailureKeeps ==
  ASSUME SinkInv, SenderFails, status' = "closed", UNCHANGED <<buffer, fed, rcvd>>
  PROVE  SinkInv'
<1>1. pipe' = pipe /\ (op' = op \/ op' = "close")
  BY DEF SenderFails, LeavePoll, KernelStep
<1>2. Handing' /\ DoneMeansHanded'
  BY <1>1 DEF SinkInv, Handing, DoneMeansHanded
<1>3. Gone' = Gone /\ Stream' = Stream
  BY <1>1 DEF Gone, Stream
<1>4. Queued' /\ OnlyTailsCut'
  BY <1>3 DEF SinkInv, Queued, OnlyTailsCut
<1> QED BY <1>2, <1>4 DEF SinkInv

LEMMA FeedKeeps == DriverInv /\ SinkInv /\ Feed => SinkInv'
<1> SUFFICES ASSUME DriverInv, SinkInv, Feed PROVE SinkInv'
  OBVIOUS
<1> USE DEF Feed
<1>0. buffer \in Seq(1..Items) /\ fed \in 0..Items /\ pc["w"] = "run" /\ fed < Items
  BY DEF DriverInv, TypeOK, Sending, SinkInv, Handing
<1>1. Handing'
  BY <1>0 DEF FeedsOrFlushes, Handing
<1>2. DoneMeansHanded'
  BY <1>0 DEF taskVars, DoneMeansHanded
<1>3. Len(buffer') = Len(buffer) + 1 /\ Gone' = Gone /\ Stream' = Stream
  BY <1>0 DEF Gone, Stream
<1>4. Queued'
  <2>1. \A k \in 1..Len(buffer) : buffer[k] = Gone + k
    BY <1>0 DEF SinkInv, Queued
  <2>2. ASSUME NEW k \in 1..Len(buffer') PROVE buffer'[k] = Gone + k
    <3>1. CASE k <= Len(buffer)
      <4>1. k \in 1..Len(buffer) /\ buffer'[k] = buffer[k]
        BY <1>0, <1>3, <3>1
      <4> QED BY <2>1, <4>1
    <3>2. CASE k = Len(buffer) + 1
      BY <1>0, <3>2 DEF Gone
    <3> QED BY <1>0, <1>3, <3>1, <3>2
  <2>3. DOMAIN buffer' = 1..Len(buffer') /\ Len(buffer) <= fed
    BY <1>0 DEF SinkInv, Queued
  <2> QED BY <1>0, <1>3, <2>2, <2>3 DEF Queued
<1>5. OnlyTailsCut'
  BY <1>3 DEF SinkInv, OnlyTailsCut
<1> QED BY <1>1, <1>2, <1>4, <1>5 DEF SinkInv

LEMMA FlushEmptyKeeps == DriverInv /\ SinkInv /\ FlushEmpty => SinkInv'
<1> SUFFICES ASSUME DriverInv, SinkInv, FlushEmpty PROVE SinkInv'
  OBVIOUS
<1> USE DEF FlushEmpty
<1>0. /\ fed \in 0..Items /\ pc["w"] = "run"
      /\ pc \in [Ends -> {"run", "block", "ctl", "idle", "done"}]
  BY DEF DriverInv, TypeOK, EpollTypeOK, Sending
<1>1. /\ pipe' = pipe
      /\ op = "close" => op' = op
      /\ op # "close" => /\ op' = (IF fed = Items THEN "close" ELSE "feed")
                         /\ pc' = [pc EXCEPT !["w"] = "run"]
  BY DEF SenderGoesOn, LeavePoll, KernelStep
<1>2. Handing'
  BY <1>0, <1>1 DEF SinkInv, Handing
<1>3. DoneMeansHanded'
  BY <1>0, <1>1 DEF SinkInv, Handing, DoneMeansHanded, Ends
<1>4. Gone' = Gone /\ Stream' = Stream
  BY <1>1 DEF Gone, Stream
<1>5. Queued' /\ OnlyTailsCut'
  BY <1>4 DEF SinkInv, Queued, OnlyTailsCut
<1> QED BY <1>2, <1>3, <1>5 DEF SinkInv

LEMMA FlushOkKeeps == DriverInv /\ SinkInv /\ FlushOk => SinkInv'
<1> SUFFICES ASSUME DriverInv, SinkInv, FlushOk PROVE SinkInv'
  OBVIOUS
<1>0. /\ buffer \in Seq(1..Items) /\ fed \in 0..Items
      /\ pipe \in Seq(Units) /\ rcvd \in Seq(Units)
      /\ pc \in [Ends -> {"run", "block", "ctl", "idle", "done"}]
  BY DEF DriverInv, TypeOK, EpollTypeOK
<1>1. /\ status = "ok" /\ buffer # <<>> /\ Len(pipe) < Cap
      /\ buffer' = Tail(buffer) /\ pipe' = pipe \o Written
      /\ UNCHANGED <<status, fed, rcvd>>
  BY DEF FlushOk, WriteFirst, SenderGoesOn, LeavePoll, KernelStep
<1>2. /\ op = "close" => op' = op
      /\ op # "close" => op' \in {op, IF fed = Items THEN "close" ELSE "feed"}
      /\ pc'["w"] = "done" => op = "close" /\ Len(buffer) = 1
  BY <1>0 DEF FlushOk, WriteFirst, SenderGoesOn, LeavePoll, KernelStep, Ends
<1>3. Handing'
  BY <1>0, <1>1, <1>2 DEF SinkInv, Handing
<1>4. Len(buffer) \in Nat /\ Len(buffer) >= 1 /\ Len(buffer') = Len(buffer) - 1
      /\ buffer' \in Seq(1..Items)
  BY <1>0, <1>1
<1>5. DoneMeansHanded'
  <2>1. Len(buffer) = 1 => buffer' = <<>>
    BY <1>4
  <2>2. op = "close" => fed = Items
    BY <1>1 DEF SinkInv, Handing
  <2> QED BY <1>1, <1>2, <2>1, <2>2 DEF DoneMeansHanded
<1>6. Gone \in Nat /\ Gone' = Gone + 1 /\ Head(buffer) = Gone + 1
  <2>1. Len(buffer) <= fed /\ buffer[1] = Gone + 1
    BY <1>0, <1>4, SMTT(30) DEF SinkInv, Queued
  <2> QED BY <1>0, <1>1, <1>4, <2>1 DEF Gone
<1>7. Queued'
  <2>1. \A k \in 1..Len(buffer) : buffer[k] = Gone + k
    BY <1>0 DEF SinkInv, Queued
  <2>2. \A k \in 1..Len(buffer') : buffer'[k] = buffer[k + 1] /\ k + 1 \in 1..Len(buffer)
    BY <1>0, <1>1, <1>4
  <2>3. \A k \in 1..Len(buffer') : buffer'[k] = Gone' + k
    BY <1>4, <1>6, <2>1, <2>2
  <2> QED BY <1>0, <1>1, <1>4, <2>3, SMTT(30) DEF SinkInv, Queued
<1>8. OnlyTailsCut'
  <2>1. /\ Written \in Seq(Units) /\ Len(Written) \in 1..2
        /\ \A k \in 1..Len(Written) : Written[k] = <<Gone + 1, k>>
    <3>1. Len(pipe) \in Nat
      BY <1>0
    <3>2. /\ Written \in Seq(Units) /\ Len(Written) \in 1..2
          /\ \A k \in 1..Len(Written) : Written[k] = <<Head(buffer), k>>
      BY <1>0, <1>1, <3>1, WrittenFacts
    <3> QED BY <1>6, <3>2
  <2> DEFINE s == rcvd \o pipe
  <2>2. s \in Seq(Units) /\ ItemsOf(s, Gone)
    BY <1>0, ConcatUnits DEF SinkInv, OnlyTailsCut, Stream, ItemsOf
  <2> HIDE DEF s
  <2>3. ItemsOf(s \o Written, Gone + 1)
    BY <1>6, <2>1, <2>2, NextItem
  <2>4. s \o Written = rcvd \o (pipe \o Written)
    BY <1>0, <2>1, ConcatUnitsAssociative, Zenon DEF s
  <2>5. Stream' = s \o Written
    BY <1>1, <2>4 DEF Stream
  <2>6. ItemsOf(Stream', Gone')
    BY <1>6, <2>3, <2>5
  <2> QED BY <2>6 DEF OnlyTailsCut, ItemsOf
<1> QED BY <1>3, <1>5, <1>7, <1>8 DEF SinkInv

LEMMA StepKeepsSink == DriverInv /\ SinkInv /\ [Next]_vars => SinkInv'
<1> SUFFICES ASSUME DriverInv, SinkInv, [Next]_vars PROVE SinkInv'
  OBVIOUS
<1>0. /\ pc \in [Ends -> {"run", "block", "ctl", "idle", "done"}]
      /\ pipe \in Seq(Units) /\ rcvd \in Seq(Units)
      /\ "r" \in Ends /\ "w" \in Ends
  BY DEF DriverInv, TypeOK, EpollTypeOK, Ends
<1>1. CASE Refused \/ FlushBroken \/ SinkCtlError
  <2>1. SenderFails /\ status' = "closed" /\ UNCHANGED <<buffer, fed, rcvd>>
    BY <1>1 DEF Refused, FlushBroken, SinkCtlError
  <2> QED BY <2>1, FailureKeeps
<1>2. CASE Feed
  BY <1>2, FeedKeeps
<1>3. CASE FlushEmpty
  BY <1>3, FlushEmptyKeeps
<1>4. CASE FlushOk
  BY <1>4, FlushOkKeeps
<1>5. CASE FeedFull \/ FlushWouldBlock
  <2>1. UNCHANGED <<buffer, status, op, fed, pipe, rcvd>> /\ pc'["w"] # "done"
    BY <1>0, <1>5 DEF FeedFull, FlushWouldBlock, sinkVars
  <2> QED BY <2>1, StreamMoves DEF Stream
<1>6. CASE StreamItem
  <2>1. Available \in 1..Len(pipe)
    BY <1>0, <1>6, AvailableBounds DEF StreamItem
  <2>2. /\ rcvd' = rcvd \o SubSeq(pipe, 1, Available)
        /\ pipe' = SubSeq(pipe, Available + 1, Len(pipe))
        /\ UNCHANGED <<buffer, status, op, fed>> /\ pc'["w"] = pc["w"]
    BY <1>0, <1>6 DEF StreamItem, LeavePoll, KernelStep, sinkVars
  <2>3. Stream' = Stream
    BY <1>0, <2>1, <2>2, MoveFront DEF Stream
  <2> QED BY <2>2, <2>3, StreamMoves
<1>7. CASE StreamEof \/ StreamWouldBlock \/ StreamCtlError
  <2>1. UNCHANGED <<buffer, status, op, fed, pipe, rcvd>> /\ pc'["w"] = pc["w"]
    BY <1>0, <1>7 DEF StreamEof, StreamWouldBlock, StreamCtlError, LeavePoll, KernelStep, sinkVars
  <2> QED BY <2>1, StreamMoves DEF Stream
<1>8. CASE Background
  <2>1. UNCHANGED <<buffer, status, op, fed, pipe, rcvd>>
    BY <1>8 DEF Background, SinkInsert, StreamInsert, Wait, Ctl, Wake, Poll, Spurious, sinkVars
  <2>2. pc'["w"] = "done" => pc["w"] = "done"
    BY <1>0, <1>8 DEF Background, SinkInsert, StreamInsert, Wait, Ctl, Wake, Poll, Spurious,
       CtlInsert, EpollWait, EpollCtl, Dispatch, PollWoken, PollSpurious, BeginPoll, taskVars
  <2> QED BY <2>1, <2>2, StreamMoves DEF Stream
<1>9. CASE UNCHANGED vars
  BY <1>9, StreamMoves DEF vars, sinkVars, taskVars, Stream
<1> QED BY <1>1, <1>2, <1>3, <1>4, <1>5, <1>6, <1>7, <1>8, <1>9
        DEF Next, Sender, Receiver, Background

LEMMA StepKeepsDriver == DriverInv /\ Handing /\ [Next]_vars => DriverInv'
<1> SUFFICES ASSUME DriverInv, Handing, [Next]_vars PROVE DriverInv'
  OBVIOUS
<1>1. CASE UNCHANGED vars
  BY <1>1 DEF vars, epollVars, taskVars, sinkVars, DriverInv, TypeOK, EpollTypeOK,
              LockHeld, CtlWatched, OpenEnds
<1> QED BY <1>1, SenderKeepsDriver, ReceiverKeepsDriver, BackgroundKeepsDriver
        DEF Next, Background

-----------------------------------------------------------------------------
(* What puts a task to sleep.                                              *)

\* A step in which the task of end e leaves its poll puts at most that task to sleep, and
\* that only if it leaves it Pending: the other end is as well watched as before.
LEMMA LeavePollWatches ==
  ASSUME DriverInv, NEW e \in Ends, NEW p, NEW to \in {"run", "idle", "done"},
         LeavePoll(e, p, to), UNCHANGED driverVars,
         NEW d \in Ends, ~Asleep(d), Asleep(d)'
  PROVE  d = e /\ to = "idle"
<1> SUFFICES ASSUME ~(d = e /\ to = "idle") PROVE Watched(d)'
  BY DEF Asleep
<1> DEFINE O == IF to = "done" THEN open \ {e} ELSE open
           R == ReadyEnds(p, O)
<1>1. interest' = Settle(R, O) /\ pc' = [pc EXCEPT ![e] = to]
  BY DEF LeavePoll, KernelStep
<1>2. d # e /\ pc[d] = "idle" /\ ~notified[d]
  BY <1>1 DEF DriverInv, TypeOK, EpollTypeOK, Asleep, driverVars
<1>3. d \in O
  BY <1>2 DEF DriverInv, OpenEnds
<1> HIDE DEF O, R
<1>4. interest[d] \in {"armed", "queued"} => interest'[d] \in {"armed", "queued"}
  BY <1>1, <1>3, SettleFacts DEF DriverInv, TypeOK
<1>5. Watched(d)
  BY <1>2 DEF Asleep
<1> QED BY <1>4, <1>5 DEF Watched, driverVars

\* The driver and the executor put no task to sleep: on_would_block stores the waker of
\* what is watched, epoll_wait keeps or reports it, and the dispatch of an event wakes.
LEMMA BackgroundWatches ==
  ASSUME DriverInv, Background
  PROVE  \A d \in Ends : ~Asleep(d) => ~Asleep(d)'
<1> SUFFICES ASSUME NEW d \in Ends, ~Asleep(d), pc'[d] = "idle", ~notified'[d]
             PROVE  Watched(d)'
  BY DEF Asleep
<1> USE DEF DriverInv
<1>0. /\ interest \in [Ends -> {"none", "armed", "queued", "off"}]
      /\ wakers \in [Ends -> 0..MaxGen] /\ notified \in [Ends -> BOOLEAN]
      /\ pc \in [Ends -> {"run", "block", "ctl", "idle", "done"}]
      /\ Free \notin Ends
  BY DEF TypeOK, EpollTypeOK, Ends, Free
<1>1. CASE SinkInsert \/ StreamInsert
  <2>1. PICK e \in Ends : /\ pc[e] = "ctl"
                          /\ wakers' = [wakers EXCEPT ![e] = gen]
                          /\ pc' = [pc EXCEPT ![e] = "idle"]
                          /\ \A c \in Ends \ {e} : notified'[c] = notified[c]
                          /\ UNCHANGED <<gen, interest, events>>
    BY <1>0, <1>1 DEF SinkInsert, StreamInsert, CtlInsert, StoreWaker, Ends
  <2>2. CASE d = e
    BY <1>0, <2>1, <2>2 DEF CtlWatched, Watched
  <2>3. CASE d # e
    BY <1>0, <2>1, <2>3 DEF Asleep, Watched
  <2> QED BY <2>2, <2>3
<1>2. CASE Wait
  <2>1. Watched(d) /\ interest[d] \in {"armed", "queued"}
    BY <1>2 DEF Wait, EpollWait, taskVars, Asleep, Watched
  <2> QED BY <1>0, <1>2, <2>1 DEF Wait, EpollWait, Watched
<1>3. ASSUME NEW e \in Ends, Ctl(e) PROVE Watched(d)'
  <2>1. pc[d] = "idle" /\ d # e
    BY <1>0, <1>3 DEF Ctl, EpollCtl
  <2>2. Watched(d)
    BY <1>3, <2>1 DEF Ctl, EpollCtl, Asleep
  <2> QED BY <1>0, <1>3, <2>1, <2>2 DEF Ctl, EpollCtl, Watched
<1>4. ASSUME NEW e \in Ends, Wake(e) PROVE Watched(d)'
  <2>1. pc[d] = "idle" /\ ~notified[d]
    BY <1>0, <1>4 DEF Wake, Dispatch
  <2>2. Watched(d)
    BY <2>1 DEF Asleep
  <2>3. d # e
    BY <1>0, <1>4, <2>2 DEF Wake, Dispatch, Watched
  <2> QED BY <1>0, <1>4, <2>2, <2>3 DEF Wake, Dispatch, Watched
<1>5. ASSUME NEW e \in Ends, Poll(e) \/ Spurious(e) PROVE Watched(d)'
  <2>1. d # e /\ pc[d] = "idle" /\ ~notified[d]
    BY <1>0, <1>5 DEF Poll, Spurious, PollWoken, PollSpurious, BeginPoll
  <2> QED BY <1>5, <2>1 DEF Poll, Spurious, PollWoken, PollSpurious, BeginPoll, epollVars,
                            Asleep, Watched
<1> QED BY <1>1, <1>2, <1>3, <1>4, <1>5 DEF Background

LEMMA StepWatches ==
  ASSUME DriverInv, [Next]_vars, NEW d \in Ends, ~Asleep(d), Asleep(d)'
  PROVE  d = "w" /\ (FlushOk \/ FeedFull)
<1>0. /\ pc \in [Ends -> {"run", "block", "ctl", "idle", "done"}]
      /\ notified \in [Ends -> BOOLEAN] /\ "r" \in Ends /\ "w" \in Ends
  BY DEF DriverInv, TypeOK, EpollTypeOK, Ends
<1>1. CASE Refused \/ FlushEmpty \/ FlushBroken \/ SinkCtlError
  <2>1. UNCHANGED driverVars /\ \E p, to : to \in {"run", "done"} /\ LeavePoll("w", p, to)
    BY <1>1 DEF Refused, FlushEmpty, FlushBroken, SinkCtlError, SenderFails, SenderGoesOn
  <2> QED BY <1>0, <2>1, LeavePollWatches
<1>2. CASE StreamItem \/ StreamCtlError
  <2>1. UNCHANGED driverVars /\ \E p, to : to \in {"run", "done"} /\ LeavePoll("r", p, to)
    BY <1>2 DEF StreamItem, StreamCtlError
  <2> QED BY <1>0, <2>1, LeavePollWatches
<1>3. CASE Feed \/ UNCHANGED vars
  BY <1>3 DEF Feed, vars, epollVars, taskVars, Asleep, Watched
<1>4. CASE StreamEof \/ StreamWouldBlock \/ FlushWouldBlock
  BY <1>0, <1>4 DEF StreamEof, StreamWouldBlock, FlushWouldBlock, epollVars, Asleep, Watched
<1>5. CASE Background
  BY <1>5, BackgroundWatches
<1>6. CASE FlushOk
  <2>1. UNCHANGED driverVars /\ \E p, to : to \in {"run", "idle", "done"} /\ LeavePoll("w", p, to)
    BY <1>6 DEF FlushOk, WriteFirst, SenderGoesOn
  <2>2. d = "w"
    BY <1>0, <2>1, LeavePollWatches
  <2> QED BY <1>6, <2>2
<1>7. CASE FeedFull
  <2>1. CASE d = "w"
    BY <1>7, <2>1
  <2>2. CASE d = "r"
    BY <1>0, <1>7, <2>2 DEF FeedFull, epollVars, Asleep, Watched
  <2> QED BY <2>1, <2>2 DEF Ends
<1> QED BY <1>1, <1>2, <1>3, <1>4, <1>5, <1>6, <1>7 DEF Next, Sender, Receiver, Background

-----------------------------------------------------------------------------
(* The theorems.                                                           *)

\* The invariant holds however the sender, the receiver and the driver interleave.
THEOREM Invariant == SafeSpec => []IInv
<1>1. Init => IInv
  BY InitDriver, InitSink DEF IInv
<1>2. IInv /\ [Next]_vars => IInv'
  BY StepKeepsDriver, StepKeepsSink DEF IInv, SinkInv
<1> QED BY <1>1, <1>2, PTL DEF SafeSpec

\* Every variable keeps its type; the kernel pipe never holds more than its capacity.
THEOREM TypeCorrect == Spec => []TypeOK
BY Invariant, PTL DEF Spec, IInv, DriverInv

\* A send_all and a close that return Ok have put every item into the kernel pipe, or at
\* least its first unit, and an error of the sink is never forgotten (PipeSink.status).
THEOREM SenderKeepsItsWord == Spec => []DoneMeansHanded
BY Invariant, PTL DEF Spec, IInv, SinkInv

\* Items leave the sink in order, and what a short write() drops is only ever the end of
\* the item being written.
THEOREM ItemsLeaveInOrder == Spec => []OnlyTailsCut
BY Invariant, PTL DEF Spec, IInv, SinkInv

\* No interleaving of the driver with the sink and the stream puts a task to sleep; only
\* the two places of PipeSink that return Pending without a waker do.
THEOREM OnlySinkSleeps == Spec => SleepsOnlyUnregistered
<1>1. DriverInv /\ [Next]_vars
      => [\A e \in Ends : ~Asleep(e) /\ Asleep(e)' => e = "w" /\ (FlushOk \/ FeedFull)]_vars
  BY StepWatches
<1> QED BY Invariant, <1>1, PTL DEF Spec, SafeSpec, IInv, SleepsOnlyUnregistered
=============================================================================
