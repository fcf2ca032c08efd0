--------------------------- MODULE PipeSinkStream ---------------------------
(***************************************************************************)
(* A PipeSink and a PipeStream of x004 pipe/linux.rs over one pipe.  The   *)
(* sender calls SinkExt::send_all for one batch of items after the other,  *)
(* which feeds the batch (poll_ready, start_send) and flushes (poll_flush  *)
(* until Ready), and in the end it closes the sink; SinkExt::send is a     *)
(* batch of one.                                                           *)
(* After an error it gives up, or still closes the sink.  The receiver is  *)
(* the loop of test_async_pipe_send_sink: next() until it has Want units.  *)
(*                                                                         *)
(* Item i is Size(i) units long and its unit k is the pair <<i, k>>.  An   *)
(* item of one unit is at most PIPE_BUF bytes and is written whole or not  *)
(* at all; of a longer one write() takes what fits.                        *)
(***************************************************************************)
EXTENDS KernelPipe, FiniteSets

CONSTANTS Items,    \* items the sender sends
          Long,     \* the items that are two units long, the others are one
          Batch,    \* most items fed between two flushes
          MaxQueue, \* PipeSink.max_queue_bytes, in units
          Want      \* units the receiver waits for

ASSUME SinkAssumption ==
  /\ {Items, Batch, Want} \subseteq Nat \ {0}
  /\ Long \subseteq 1..Items
  /\ MaxQueue \in Nat

VARIABLES buffer,  \* PipeSink.buffer
          status,  \* PipeSink.status
          op,      \* what the sender awaits: "feed", "flush" or "close"
          fed,     \* items accepted by start_send
          rcvd     \* units the receiver got

sinkVars   == <<buffer, status, op, fed>>
driverVars == <<gen, events, wakers, mutex, eph, notified>>
vars == <<gen, epollVars, taskVars, pipe, open, sinkVars, rcvd>>

Size(i) == IF i \in Long THEN 2 ELSE 1
Units   == (1..Items) \X (1..2)
QueueUnits == Len(buffer) + Cardinality({j \in DOMAIN buffer : buffer[j] \in Long})

TypeOK ==
  /\ EpollTypeOK
  /\ pipe \in Seq(Units) /\ Len(pipe) <= Cap
  /\ open \subseteq Ends
  /\ buffer \in Seq(1..Items)
  /\ status \in {"ok", "closed"}
  /\ op \in {"feed", "flush", "close"}
  /\ fed \in 0..Items
  /\ rcvd \in Seq(Units)

Init ==
  /\ EpollInit
  /\ pipe = <<>> /\ open = Ends
  /\ buffer = <<>> /\ status = "ok"
  /\ op = "feed" /\ fed = 0
  /\ rcvd = <<>>

-----------------------------------------------------------------------------
(* The sender.                                                             *)

Sending(o) == pc["w"] = "run" /\ op \in o

\* The operation returned Ready(Ok(())): the next one begins in the same poll.
SenderGoesOn(p) ==
  CASE op = "close" -> op' = op /\ LeavePoll("w", p, "done")
    [] op # "close" -> /\ op' = IF fed = Items THEN "close" ELSE "feed"
                       /\ LeavePoll("w", p, "run")

\* The operation returned an error: the sender closes the sink or drops it.
SenderFails ==
  \/ op # "close" /\ op' = "close" /\ LeavePoll("w", pipe, "run")
  \/ op' = op /\ LeavePoll("w", pipe, "done")

\* Every operation on a closed sink is refused with BrokenPipe.
Refused ==
  /\ Sending({"feed", "flush", "close"})
  /\ status = "closed"
  /\ SenderFails
  /\ UNCHANGED <<driverVars, buffer, status, fed, rcvd>>

\* The batch may end here. It began with an empty buffer.
FeedsOrFlushes ==
  op' \in IF fed' = Items \/ Len(buffer') = Batch THEN {"flush"} ELSE {"feed", "flush"}

\* poll_ready finds the queue within its limit, start_send takes the item.
Feed ==
  /\ Sending({"feed"})
  /\ status = "ok"
  /\ QueueUnits <= MaxQueue
  /\ buffer' = Append(buffer, fed + 1)
  /\ fed' = fed + 1
  /\ FeedsOrFlushes
  /\ UNCHANGED <<gen, epollVars, taskVars, pipe, open, status, rcvd>>

\* poll_ready finds the queue over its limit: Pending, and no waker is registered.
FeedFull ==
  /\ Sending({"feed"})
  /\ status = "ok"
  /\ QueueUnits > MaxQueue
  /\ pc' = [pc EXCEPT !["w"] = "idle"]
  /\ UNCHANGED <<gen, epollVars, eph, notified, pipe, open, sinkVars, rcvd>>

(***************************************************************************)
(* poll_flush, and poll_close, which is the same code: one write() of the  *)
(* first item.  Whatever the write took, the whole item leaves the buffer. *)
(***************************************************************************)
FlushEmpty ==
  /\ Sending({"flush", "close"})
  /\ status = "ok" /\ buffer = <<>>
  /\ SenderGoesOn(pipe)
  /\ UNCHANGED <<driverVars, buffer, status, fed, rcvd>>

\* Mutation: the pipe takes the item whole.
WrittenWhole == [k \in 1..Size(Head(buffer)) |-> <<Head(buffer), k>>]

\* The units of the first item that fit the pipe.
Written ==
  LET i == Head(buffer)
      room == Cap - Len(pipe)
  IN [k \in 1..(IF room < Size(i) THEN room ELSE Size(i)) |-> <<i, k>>]

\* The pipe takes a part of the first item, and rest is what stays in the buffer.
WriteFirst(rest, flushed) ==
  /\ Sending({"flush", "close"})
  /\ buffer # <<>>
  /\ "r" \in open /\ Len(pipe) < Cap
  /\ buffer' = rest
  /\ IF flushed THEN SenderGoesOn(pipe \o Written)
                ELSE op' = op /\ LeavePoll("w", pipe \o Written, "idle")
  /\ UNCHANGED <<driverVars, status, fed, rcvd>>

\* Mutation: an item that was cut stays at the front.
FlushKeepsCut ==
  LET rest == IF Len(Written) < Size(Head(buffer)) THEN buffer ELSE Tail(buffer)
  IN status = "ok" /\ WriteFirst(rest, rest = <<>>)

\* Pending with items left and no waker registered.
FlushOk == status = "ok" /\ WriteFirst(Tail(buffer), Len(buffer) = 1)

FlushWouldBlock ==
  /\ Sending({"flush", "close"})
  /\ status = "ok" /\ buffer # <<>>
  /\ "r" \in open /\ Len(pipe) = Cap
  /\ pc' = [pc EXCEPT !["w"] = "block"]
  /\ UNCHANGED <<gen, epollVars, eph, notified, pipe, open, sinkVars, rcvd>>

\* Mutation: EPIPE is taken for would-block.
FlushBrokenRetries ==
  /\ Sending({"flush", "close"})
  /\ status = "ok" /\ buffer # <<>>
  /\ "r" \notin open
  /\ op' = op
  /\ LeavePoll("w", pipe, "block")
  /\ UNCHANGED <<driverVars, buffer, status, fed, rcvd>>

\* Mutation: the status is not set.
FlushBrokenOpen ==
  /\ Sending({"flush", "close"})
  /\ status = "ok" /\ buffer # <<>>
  /\ "r" \notin open
  /\ SenderFails
  /\ UNCHANGED <<driverVars, buffer, status, fed, rcvd>>

\* EPIPE closes the sink.
FlushBroken ==
  /\ Sending({"flush", "close"})
  /\ status = "ok" /\ buffer # <<>>
  /\ "r" \notin open
  /\ status' = "closed"
  /\ SenderFails
  /\ UNCHANGED <<driverVars, buffer, fed, rcvd>>

-----------------------------------------------------------------------------
(* The receiver: PipeStream::poll_next.                                    *)

StreamItem ==
  /\ pc["r"] = "run"
  /\ pipe # <<>>
  /\ rcvd' = rcvd \o SubSeq(pipe, 1, Available)
  /\ LeavePoll("r", SubSeq(pipe, Available + 1, Len(pipe)),
               IF Len(rcvd') >= Want THEN "done" ELSE "run")
  /\ UNCHANGED <<driverVars, sinkVars>>

\* Ok(0): the task wakes itself; the stream never ends.
StreamEof ==
  /\ pc["r"] = "run"
  /\ pipe = <<>> /\ "w" \notin open
  /\ pc' = [pc EXCEPT !["r"] = "idle"]
  /\ notified' = [notified EXCEPT !["r"] = TRUE]
  /\ UNCHANGED <<gen, epollVars, eph, pipe, open, sinkVars, rcvd>>

StreamWouldBlock ==
  /\ pc["r"] = "run"
  /\ pipe = <<>> /\ "w" \in open
  /\ pc' = [pc EXCEPT !["r"] = "block"]
  /\ UNCHANGED <<gen, epollVars, eph, notified, pipe, open, sinkVars, rcvd>>

-----------------------------------------------------------------------------
(* on_would_block, the driver and the executor.                            *)

Ctl(e) == EpollCtl(e, Ready) /\ UNCHANGED <<pipe, open, sinkVars, rcvd>>

\* The sink closes and returns the error.
SinkCtlError ==
  /\ EpollCtlFails("w")
  /\ status' = "closed"
  /\ SenderFails
  /\ UNCHANGED <<driverVars, buffer, fed, rcvd>>

\* The stream closes and yields the error, which ends the receiver's loop.
StreamCtlError ==
  /\ EpollCtlFails("r")
  /\ LeavePoll("r", pipe, "done")
  /\ UNCHANGED <<driverVars, sinkVars, rcvd>>

SinkInsert == CtlInsert("w") /\ UNCHANGED <<pipe, open, sinkVars, rcvd>>

\* The stream registers its waker and wakes itself all the same.
StreamInsert ==
  /\ pc["r"] = "ctl"
  /\ wakers' = [wakers EXCEPT !["r"] = gen]
  /\ notified' = [notified EXCEPT !["r"] = TRUE]
  /\ mutex' = Free
  /\ eph' = [eph EXCEPT !["r"] = TRUE]
  /\ pc' = [pc EXCEPT !["r"] = "idle"]
  /\ UNCHANGED <<gen, interest, events, pipe, open, sinkVars, rcvd>>

Wait        == EpollWait(Ready) /\ UNCHANGED <<pipe, open, sinkVars, rcvd>>
Wake(e)     == Dispatch(e) /\ UNCHANGED <<pipe, open, sinkVars, rcvd>>
Poll(e)     == PollWoken(e) /\ UNCHANGED <<pipe, open, sinkVars, rcvd>>
Spurious(e) == PollSpurious(e) /\ UNCHANGED <<pipe, open, sinkVars, rcvd>>

Sender   == \/ Refused \/ Feed \/ FeedFull
            \/ FlushEmpty \/ FlushOk \/ FlushWouldBlock \/ FlushBroken
Receiver == StreamItem \/ StreamEof \/ StreamWouldBlock

Next ==
  \/ Sender \/ Receiver
  \/ SinkCtlError \/ StreamCtlError \/ SinkInsert \/ StreamInsert
  \/ Wait \/ \E e \in Ends : Ctl(e) \/ Wake(e) \/ Poll(e) \/ Spurious(e)

SafeSpec == Init /\ [][Next]_vars

\* As in AsyncPipe: a thread per task and one for the driver, and parking_lot's mutex.
Fairness ==
  /\ WF_vars(Sender) /\ WF_vars(Receiver) /\ WF_vars(Wait)
  /\ WF_vars(SinkInsert) /\ WF_vars(StreamInsert)
  /\ SF_vars(Ctl("w") \/ SinkCtlError) /\ SF_vars(Ctl("r") \/ StreamCtlError)
  /\ \A e \in Ends : SF_vars(Wake(e)) /\ WF_vars(Poll(e))

Spec == SafeSpec /\ Fairness

-----------------------------------------------------------------------------
(* Properties.                                                             *)

Stream == rcvd \o pipe
Gone   == fed - Len(buffer)  \* items that left the buffer

\* Items leave in order and only their ends are cut: the stream is the items popped so
\* far, one after the other, each from its first unit on, a short one whole
\* (poll_flush pops the item whatever write() returned).
OnlyTailsCut ==
  /\ \A a, b \in DOMAIN Stream : a < b =>
       \/ Stream[a][1] < Stream[b][1]
       \/ Stream[a][1] = Stream[b][1] /\ Stream[a][2] < Stream[b][2]
  /\ {u[1] : u \in {Stream[a] : a \in DOMAIN Stream}} = 1..Gone
  /\ \A a \in DOMAIN Stream : Stream[a][2] = 2 => a > 1 /\ Stream[a - 1] = <<Stream[a][1], 1>>

\* A sender that returned without an error has handed over every item: no flush or close is
\* Ready too early, whatever was in the buffer, and no error before it was forgotten, so
\* that a sink closed after one does not pass for complete.
DoneMeansHanded == pc["w"] = "done" /\ status = "ok" => fed = Items /\ buffer = <<>>

\* poll_ready is Pending.
QueueFull == op = "feed" /\ QueueUnits > MaxQueue

\* A parked task with nobody to wake it.
Asleep(e) == pc[e] = "idle" /\ ~notified[e] /\ ~Watched(e)

\* What puts a task to sleep for good is only ever one of the two Pendings that register no
\* waker: poll_flush after it wrote an item, poll_ready over the limit.  Neither the
\* driver nor a would-block does.
SleepsOnlyUnregistered ==
  [][\A e \in Ends : ~Asleep(e) /\ Asleep(e)' => e = "w" /\ (FlushOk \/ FeedFull)]_vars

\* A sender that feeds at most one item a flush, or whose task is polled for other reasons
\* too (join!, select!), gets through, unless its batch does not fit the queue: then it
\* waits in poll_ready for ever.
SenderReturns ==
  (WF_vars(Spurious("w")) \/ [](Len(buffer) <= 1)) => <>(pc["w"] = "done" \/ QueueFull)
=============================================================================
