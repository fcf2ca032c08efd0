----------------------------- MODULE AsyncPipe -----------------------------
(***************************************************************************)
(* A PipeReader and a PipeWriter of x004 pipe/linux.rs, used by two tasks  *)
(* the way test_async_pipe_read_write uses them: the writer awaits Writes  *)
(* writes, the reader awaits reads until it has Want units, and each drops *)
(* its end when it returns.  The pipe, the epoll driver and both tasks run *)
(* concurrently.                                                           *)
(***************************************************************************)
EXTENDS KernelPipe

CONSTANTS Writes,  \* writes of one unit the writer makes on each pipe
          Want     \* units the reader waits for on each pipe

ASSUME PipeAssumption == Writes \in Nat \ {0} /\ Want \in Nat \ {0}

VARIABLES sent,  \* writes accepted; the i-th write carries the number i
          rcvd   \* units the reader got

vars == <<gen, epollVars, taskVars, pipe, open, sent, rcvd>>

TypeOK ==
  /\ EpollTypeOK
  /\ pipe \in Seq(Nat)
  /\ Len(pipe) <= Cap
  /\ open \subseteq Ends
  /\ sent \in 0..Writes
  /\ rcvd \in Seq(Nat)

Init ==
  /\ EpollInit
  /\ pipe = <<>>
  /\ open = Ends
  /\ sent = 0
  /\ rcvd = <<>>

-----------------------------------------------------------------------------
(* PipeReader::poll_read under the loop of read_from_pipe.                 *)

\* Mutation: what does not fit the reader's buffer is discarded.
ReadOkDropsRest ==
  /\ pc["r"] = "run"
  /\ pipe # <<>>
  /\ rcvd' = rcvd \o SubSeq(pipe, 1, Available)
  /\ LeavePoll("r", <<>>, IF Len(rcvd') >= Want THEN "done" ELSE "run")
  /\ UNCHANGED <<gen, events, wakers, mutex, eph, notified, sent>>

ReadOk ==
  /\ pc["r"] = "run"
  /\ pipe # <<>>
  /\ rcvd' = rcvd \o SubSeq(pipe, 1, Available)
  /\ LeavePoll("r", SubSeq(pipe, Available + 1, Len(pipe)),
               IF Len(rcvd') >= Want THEN "done" ELSE "run")
  /\ UNCHANGED <<gen, events, wakers, mutex, eph, notified, sent>>

\* Mutation: nothing wakes the task at end of file.
ReadEofParks ==
  /\ pc["r"] = "run"
  /\ pipe = <<>> /\ "w" \notin open
  /\ pc' = [pc EXCEPT !["r"] = "idle"]
  /\ UNCHANGED <<gen, epollVars, eph, notified, pipe, open, sent, rcvd>>

\* Ok(0): the task wakes itself and stays Pending, end of file is never reported.
ReadEof ==
  /\ pc["r"] = "run"
  /\ pipe = <<>> /\ "w" \notin open
  /\ pc' = [pc EXCEPT !["r"] = "idle"]
  /\ notified' = [notified EXCEPT !["r"] = TRUE]
  /\ UNCHANGED <<gen, epollVars, eph, pipe, open, sent, rcvd>>

ReadWouldBlock ==
  /\ pc["r"] = "run"
  /\ pipe = <<>> /\ "w" \in open
  /\ pc' = [pc EXCEPT !["r"] = "block"]
  /\ UNCHANGED <<gen, epollVars, eph, notified, pipe, open, sent, rcvd>>

-----------------------------------------------------------------------------
(* PipeWriter::poll_write under the loop of write_to_pipe.                 *)

\* Mutation: one write too many.
WriteOkOnceMore ==
  /\ pc["w"] = "run"
  /\ "r" \in open /\ Len(pipe) < Cap
  /\ sent' = sent + 1
  /\ LeavePoll("w", Append(pipe, sent + 1), IF sent = Writes THEN "done" ELSE "run")
  /\ UNCHANGED <<gen, events, wakers, mutex, eph, notified, rcvd>>

WriteOk ==
  /\ pc["w"] = "run"
  /\ "r" \in open /\ Len(pipe) < Cap
  /\ sent' = sent + 1
  /\ LeavePoll("w", Append(pipe, sent + 1), IF sent + 1 = Writes THEN "done" ELSE "run")
  /\ UNCHANGED <<gen, events, wakers, mutex, eph, notified, rcvd>>

\* Mutation: EPIPE is taken for would-block.
WriteBrokenRetries ==
  /\ pc["w"] = "run"
  /\ "r" \notin open
  /\ LeavePoll("w", pipe, "block")
  /\ UNCHANGED <<gen, events, wakers, mutex, eph, notified, sent, rcvd>>

\* EPIPE: the error is returned and the task ends.
WriteBroken ==
  /\ pc["w"] = "run"
  /\ "r" \notin open
  /\ LeavePoll("w", pipe, "done")
  /\ UNCHANGED <<gen, events, wakers, mutex, eph, notified, sent, rcvd>>

WriteWouldBlock ==
  /\ pc["w"] = "run"
  /\ "r" \in open /\ Len(pipe) = Cap
  /\ pc' = [pc EXCEPT !["w"] = "block"]
  /\ UNCHANGED <<gen, epollVars, eph, notified, pipe, open, sent, rcvd>>

-----------------------------------------------------------------------------
(* on_would_block, the driver and the executor, seen from the pipe.        *)

Ctl(e) == EpollCtl(e, Ready) /\ UNCHANGED <<pipe, open, sent, rcvd>>

\* The error of epoll_ctl comes out of the poll, and the task returns.
CtlError(e) ==
  /\ EpollCtlFails(e)
  /\ LeavePoll(e, pipe, "done")
  /\ UNCHANGED <<gen, events, wakers, mutex, eph, notified, sent, rcvd>>

Insert(e)   == CtlInsert(e) /\ UNCHANGED <<pipe, open, sent, rcvd>>
Wait        == EpollWait(Ready) /\ UNCHANGED <<pipe, open, sent, rcvd>>
Wake(e)     == Dispatch(e) /\ UNCHANGED <<pipe, open, sent, rcvd>>
Poll(e)     == PollWoken(e) /\ UNCHANGED <<pipe, open, sent, rcvd>>
Spurious(e) == PollSpurious(e) /\ UNCHANGED <<pipe, open, sent, rcvd>>

\* Pipe::new on the descriptor numbers that the last pipe gave back.
Reopen ==
  /\ open = {} /\ gen < MaxGen
  /\ gen' = gen + 1
  /\ pipe' = <<>> /\ open' = Ends /\ sent' = 0 /\ rcvd' = <<>>
  /\ eph' = [e \in Ends |-> FALSE]
  /\ pc' = [e \in Ends |-> "run"]
  /\ notified' = [e \in Ends |-> FALSE]
  /\ UNCHANGED epollVars

Reader == ReadOk \/ ReadEof \/ ReadWouldBlock
Writer == WriteOk \/ WriteBroken \/ WriteWouldBlock

Next ==
  \/ Reader \/ Writer \/ Wait \/ Reopen
  \/ \E e \in Ends : Ctl(e) \/ CtlError(e) \/ Insert(e) \/ Wake(e) \/ Poll(e) \/ Spurious(e)

SafeSpec == Init /\ [][Next]_vars

(***************************************************************************)
(* Fairness.  Each task runs on a thread of its own and the driver on a    *)
(* third (pool_size(2) and block_on in the test), and EpollFuture wakes    *)
(* itself after every wait: weak fairness.  The mutex is parking_lot's,    *)
(* which hands the lock over eventually: strong fairness for the steps     *)
(* that need it.  Nothing makes a spurious poll happen.                    *)
(***************************************************************************)
Fairness ==
  /\ WF_vars(Reader) /\ WF_vars(Writer) /\ WF_vars(Wait) /\ WF_vars(Reopen)
  /\ \A e \in Ends : /\ SF_vars(Ctl(e) \/ CtlError(e)) /\ SF_vars(Wake(e))
                     /\ WF_vars(Insert(e)) /\ WF_vars(Poll(e))

Spec == SafeSpec /\ Fairness

-----------------------------------------------------------------------------
(* Properties.                                                             *)

\* No wakeup is lost: a parked task is about to be polled or is watched, and an armed
\* descriptor is one that would block, so data, room or a hangup always reaches the task
\* (on_would_block against Epoll::wait).
NoLostWakeup ==
  \A e \in Ends : /\ pc[e] = "idle" => notified[e] \/ Watched(e)
                  /\ interest[e] = "armed" => e \notin Ready

\* eph tells what the kernel knows when on_would_block reads it, also on reused
\* descriptor numbers: MOD never meets an unknown descriptor, nor ADD a known one.
EphIsRegistered ==
  \A e \in open : pc[e] # "ctl" => eph[e] <=> Registered(e)

\* Units come out in the order of the writes, none lost, none twice: what was read
\* followed by what is in the pipe is what was written.
FifoOrder == rcvd \o pipe = [i \in 1..sent |-> i]

\* Whatever the interleaving with the driver, both tasks return on every pipe, or the reader
\* is left alone with less than it wants (the loops of the two tests).
TasksReturn == <>[]( \/ gen = MaxGen /\ open = {}
                     \/ open = {"r"} /\ sent < Want)

\* Such a reader is not told that the writer is gone for good: it is polled again and again
\* (the Ok(0) arm of poll_read).
EofKeepsPolling == <>[](open = {"r"}) => []<>(pc["r"] = "run")

\* The pipe, its driver and the tasks implement the channel of module Channel.
Chan == INSTANCE Channel
ChannelSpec == Chan!Spec
=============================================================================
