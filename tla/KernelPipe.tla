----------------------------- MODULE KernelPipe -----------------------------
(***************************************************************************)
(* One kernel pipe whose ends are watched by the driver of module Epoll.   *)
(* Nothing here is code of the repository: it is the pipe(7) and epoll(7)  *)
(* behaviour that pipe/linux.rs relies on.                                 *)
(*                                                                         *)
(* A unit is what one write() of at most PIPE_BUF bytes carries; the       *)
(* kernel accepts it whole or refuses it with EAGAIN.                      *)
(***************************************************************************)
EXTENDS Epoll, Sequences

CONSTANTS Cap,     \* units the kernel pipe holds
          ReadMax  \* units the reader's buffer holds

ASSUME KernelPipeAssumption == Cap \in Nat \ {0} /\ ReadMax \in Nat \ {0}

VARIABLES pipe,  \* units in the kernel pipe
          open   \* ends not closed yet

(***************************************************************************)
(* A read end is ready when there is data or no writer (EPOLLHUP), a write *)
(* end when there is room or no reader (EPOLLERR).                         *)
(***************************************************************************)
ReadyEnds(p, o) ==
  {e \in o : \/ e = "r" /\ (p # <<>> \/ "w" \notin o)
             \/ e = "w" /\ (Len(p) < Cap \/ "r" \notin o)}

Ready == ReadyEnds(pipe, open)

\* The step leaves pipe p and open ends o behind, and the kernel's lists follow.
KernelStep(p, o) ==
  /\ pipe' = p
  /\ open' = o
  /\ interest' = Settle(ReadyEnds(p, o), o)

\* The task of end e leaves its poll at "to"; it drops its end when it is done.
LeavePoll(e, p, to) ==
  /\ pc' = [pc EXCEPT ![e] = to]
  /\ KernelStep(p, IF to = "done" THEN open \ {e} ELSE open)

\* The units one read() returns.
Available == IF Len(pipe) < ReadMax THEN Len(pipe) ELSE ReadMax

(***************************************************************************)
(* End e is on its way to being woken: its waker is stored, and the kernel *)
(* watches the descriptor or the driver holds an event for it.             *)
(***************************************************************************)
Watched(e) ==
  /\ wakers[e] = gen
  /\ interest[e] \in {"armed", "queued"} \/ e \in events
=============================================================================
