------------------------------ MODULE Channel ------------------------------
(***************************************************************************)
(* What Pipe::new() promises to the tasks that own its two ends: a bounded *)
(* channel.  A write goes through as soon as there is room, a read as soon *)
(* as there is data, units arrive in the order they were written, and a    *)
(* writer whose reader is gone is told so.  No descriptor, driver, waker   *)
(* or would-block is visible.                                              *)
(***************************************************************************)
EXTENDS Naturals, Sequences

CONSTANT Cap  \* how many units the channel holds

VARIABLES open,  \* the ends that are open
          sent,  \* how many units were written; unit i is the number i
          rcvd   \* the units read, in order

chanVars == <<open, sent, rcvd>>

Upto(n) == [i \in 1..n |-> i]

Init == open = {"r", "w"} /\ sent = 0 /\ rcvd = <<>>

\* A write is accepted; the writer may hang up with it.
Send ==
  /\ open = {"r", "w"}
  /\ sent - Len(rcvd) < Cap
  /\ sent' = sent + 1
  /\ open' \in {open, open \ {"w"}}
  /\ UNCHANGED rcvd

\* The reader gets the next units; it may hang up with them.
Deliver ==
  /\ "r" \in open
  /\ \E n \in (Len(rcvd) + 1)..sent : rcvd' = Upto(n)
  /\ open' \in {open, open \ {"r"}}
  /\ UNCHANGED sent

Hangup(e) ==
  /\ e \in open
  /\ open' = open \ {e}
  /\ UNCHANGED <<sent, rcvd>>

\* The writer is told that the reader is gone.
BrokenPipe == "r" \notin open /\ Hangup("w")

Reopen ==
  /\ open = {}
  /\ open' = {"r", "w"}
  /\ sent' = 0
  /\ rcvd' = <<>>

Next == Send \/ Deliver \/ (\E e \in {"r", "w"} : Hangup(e)) \/ Reopen

SafeSpec == Init /\ [][Next]_chanVars

Spec ==
  /\ SafeSpec
  /\ WF_chanVars(Send)
  /\ WF_chanVars(Deliver)
  /\ WF_chanVars(BrokenPipe)
=============================================================================
