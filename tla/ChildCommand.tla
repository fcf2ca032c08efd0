---------------------------- MODULE ChildCommand ----------------------------
(***************************************************************************)
(* Command of x001 cmd.rs: one child at a time and the three ways to wait  *)
(* for it.  wait() does not touch the child's stdout; wait_with_output()   *)
(* reads it until the child is gone; the future asks for the exit status   *)
(* and reads only once there is one.                                       *)
(***************************************************************************)
EXTENDS Naturals

CONSTANTS Cap,     \* units the pipe behind the child's stdout holds
          MaxSize  \* bound: units a child writes

ASSUME CommandAssumption == Cap \in Nat \ {0} /\ MaxSize \in Nat

VARIABLES child,  \* "none", "running" or "exited"
          how,    \* how it is waited for: "wait", "output" or "poll"
          size,   \* what it writes in all, none if its stdout is inherited
          left,   \* what it has still to write
          out,    \* what is in the pipe
          got     \* what the parent has read

childVars == <<child, how, size, left, out, got>>

ChildTypeOK ==
  /\ child \in {"none", "running", "exited"}
  /\ how \in {"none", "wait", "output", "poll"}
  /\ {size, left, got} \subseteq 0..MaxSize /\ out \in 0..Cap

ChildInit == child = "none" /\ how = "none" /\ size = 0 /\ left = 0 /\ out = 0 /\ got = 0

\* Command::new and the call of wait, of wait_with_output or the first poll.
Launch(h) ==
  /\ child' = "running" /\ how' = h
  /\ size' \in 0..MaxSize /\ left' = size'
  /\ out' = 0 /\ got' = 0

\* The child: a full pipe blocks it.
ChildWrites ==
  /\ child = "running" /\ left > 0 /\ out < Cap
  /\ left' = left - 1 /\ out' = out + 1
  /\ UNCHANGED <<child, how, size, got>>

ChildExits ==
  /\ child = "running" /\ left = 0
  /\ child' = "exited"
  /\ UNCHANGED <<how, size, left, out, got>>

\* std's wait_with_output reads to the end of the pipe.
ReadOut ==
  /\ how = "output" /\ out > 0
  /\ got' = got + out /\ out' = 0
  /\ UNCHANGED <<child, how, size, left>>

\* Mutation: the exit status is enough.
ReturnedAtExit == child = "exited"

\* The call returns, or the future is Ready; before that it wakes its own task.
Returned == child = "exited" /\ (how = "output" => out = 0)

\* The stdout of the Output. The future reads what is in the pipe when it is Ready.
Output == IF how = "poll" THEN got + out ELSE got

\* The Command is dropped.
Drop == child' = "none" /\ how' = "none" /\ size' = 0 /\ left' = 0 /\ out' = 0 /\ got' = 0

\* The child waits for room in a pipe that is read only once the child has exited, or never.
Stuck == child = "running" /\ how # "output" /\ left > 0 /\ out = Cap

\* Who asks for the output gets all of it.
OutputCollected == Returned /\ how # "wait" => Output = size
=============================================================================
