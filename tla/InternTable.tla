---------------------------- MODULE InternTable ----------------------------
(***************************************************************************)
(* What a caller of AllocInterned::alloc_interned asks for: each call is   *)
(* answered, the answer reads as the value that was given, and a value     *)
(* once known stays known.                                                 *)
(***************************************************************************)
CONSTANTS Threads, Values, None

VARIABLES known,   \* the values in the table
          asked,   \* the value a thread waits for, None if it is not in a call
          answer   \* what the last answer to a thread read as, when it came

vars == <<known, asked, answer>>

Init ==
  /\ known = {}
  /\ asked = [t \in Threads |-> None]
  /\ answer = [t \in Threads |-> None]

Ask(t, v) ==
  /\ asked[t] = None
  /\ asked' = [asked EXCEPT ![t] = v]
  /\ UNCHANGED <<known, answer>>

Answer(t) ==
  /\ asked[t] # None
  /\ answer' = [answer EXCEPT ![t] = asked[t]]
  /\ known' = known \cup {asked[t]}
  /\ asked' = [asked EXCEPT ![t] = None]

Next == \E t \in Threads : Answer(t) \/ \E v \in Values : Ask(t, v)

SafeSpec == Init /\ [][Next]_vars

Spec == SafeSpec /\ \A t \in Threads : WF_vars(Answer(t))
=============================================================================
