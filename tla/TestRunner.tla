----------------------------- MODULE TestRunner -----------------------------
(***************************************************************************)
(* StandardTestRunner of x001 framework.rs, run again and again: set up    *)
(* the resources in order, run the test, tear the resources down; the test *)
(* may await a Command of its own.  The resources are PostgresServers, of  *)
(* which new admits one: it asserts that names differ, and theirs is       *)
(* "postgres".  The rest stand for resources that fail in the same ways.   *)
(*                                                                         *)
(* The state is behind a std Mutex, which is poisoned when its holder      *)
(* panics, and which is not reentrant: run, before and after each take it. *)
(***************************************************************************)
EXTENDS PostgresServer

VARIABLES
  phase,     \* "idle", or where run is: "before", "test", "await", "return", "after"
  held,      \* a guard of the mutex is alive
  poisoned,  \* the mutex is poisoned
  ret        \* what run returned, or is going to return

vars == <<runs, at, serverVars, phase, held, poisoned, ret>>

TypeOK ==
  /\ ServerTypeOK
  /\ phase \in {"idle", "before", "test", "await", "return", "after"}
  /\ held \in BOOLEAN /\ poisoned \in BOOLEAN
  /\ ret \in {"none", "ok", "testFailure", "setupError", "panic"}

Init ==
  /\ ServerInit
  /\ phase = "idle" /\ held = FALSE /\ poisoned = FALSE /\ ret = "none"

\* A panic that nothing in run catches; the harness does not catch it either.
Unwind ==
  /\ phase' = "idle" /\ ret' = "panic"
  /\ poisoned' = (poisoned \/ held) /\ held' = FALSE

\* The call into resource `at` is over; the next one begins, if there is one.
NextResource(call) ==
  /\ at' = at + 1
  /\ stage' = IF at < N THEN call ELSE "none"

\* A call into a resource, of which the runner sees only the end.
Steps(steps) == steps /\ UNCHANGED <<runs, at, phase, held, poisoned, ret>>

-----------------------------------------------------------------------------
(* before()                                                                *)

CallRun == phase = "idle" /\ ret # "panic" /\ runs < MaxRuns /\ runs' = runs + 1

Starts ==
  /\ phase' = "before" /\ held' = TRUE /\ ret' = "none"
  /\ at' = 1 /\ stage' = "files"
  /\ UNCHANGED poisoned

\* Mutation: the guard is taken out of a poisoned lock.
BeginPoisoned == CallRun /\ Starts /\ UNCHANGED <<childVars, config, up, timeVars>>

\* lock().unwrap(): a poisoned lock is a panic.
Begin ==
  /\ CallRun
  /\ \/ ~poisoned /\ Starts
     \/ poisoned /\ Unwind /\ UNCHANGED <<at, stage>>
  /\ UNCHANGED <<childVars, config, up, timeVars>>

SetupOk ==
  /\ phase = "before" /\ stage = "ok"
  /\ NextResource("files")
  /\ UNCHANGED <<childVars, config, up, timeVars, runs, phase, held, poisoned, ret>>

\* The error leaves before and run at once.
SetupFails ==
  /\ phase = "before" /\ stage = "error"
  /\ phase' = "idle" /\ held' = FALSE /\ ret' = "setupError"
  /\ stage' = "none" /\ clock' = 0 /\ waited' = 0 /\ opens' = 0
  /\ UNCHANGED <<childVars, config, up, runs, at, poisoned>>

\* A setup or a teardown panics; after() makes the error of a teardown a panic.
ResourcePanics ==
  /\ stage = "panic" \/ (phase = "after" /\ stage = "error")
  /\ Unwind
  /\ stage' = "none"
  /\ UNCHANGED <<childVars, config, up, timeVars, runs, at>>

-----------------------------------------------------------------------------
(* The test.                                                               *)

StartTest ==
  /\ phase = "before" /\ at = N + 1
  /\ phase' = "test"
  /\ UNCHANGED <<serverVars, runs, at, held, poisoned, ret>>

\* The test awaits a Command and has its Output.
TestAwaits ==
  /\ phase = "test"
  /\ Launch("poll")
  /\ phase' = "await"
  /\ UNCHANGED <<stage, config, up, timeVars, runs, at, held, poisoned, ret>>

TestResumes ==
  /\ phase = "await" /\ Returned
  /\ Drop
  /\ phase' = "return"
  /\ UNCHANGED <<stage, config, up, timeVars, runs, at, held, poisoned, ret>>

Testing == phase \in {"test", "return"}

TestEnds(result) ==
  /\ Testing
  /\ phase' = "after" /\ at' = 0 /\ ret' = result
  /\ UNCHANGED <<serverVars, runs>>

\* Mutation: the guard stays in run.
TestReturnsHolding == TestEnds("ok") /\ UNCHANGED <<held, poisoned>>

\* The guard was moved into the closure and is dropped with it.
TestReturns == TestEnds("ok") /\ held' = FALSE /\ UNCHANGED poisoned

\* Mutation: the error of catch_unwind is returned at once.
TestPanicsOut ==
  /\ Testing
  /\ phase' = "idle" /\ ret' = "testFailure"
  /\ held' = FALSE /\ poisoned' = TRUE
  /\ UNCHANGED <<serverVars, runs, at>>

\* The panic drops the guard, which poisons the lock, and is caught.
TestPanics == TestEnds("testFailure") /\ held' = FALSE /\ poisoned' = TRUE

-----------------------------------------------------------------------------
(* after()                                                                 *)

\* The lock is taken, poisoned or not.
After ==
  /\ phase = "after" /\ at = 0 /\ ~held
  /\ held' = TRUE /\ at' = 1 /\ stage' = "teardown"
  /\ UNCHANGED <<childVars, config, up, timeVars, runs, phase, poisoned, ret>>

TeardownOk ==
  /\ phase = "after" /\ stage = "ok"
  /\ NextResource("teardown")
  /\ UNCHANGED <<childVars, config, up, timeVars, runs, phase, held, poisoned, ret>>

\* Mutation: one resource too far.
FinishBeyond ==
  /\ phase = "after" /\ at = N + 1
  /\ phase' = "idle" /\ held' = FALSE /\ at' = at + 1
  /\ UNCHANGED <<serverVars, runs, poisoned, ret>>

Finish ==
  /\ phase = "after" /\ at = N + 1
  /\ phase' = "idle" /\ held' = FALSE
  /\ UNCHANGED <<serverVars, runs, at, poisoned, ret>>

Resource == Steps(Setup) \/ Steps(Teardown) \/ Steps(Reads)
Child    == Steps(Docker)
Run == \/ SetupOk \/ SetupFails \/ ResourcePanics
       \/ StartTest \/ TestAwaits \/ TestResumes \/ TestReturns \/ TestPanics
       \/ After \/ TeardownOk \/ Finish

Next == Begin \/ Run \/ Resource \/ Child

\* The thread of the runner goes on, and a child does when it can. Nobody has to call run.
Spec == Init /\ [][Next]_vars /\ WF_vars(Run \/ Resource) /\ WF_vars(Child)

-----------------------------------------------------------------------------
(* Properties.                                                             *)

\* The test runs with every resource set up in this very run, and after() meets the
\* configs of this run, not ones left by an earlier run or none (the "?" in before, and
\* the config that setup stores before it waits).
ResourcesOfThisRun ==
  /\ phase \in {"test", "await", "return", "after"} => \A r \in Resources : config[r] = runs
  /\ phase \in {"test", "await", "return"} => Resources \X {runs} \subseteq up

\* A run that got as far as the test, panic or not, takes its resources down one by one and
\* skips none: a teardown that panics leaves just its own and those behind it, any other end
\* leaves nothing (catch_unwind, and into_inner in after()).
TornDown ==
  /\ phase = "after" => {r \in Resources : <<r, runs>> \in up} \in {at..N, (at + 1)..N}
  /\ phase = "idle" /\ ret \in {"ok", "testFailure"} => up \cap (Resources \X {runs}) = {}

\* A run comes to its end: its three locks never wait for each other, and setup gives up. The
\* one thing that holds it for ever is a child that fills a piped stdout which is not read
\* before the child has exited (wait, and the future), or not at all.
RunReturns == phase # "idle" ~> phase = "idle" \/ Stuck

\* Once a test has panicked the runner starts nothing any more.
PoisonedStartsNothing == [][poisoned => up' \subseteq up]_vars
=============================================================================
