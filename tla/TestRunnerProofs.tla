-------------------------- MODULE TestRunnerProofs --------------------------
(***************************************************************************)
(* The test runner with its resources and their children, for any number   *)
(* of resources and runs, any capacity of a pipe and any times: a test     *)
(* meets the resources of its own run, every one of them is taken down,    *)
(* setup gives up neither too early nor too late, an Output is complete,   *)
(* and a poisoned runner starts nothing.                                   *)
(*                                                                         *)
(* The inductive invariant has four parts, on top of TypeOK.  Each says    *)
(* what holds at every point of a run, so that a step has to be followed   *)
(* from one point to the next only.                                        *)
(***************************************************************************)
EXTENDS TestRunner, TLAPS

\* What a child has written is read, in the pipe or still to come.
ChildCounts ==
  /\ child = "none" <=> how = "none"
  /\ size = got + out + left
  /\ child # "running" => left = 0
  /\ child = "none" => size = 0

\* Where the runner may be in each phase: who holds the mutex, which call into which resource
\* is on its way, and that only those calls which wait for docker-compose have a child.
Places ==
  /\ phase = "idle" => stage = "none" /\ ~held
  /\ phase = "before" =>
       /\ held
       /\ \/ at \in Resources /\ stage \in {"files", "up", "port", "look", "connect", "sleep",
                                            "ok", "error", "panic"}
          \/ at = N + 1 /\ stage = "none"
  /\ phase \in {"test", "await", "return"} => held /\ stage = "none" /\ at = N + 1
  /\ phase = "after" =>
       \/ at = 0 /\ stage = "none" /\ ~held
       \/ at \in Resources /\ stage \in {"teardown", "down", "ok", "error", "panic"} /\ held
       \/ at = N + 1 /\ stage = "none" /\ held
  /\ child # "none" <=> stage \in {"up", "port", "down"} \/ phase = "await"
  /\ phase # "idle" => runs # 0
  /\ poisoned => phase \in {"idle", "after"}

\* A setup stores the config and starts the project of its own resource, in order; a teardown
\* asks its own project to go down, in the same order.
Standing ==
  /\ phase = "before" =>
       /\ \A r \in 1..(at - 1) : config[r] = runs /\ <<r, runs>> \in up
       /\ stage \in {"up", "port", "look", "connect", "sleep", "ok"} => <<at, runs>> \in up
       /\ stage \in {"look", "connect", "sleep", "ok"} => config[at] = runs
  /\ phase \in {"test", "await", "return"} =>
       \A r \in Resources : config[r] = runs /\ <<r, runs>> \in up
  /\ phase = "after" =>
       /\ \A r \in Resources : config[r] = runs
       /\ \A r \in Resources : r # at => (<<r, runs>> \in up <=> r > at)
       /\ stage = "teardown" => <<at, runs>> \in up
       /\ stage \in {"down", "ok"} => <<at, runs>> \notin up
  /\ phase = "idle" /\ ret \in {"ok", "testFailure"} =>
       \A r \in Resources : <<r, runs>> \notin up

\* The clock of setup: wait_time is the clock as of the last look, the clock is ahead of it by
\* an attempt and a sleep at most, and there is another turn only while it is below max_wait.
Clocks ==
  /\ stage \notin {"look", "connect", "sleep", "error"} => clock = 0 /\ waited = 0
  /\ stage = "look" => clock < MaxWait + ConnectTimeout + Pause + Late
  /\ stage = "connect" => waited = clock /\ clock < MaxWait + ConnectTimeout + Pause + Late
  /\ stage = "sleep" => waited < MaxWait /\ clock <= waited + ConnectTimeout
  /\ stage = "error" => \/ clock = 0 /\ waited = 0
                        \/ /\ phase = "before" /\ MaxWait < opens
                           /\ clock < MaxWait + 2 * ConnectTimeout + Pause + Late

IInv == TypeOK /\ ChildCounts /\ Places /\ Standing /\ Clocks

-----------------------------------------------------------------------------
\* The bounds are numbers.
LEMMA Bounds ==
  /\ N \in Nat \ {0} /\ MaxRuns \in Nat /\ Cap \in Nat \ {0} /\ MaxSize \in Nat
  /\ MaxWait \in Nat /\ ConnectTimeout \in Nat /\ Late \in Nat /\ Horizon \in Nat
  /\ Pause \in Nat \ {0}
BY ServerAssumption, CommandAssumption

\* A setup is on its way in before() only, and a resource is waited for meanwhile.
LEMMA InSetup ==
  ASSUME IInv, stage \in {"files", "up", "port", "look", "connect", "sleep"}
  PROVE  phase = "before" /\ at \in Resources /\ held /\ ~poisoned /\ runs \in 1..MaxRuns
BY Bounds DEF IInv, TypeOK, ServerTypeOK, Places

\* A teardown is on its way in after() only.
LEMMA InTeardown ==
  ASSUME IInv, stage \in {"teardown", "down"}
  PROVE  phase = "after" /\ at \in Resources /\ held /\ runs \in 1..MaxRuns
BY Bounds DEF IInv, TypeOK, ServerTypeOK, Places

\* Whatever becomes of the child, what it has written is accounted for.
LEMMA ChildKeeps ==
  ASSUME ChildTypeOK, ChildCounts,
         \/ Launch("wait") \/ Launch("output") \/ Launch("poll") \/ Drop
         \/ ChildWrites \/ ChildExits \/ ReadOut
         \/ UNCHANGED childVars
  PROVE  ChildTypeOK' /\ ChildCounts'
<1>1. CASE Launch("wait") \/ Launch("output") \/ Launch("poll")
  BY <1>1, Bounds DEF ChildTypeOK, ChildCounts, Launch
<1>2. CASE Drop
  BY <1>2, Bounds DEF ChildTypeOK, ChildCounts, Drop
<1>3. CASE ChildWrites
  BY <1>3, Bounds DEF ChildTypeOK, ChildCounts, ChildWrites
<1>4. CASE ChildExits
  BY <1>4, Bounds DEF ChildTypeOK, ChildCounts, ChildExits
<1>5. CASE ReadOut
  BY <1>5, Bounds DEF ChildTypeOK, ChildCounts, ReadOut
<1>6. CASE UNCHANGED childVars
  BY <1>6 DEF ChildTypeOK, ChildCounts, childVars
<1> QED BY <1>1, <1>2, <1>3, <1>4, <1>5, <1>6

\* Nothing is up, and nobody holds anything.
LEMMA InitIInv == Init => IInv
<1> SUFFICES ASSUME Init PROVE IInv
  OBVIOUS
<1>1. ServerTypeOK /\ ChildCounts
  BY Bounds DEF Init, ServerInit, ChildInit, ServerTypeOK, ChildTypeOK, ChildCounts, Resources
<1>2. Places /\ Standing /\ Clocks
  BY Bounds DEF Init, ServerInit, ChildInit, Places, Standing, Clocks
<1> QED BY <1>1, <1>2 DEF Init, IInv, TypeOK

\* A step of setup: the project is up once docker-compose was asked, the config stored once the
\* port is known, and the clock is followed through the turns of the wait.
LEMMA SetupKeeps ==
  ASSUME IInv, Steps(Setup)
  PROVE  IInv'
<1> USE Bounds DEF IInv, TypeOK, ServerTypeOK, Resources, childVars, timeVars, serverVars, Steps
<1>1. ChildTypeOK' /\ ChildCounts'
  BY ChildKeeps DEF Setup, FilesFail, ComposeUp, ComposePort, PortKnown, ComposeFails, Look,
                    ConnectOk, ConnectFails, Sleep
<1>2. ASSUME FilesFail PROVE IInv'
  <2>1. TypeOK' /\ Places'
    BY <1>2, <1>1, InSetup DEF Places, ChildCounts, FilesFail
  <2>2. Standing'
    BY <1>2, InSetup DEF Places, Standing, FilesFail
  <2>3. Clocks'
    BY <1>2, InSetup DEF Places, Clocks, FilesFail
  <2> QED BY <1>1, <2>1, <2>2, <2>3
<1>3. ASSUME ComposeUp PROVE IInv'
  <2>1. TypeOK' /\ Places'
    BY <1>3, <1>1, InSetup DEF Places, ChildCounts, ComposeUp, Launch
  <2>2. Standing'
    BY <1>3, InSetup DEF Places, Standing, ComposeUp, Launch
  <2>3. Clocks'
    BY <1>3, InSetup DEF Places, Clocks, ComposeUp, Launch
  <2> QED BY <1>1, <2>1, <2>2, <2>3
<1>4. ASSUME ComposePort PROVE IInv'
  <2>1. TypeOK' /\ Places'
    BY <1>4, <1>1, InSetup DEF Places, ChildCounts, ComposePort, Launch, Returned
  <2>2. Standing'
    BY <1>4, InSetup DEF Places, Standing, ComposePort, Launch, Returned
  <2>3. Clocks'
    BY <1>4, InSetup DEF Places, Clocks, ComposePort, Launch, Returned
  <2> QED BY <1>1, <2>1, <2>2, <2>3
<1>5. ASSUME PortKnown PROVE IInv'
  <2>1. TypeOK' /\ Places'
    BY <1>5, <1>1, InSetup DEF Places, ChildCounts, PortKnown, Drop, Returned
  <2>2. Standing'
    BY <1>5, InSetup DEF Places, Standing, PortKnown, Drop, Returned
  <2>3. Clocks'
    BY <1>5, InSetup DEF Places, Clocks, PortKnown, Drop, Returned
  <2> QED BY <1>1, <2>1, <2>2, <2>3
<1>6. ASSUME ComposeFails PROVE IInv'
  <2>1. TypeOK' /\ Places'
    BY <1>6, <1>1, InSetup DEF Places, ChildCounts, ComposeFails, Drop, Returned
  <2>2. Standing'
    BY <1>6, InSetup DEF Places, Standing, ComposeFails, Drop, Returned
  <2>3. Clocks'
    BY <1>6, InSetup DEF Places, Clocks, ComposeFails, Drop, Returned
  <2> QED BY <1>1, <2>1, <2>2, <2>3
<1>7. ASSUME Look PROVE IInv'
  <2>1. TypeOK' /\ Places'
    BY <1>7, <1>1, InSetup DEF Places, ChildCounts, Look
  <2>2. Standing'
    BY <1>7, InSetup DEF Places, Standing, Look
  <2>3. Clocks'
    BY <1>7, InSetup DEF Places, Clocks, Look
  <2> QED BY <1>1, <2>1, <2>2, <2>3
<1>8. ASSUME ConnectOk PROVE IInv'
  <2>1. TypeOK' /\ Places'
    BY <1>8, <1>1, InSetup DEF Places, ChildCounts, ConnectOk
  <2>2. Standing'
    BY <1>8, InSetup DEF Places, Standing, ConnectOk
  <2>3. Clocks'
    BY <1>8, InSetup DEF Places, Clocks, ConnectOk
  <2> QED BY <1>1, <2>1, <2>2, <2>3
<1>9. ASSUME ConnectFails PROVE IInv'
  <2>1. TypeOK' /\ Places'
    BY <1>9, <1>1, InSetup DEF Places, ChildCounts, ConnectFails
  <2>2. Standing'
    BY <1>9, InSetup DEF Places, Standing, ConnectFails
  <2>3. Clocks'
    BY <1>9, InSetup DEF Places, Clocks, ConnectFails
  <2> QED BY <1>1, <2>1, <2>2, <2>3
<1>10. ASSUME Sleep PROVE IInv'
  <2>1. TypeOK' /\ Places'
    BY <1>10, <1>1, InSetup DEF Places, ChildCounts, Sleep
  <2>2. Standing'
    BY <1>10, InSetup DEF Places, Standing, Sleep
  <2>3. Clocks'
    BY <1>10, InSetup DEF Places, Clocks, Sleep
  <2> QED BY <1>1, <2>1, <2>2, <2>3
<1> QED BY <1>2, <1>3, <1>4, <1>5, <1>6, <1>7, <1>8, <1>9, <1>10 DEF Setup

\* A step of teardown: the project that its config names is the one of this run.
LEMMA TeardownKeeps ==
  ASSUME IInv, Steps(Teardown)
  PROVE  IInv'
<1> USE Bounds DEF IInv, TypeOK, ServerTypeOK, Resources, childVars, timeVars, serverVars, Steps
<1>1. ChildTypeOK' /\ ChildCounts'
  BY ChildKeeps DEF Teardown, ComposeDown, DownPanics, DownReturns
<1>2. ASSUME ComposeDown PROVE IInv'
  <2>1. TypeOK' /\ Places'
    BY <1>2, <1>1, InTeardown DEF Places, ChildCounts, ComposeDown, Launch
  <2>2. Standing'
    BY <1>2, InTeardown DEF Places, Standing, ComposeDown, Launch
  <2>3. Clocks'
    BY <1>2, InTeardown DEF Places, Clocks, ComposeDown, Launch
  <2> QED BY <1>1, <2>1, <2>2, <2>3
<1>3. ASSUME DownPanics PROVE IInv'
  <2>1. TypeOK' /\ Places'
    BY <1>3, <1>1, InTeardown DEF Places, ChildCounts, DownPanics
  <2>2. Standing'
    BY <1>3, InTeardown DEF Places, Standing, DownPanics
  <2>3. Clocks'
    BY <1>3, InTeardown DEF Places, Clocks, DownPanics
  <2> QED BY <1>1, <2>1, <2>2, <2>3
<1>4. ASSUME DownReturns PROVE IInv'
  <2>1. TypeOK' /\ Places'
    BY <1>4, <1>1, InTeardown DEF Places, ChildCounts, DownReturns, Drop, Returned
  <2>2. Standing'
    BY <1>4, InTeardown DEF Places, Standing, DownReturns, Drop, Returned
  <2>3. Clocks'
    BY <1>4, InTeardown DEF Places, Clocks, DownReturns, Drop, Returned
  <2> QED BY <1>1, <2>1, <2>2, <2>3
<1> QED BY <1>2, <1>3, <1>4 DEF Teardown

\* However the test ends, all its resources are up when after() begins, and the lock is free.
LEMMA TestEndKeeps ==
  ASSUME IInv, NEW result \in {"ok", "testFailure"}, TestEnds(result), held' = FALSE,
         poisoned' \in BOOLEAN
  PROVE  IInv'
<1>1. /\ phase' = "after" /\ at' = 0 /\ ret' = result
      /\ UNCHANGED <<childVars, stage, config, up, timeVars, runs>>
  BY DEF TestEnds, serverVars
<1>2. /\ stage = "none" /\ child = "none" /\ runs # 0
      /\ \A r \in Resources : config[r] = runs /\ <<r, runs>> \in up
  BY DEF IInv, Places, Standing, TestEnds, Testing
<1>3. ChildTypeOK' /\ ChildCounts'
  BY <1>1, ChildKeeps DEF IInv, TypeOK, ServerTypeOK
<1>4. ServerTypeOK'
  BY <1>1, <1>3, Bounds DEF IInv, TypeOK, ServerTypeOK, timeVars, Resources
<1>5. TypeOK' /\ ~held'
  BY <1>1, <1>4 DEF TypeOK
<1>6. Places'
  BY <1>1, <1>2, <1>5 DEF Places, childVars
<1>7. \A r \in Resources : r > 0
  BY Bounds DEF Resources
<1>8. Standing'
  BY <1>1, <1>2, <1>7 DEF Standing
<1>9. Clocks'
  BY <1>1, <1>2 DEF IInv, Clocks, timeVars
<1> QED BY <1>3, <1>5, <1>6, <1>8, <1>9 DEF IInv

\* A step of the runner itself: from one call to the next and from one phase to the next.
LEMMA RunKeeps ==
  ASSUME IInv, Run
  PROVE  IInv'
<1> USE Bounds DEF IInv, TypeOK, ServerTypeOK, Resources, childVars, timeVars, serverVars
<1>1. ChildTypeOK' /\ ChildCounts'
  BY ChildKeeps DEF Run, SetupOk, SetupFails, ResourcePanics, StartTest, TestAwaits, TestResumes,
                    TestReturns, TestPanics, TestEnds, After, TeardownOk, Finish
<1>2. ASSUME SetupOk PROVE IInv'
  <2>1. TypeOK' /\ Places'
    BY <1>2, <1>1 DEF Places, ChildCounts, SetupOk, NextResource
  <2>2. Standing'
    BY <1>2 DEF Places, Standing, SetupOk, NextResource
  <2>3. Clocks'
    BY <1>2 DEF Places, Clocks, SetupOk, NextResource
  <2> QED BY <1>1, <2>1, <2>2, <2>3
<1>3. ASSUME SetupFails PROVE IInv'
  <2>1. TypeOK'
    <3>1. ServerTypeOK'
      BY <1>3, <1>1 DEF SetupFails
    <3> QED BY <1>3, <3>1 DEF SetupFails
  <2>2. Places'
    BY <1>3 DEF Places, SetupFails
  <2>3. Standing'
    BY <1>3 DEF Places, Standing, SetupFails
  <2>4. Clocks'
    BY <1>3 DEF Places, Clocks, SetupFails
  <2> QED BY <1>1, <2>1, <2>2, <2>3, <2>4
<1>4. ASSUME ResourcePanics PROVE IInv'
  <2>1. TypeOK' /\ Places'
    BY <1>4, <1>1 DEF Places, ChildCounts, ResourcePanics, Unwind
  <2>2. Standing'
    BY <1>4 DEF Places, Standing, ResourcePanics, Unwind
  <2>3. Clocks'
    BY <1>4 DEF Places, Clocks, ResourcePanics, Unwind
  <2> QED BY <1>1, <2>1, <2>2, <2>3
<1>5. ASSUME StartTest PROVE IInv'
  <2>1. TypeOK' /\ Places'
    BY <1>5, <1>1 DEF Places, ChildCounts, StartTest
  <2>2. Standing'
    BY <1>5 DEF Places, Standing, StartTest
  <2>3. Clocks'
    BY <1>5 DEF Places, Clocks, StartTest
  <2> QED BY <1>1, <2>1, <2>2, <2>3
<1>6. ASSUME TestAwaits PROVE IInv'
  <2>1. TypeOK' /\ Places'
    BY <1>6, <1>1 DEF Places, ChildCounts, TestAwaits, Launch
  <2>2. Standing'
    BY <1>6 DEF Places, Standing, TestAwaits, Launch
  <2>3. Clocks'
    BY <1>6 DEF Places, Clocks, TestAwaits, Launch
  <2> QED BY <1>1, <2>1, <2>2, <2>3
<1>7. ASSUME TestResumes PROVE IInv'
  <2>1. TypeOK' /\ Places'
    BY <1>7, <1>1 DEF Places, ChildCounts, TestResumes, Drop, Returned
  <2>2. Standing'
    BY <1>7 DEF Places, Standing, TestResumes, Drop, Returned
  <2>3. Clocks'
    BY <1>7 DEF Places, Clocks, TestResumes, Drop, Returned
  <2> QED BY <1>1, <2>1, <2>2, <2>3
<1>8. ASSUME TestReturns PROVE IInv'
  <2>1. \E result \in {"ok", "testFailure"} :
          TestEnds(result) /\ held' = FALSE /\ poisoned' \in BOOLEAN
    BY <1>8 DEF TestReturns
  <2> QED BY <2>1, TestEndKeeps
<1>9. ASSUME TestPanics PROVE IInv'
  <2>1. \E result \in {"ok", "testFailure"} :
          TestEnds(result) /\ held' = FALSE /\ poisoned' \in BOOLEAN
    BY <1>9 DEF TestPanics
  <2> QED BY <2>1, TestEndKeeps
<1>10. ASSUME After PROVE IInv'
  <2>1. TypeOK' /\ Places'
    BY <1>10, <1>1 DEF Places, ChildCounts, After
  <2>2. Standing'
    BY <1>10 DEF Places, Standing, After
  <2>3. Clocks'
    BY <1>10 DEF Places, Clocks, After
  <2> QED BY <1>1, <2>1, <2>2, <2>3
<1>11. ASSUME TeardownOk PROVE IInv'
  <2>1. TypeOK' /\ Places'
    BY <1>11, <1>1 DEF Places, ChildCounts, TeardownOk, NextResource
  <2>2. Standing'
    BY <1>11 DEF Places, Standing, TeardownOk, NextResource
  <2>3. Clocks'
    BY <1>11 DEF Places, Clocks, TeardownOk, NextResource
  <2> QED BY <1>1, <2>1, <2>2, <2>3
<1>12. ASSUME Finish PROVE IInv'
  <2>1. TypeOK'
    <3>1. ServerTypeOK'
      BY <1>12, <1>1 DEF Finish
    <3> QED BY <1>12, <3>1 DEF Finish
  <2>2. Places'
    BY <1>12 DEF Places, Finish
  <2>3. Standing'
    BY <1>12 DEF Places, Standing, Finish
  <2>4. Clocks'
    BY <1>12 DEF Places, Clocks, Finish
  <2> QED BY <1>1, <2>1, <2>2, <2>3, <2>4
<1> QED BY <1>2, <1>3, <1>4, <1>5, <1>6, <1>7, <1>8, <1>9, <1>10, <1>11, <1>12 DEF Run

\* Every step keeps the invariant: a call of run, the runner, its resources and their children.
LEMMA StepKeeps == IInv /\ [Next]_vars => IInv'
<1> SUFFICES ASSUME IInv, [Next]_vars PROVE IInv'
  OBVIOUS
<1>1. ASSUME Begin PROVE IInv'
  <2>1. ChildTypeOK' /\ ChildCounts'
    BY <1>1, ChildKeeps DEF IInv, TypeOK, ServerTypeOK, Begin
  <2>2. ServerTypeOK'
    BY <1>1, <2>1, Bounds DEF IInv, TypeOK, ServerTypeOK, Begin, CallRun, Starts, Unwind, timeVars,
                              Resources
  <2>3. TypeOK'
    BY <1>1, <2>2 DEF IInv, TypeOK, Begin, Starts, Unwind
  <2>4. Places'
    BY <1>1, Bounds DEF IInv, TypeOK, ServerTypeOK, Places, Begin, CallRun, Starts, Unwind,
                        Resources, childVars
  <2>5. Standing'
    BY <1>1, Bounds DEF IInv, TypeOK, ServerTypeOK, Places, Standing, Begin, CallRun, Starts, Unwind
  <2>6. Clocks'
    BY <1>1 DEF IInv, Places, Clocks, Begin, CallRun, Starts, Unwind, timeVars
  <2> QED BY <2>1, <2>3, <2>4, <2>5, <2>6 DEF IInv
<1>2. CASE Run
  BY <1>2, RunKeeps
<1>3. CASE Steps(Setup)
  BY <1>3, SetupKeeps
<1>4. CASE Steps(Teardown)
  BY <1>4, TeardownKeeps
<1>5. ASSUME Steps(Reads) \/ Child PROVE IInv'
  <2>1. /\ ChildWrites \/ ChildExits \/ ReadOut
        /\ UNCHANGED <<stage, config, up, timeVars, runs, at, phase, held, poisoned, ret>>
    BY <1>5 DEF Child, Steps, Docker, Reads
  <2>2. ChildTypeOK' /\ ChildCounts' /\ (child = "none" <=> child' = "none")
    BY <2>1, ChildKeeps DEF IInv, TypeOK, ServerTypeOK, ChildCounts, ChildWrites,
                         ChildExits, ReadOut
  <2>3. TypeOK' /\ Places'
    BY <2>1, <2>2 DEF IInv, TypeOK, ServerTypeOK, Places, timeVars
  <2>4. Standing' /\ Clocks'
    BY <2>1 DEF IInv, Standing, Clocks, timeVars
  <2> QED BY <2>2, <2>3, <2>4 DEF IInv
<1>6. CASE UNCHANGED vars
  <2>1. ChildTypeOK' /\ ChildCounts'
    BY <1>6, ChildKeeps DEF IInv, TypeOK, ServerTypeOK, vars, serverVars
  <2>2. TypeOK'
    BY <1>6, <2>1 DEF IInv, TypeOK, ServerTypeOK, vars, serverVars, timeVars
  <2>3. Places' /\ Standing' /\ Clocks'
    BY <1>6 DEF IInv, Places, Standing, Clocks, vars, serverVars, childVars, timeVars
  <2> QED BY <2>1, <2>2, <2>3 DEF IInv
<1> QED BY <1>1, <1>2, <1>3, <1>4, <1>5, <1>6 DEF Next, Resource

-----------------------------------------------------------------------------
\* The four parts hold in every state of the runner.
THEOREM Invariant == Spec => []IInv
BY InitIInv, StepKeeps, PTL DEF Spec

\* The state stays what it says it is.
THEOREM TypeCorrect == Spec => []TypeOK
<1>1. IInv => TypeOK
  BY DEF IInv
<1> QED BY <1>1, Invariant, PTL

\* A test, and the after() behind it, meets the resources and the configs of its own run.
THEOREM TestMeetsItsResources == Spec => []ResourcesOfThisRun
<1>1. ASSUME IInv PROVE ResourcesOfThisRun
  <2>1. phase \in {"test", "await", "return"} => Resources \X {runs} \subseteq up
    BY <1>1 DEF IInv, Standing
  <2>2. phase \in {"test", "await", "return", "after"} => \A r \in Resources : config[r] = runs
    BY <1>1 DEF IInv, Standing
  <2> QED BY <2>1, <2>2 DEF ResourcesOfThisRun
<1> QED BY <1>1, Invariant, PTL

\* after() has taken down the resources before the one it is at, and no other; once run has
\* returned after a test nothing of it is up.
THEOREM ResourcesAreTornDown == Spec => []TornDown
<1>1. ASSUME IInv PROVE TornDown
  <2>1. CASE phase = "after"
    <3>1. {r \in Resources : <<r, runs>> \in up} \in {at..N, (at + 1)..N}
      <4>1. CASE <<at, runs>> \in up /\ at \in Resources
        BY <1>1, <2>1, <4>1, Bounds DEF IInv, TypeOK, ServerTypeOK, Standing, Resources
      <4>2. CASE ~(<<at, runs>> \in up /\ at \in Resources)
        BY <1>1, <2>1, <4>2, Bounds DEF IInv, TypeOK, ServerTypeOK, Standing, Resources
      <4> QED BY <4>1, <4>2
    <3> QED BY <2>1, <3>1 DEF TornDown
  <2>2. CASE phase # "after"
    BY <1>1, <2>2 DEF IInv, Standing, TornDown
  <2> QED BY <2>1, <2>2
<1> QED BY <1>1, Invariant, PTL

\* setup never reports a server as unavailable that accepts connections before max_wait.
THEOREM SetupKeepsDeadline == Spec => []DeadlineKept
<1>1. IInv => DeadlineKept
  BY Bounds DEF IInv, TypeOK, ServerTypeOK, Clocks, DeadlineKept
<1> QED BY <1>1, Invariant, PTL

\* setup comes back one sleep and two attempts after max_wait at the latest.
THEOREM SetupIsBounded == Spec => []WaitBounded
<1>1. IInv => WaitBounded
  BY Bounds DEF IInv, TypeOK, ServerTypeOK, Clocks, WaitBounded
<1> QED BY <1>1, Invariant, PTL

\* Both ways to ask for the output of a child return all of it.
THEOREM OutputIsComplete == Spec => []OutputCollected
<1>1. IInv => OutputCollected
  BY Bounds DEF IInv, TypeOK, ServerTypeOK, ChildTypeOK, ChildCounts, OutputCollected, Output,
                Returned
<1> QED BY <1>1, Invariant, PTL

\* Once a test has panicked no further resource is started, by this run or a later one.
THEOREM PoisonedRunnerStartsNothing == Spec => PoisonedStartsNothing
<1>1. ASSUME IInv, [Next]_vars, poisoned PROVE up' \subseteq up
  <2>1. phase \in {"idle", "after"}
    BY <1>1 DEF IInv, Places
  <2>2. ~ComposeUp
    BY <1>1, <2>1 DEF IInv, Places, ComposeUp
  <2>3. CASE Run
    BY <2>3 DEF Run, SetupOk, SetupFails, ResourcePanics, StartTest, TestAwaits, TestResumes,
                TestReturns, TestPanics, TestEnds, After, TeardownOk, Finish, serverVars
  <2>4. CASE Begin \/ Child \/ UNCHANGED vars
    BY <2>4 DEF Begin, Child, Docker, Steps, vars, serverVars
  <2>5. CASE Resource
    BY <2>2, <2>5 DEF Resource, Steps, Setup, Teardown, Reads, FilesFail, ComposePort, PortKnown,
                ComposeFails, Look, ConnectOk, ConnectFails, Sleep, ComposeDown,
                DownPanics, DownReturns
  <2> QED BY <1>1, <2>3, <2>4, <2>5 DEF Next
<1>2. IInv /\ [Next]_vars => [poisoned => up' \subseteq up]_vars
  BY <1>1
<1> QED BY <1>2, Invariant, PTL DEF Spec, PoisonedStartsNothing
=============================================================================
