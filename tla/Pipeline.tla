------------------------------ MODULE Pipeline ------------------------------
(***************************************************************************)
(* Pipeline, Job and the Process future of x004 process.rs: a chain of N   *)
(* children, each reading what the one before writes, spawned one by one   *)
(* and then polled by one Job until each has exited.                       *)
(*                                                                         *)
(* The children are other programs.  The first writes the units 1..Units,  *)
(* the others copy; their pipes were made non-blocking by Pipe::new, which *)
(* the children share, so a child that finds its input empty or its output *)
(* full gets EAGAIN, and it gives up with a message on stderr or tries     *)
(* again.                                                                  *)
(*                                                                         *)
(* Pipe i carries the stdout of stage i.  The parent holds its write end   *)
(* in Command i, and its read end in Command i + 1, or in Process N for    *)
(* the last; both Commands are dropped one loop turn after their spawn.    *)
(* The driver of module Epoll need not run: Process wakes itself.          *)
(***************************************************************************)
EXTENDS Naturals, Sequences

CONSTANTS N,            \* commands in the pipeline
          Units,        \* units the first child writes
          Cap,          \* units a kernel pipe holds
          Chunk,        \* units one poll of a Process reads (4096 bytes)
          SpawnMayFail  \* whether fork or exec may fail

ASSUME PipelineAssumption ==
  /\ {N, Units, Cap, Chunk} \subseteq Nat \ {0}
  /\ SpawnMayFail \in BOOLEAN

Stages == 1..N

VARIABLES
  job,      \* "spawning", "failed" (spawn returned an error), "running", "done"
  next,     \* the command that spawn is at
  child,    \* child of each stage: "none", "running", "ok", "failed"
  held,     \* the unit a child has read and not written yet, 0 for none
  count,    \* units each child has written
  pipe,     \* content of each stdout pipe
  parentR,  \* pipes whose read end the parent still holds
  parentW,  \* pipes whose write end the parent still holds
  err,      \* messages in each stderr pipe
  turn,     \* the Process the Job polls, and where its poll is
  step,
  bufs,     \* Process.io_bufs: units of stdout, messages of stderr
  results,  \* what each Process resolved to, in the queue of FuturesOrdered
  outputs   \* JobOutput.outputs

childVars  == <<child, held, count>>
parentVars == <<job, next, parentR, parentW>>
pollVars   == <<turn, step, bufs, results, outputs>>
vars == <<childVars, pipe, err, parentVars, pollVars>>

Pending == [stage |-> 0, ok |-> FALSE, out |-> <<>>, err |-> 0]
Results == [stage : Stages, ok : BOOLEAN, out : Seq(1..Units), err : 0..1]

TypeOK ==
  /\ job \in {"spawning", "failed", "running", "done"}
  /\ next \in Stages
  /\ child \in [Stages -> {"none", "running", "ok", "failed"}]
  /\ held \in [Stages -> 0..Units]
  /\ count \in [Stages -> 0..Units]
  /\ pipe \in [Stages -> Seq(1..Units)] /\ \A i \in Stages : Len(pipe[i]) <= Cap
  /\ parentR \subseteq Stages /\ parentW \subseteq Stages
  /\ err \in [Stages -> 0..1]
  /\ turn \in Stages /\ step \in {"out", "err", "wait"}
  /\ bufs \in [Stages -> [out : Seq(1..Units), err : 0..1]]
  /\ results \in [Stages -> Results \cup {Pending}]
  /\ outputs \in Seq(Results) /\ Len(outputs) <= N

Init ==
  /\ job = "spawning" /\ next = 1
  /\ child = [i \in Stages |-> "none"]
  /\ held = [i \in Stages |-> 0]
  /\ count = [i \in Stages |-> 0]
  /\ pipe = [i \in Stages |-> <<>>]
  /\ parentR = Stages /\ parentW = Stages
  /\ err = [i \in Stages |-> 0]
  /\ turn = 1 /\ step = "out"
  /\ bufs = [i \in Stages |-> [out |-> <<>>, err |-> 0]]
  /\ results = [i \in Stages |-> Pending]
  /\ outputs = <<>>

-----------------------------------------------------------------------------
(* Pipeline::spawn.                                                        *)

\* The child starts with the ends that its Command holds; the Command is still there
\* while spawn sleeps.
Spawn ==
  /\ job = "spawning" /\ child[next] = "none"
  /\ child' = [child EXCEPT ![next] = "running"]
  /\ UNCHANGED <<held, count, pipe, err, parentVars, pollVars>>

\* One turn of the loop ends.
NextTurn ==
  /\ job = "spawning" /\ child[next] # "none"
  /\ IF next = N THEN job' = "running" /\ next' = next
                 ELSE job' = job /\ next' = next + 1
  /\ UNCHANGED <<childVars, pipe, err, pollVars>>

\* Mutations: the commands live as long as the job; one turn of the loop too many.
KeepCommand == NextTurn /\ UNCHANGED <<parentR, parentW>>
DropCommandPastEnd ==
  /\ job = "spawning" /\ child[next] # "none"
  /\ next' = next + 1
  /\ UNCHANGED <<job, childVars, pipe, err, parentR, parentW, pollVars>>

\* The end of the loop turn drops the Command: the parent's copies of the child's stdin
\* and stdout are closed.
DropCommand ==
  /\ NextTurn
  /\ parentW' = parentW \ {next}
  /\ parentR' = parentR \ {next - 1}

\* Mutation: what was spawned and what was not is leaked.
SpawnFailsLeaking ==
  /\ SpawnMayFail
  /\ job = "spawning" /\ child[next] = "none"
  /\ job' = "failed"
  /\ UNCHANGED <<childVars, pipe, err, next, parentR, parentW, pollVars>>

\* The error is returned at once: the remaining Commands and the Processes spawned so far
\* are dropped, which closes their pipes but neither stops nor reaps a child.
SpawnFails ==
  /\ SpawnMayFail
  /\ job = "spawning" /\ child[next] = "none"
  /\ job' = "failed"
  /\ parentR' = {} /\ parentW' = {}
  /\ UNCHANGED <<childVars, pipe, err, next, pollVars>>

-----------------------------------------------------------------------------
(* The children.                                                           *)

HasReader(i) == i \in parentR \/ (i < N /\ child[i + 1] = "running")
HasWriter(i) == i \in parentW \/ child[i] = "running"

\* The child ends; one that fails leaves a message if somebody can read it.
Exit(i, how) ==
  /\ child' = [child EXCEPT ![i] = how]
  /\ held' = [held EXCEPT ![i] = 0]
  /\ err' = IF how = "failed" /\ job # "failed" THEN [err EXCEPT ![i] = 1] ELSE err
  /\ UNCHANGED <<count, pipe, parentVars, pollVars>>

Loaded(i) == IF i = 1 THEN count[1] < Units ELSE held[i] # 0

ChildWrite(i) ==
  /\ child[i] = "running" /\ Loaded(i)
  /\ HasReader(i) /\ Len(pipe[i]) < Cap
  /\ pipe' = [pipe EXCEPT ![i] = Append(@, IF i = 1 THEN count[1] + 1 ELSE held[i])]
  /\ count' = [count EXCEPT ![i] = @ + 1]
  /\ held' = [held EXCEPT ![i] = 0]
  /\ UNCHANGED <<child, err, parentVars, pollVars>>

ChildRead(i) ==
  /\ i > 1 /\ child[i] = "running" /\ held[i] = 0
  /\ pipe[i - 1] # <<>>
  /\ held' = [held EXCEPT ![i] = Head(pipe[i - 1])]
  /\ pipe' = [pipe EXCEPT ![i - 1] = Tail(@)]
  /\ UNCHANGED <<child, count, err, parentVars, pollVars>>

\* End of input, or nothing more to produce.
ChildExit(i) ==
  /\ child[i] = "running" /\ ~Loaded(i)
  /\ i > 1 => pipe[i - 1] = <<>> /\ ~HasWriter(i - 1)
  /\ Exit(i, "ok")

\* Nobody reads what it writes.
ChildBroken(i) ==
  /\ child[i] = "running" /\ Loaded(i) /\ ~HasReader(i)
  /\ Exit(i, "failed")

\* EAGAIN on the shared non-blocking pipe, and the child does not try again.
ChildGivesUp(i) ==
  /\ child[i] = "running"
  /\ \/ Loaded(i) /\ HasReader(i) /\ Len(pipe[i]) = Cap
     \/ i > 1 /\ ~Loaded(i) /\ pipe[i - 1] = <<>> /\ HasWriter(i - 1)
  /\ Exit(i, "failed")

Child(i) == ChildWrite(i) \/ ChildRead(i) \/ ChildExit(i) \/ ChildBroken(i)

-----------------------------------------------------------------------------
(* Job::poll.  FuturesOrdered polls its futures in the order they woke:    *)
(* since each wakes itself, in turn.  One poll of a Process reads stdout,  *)
(* then stderr, then asks for the exit status; the child runs on between.  *)
(***************************************************************************)
Unresolved == {i \in Stages : results[i] = Pending}

Polling(s) == job = "running" /\ turn \in Unresolved /\ step = s

\* The next Process whose turn it is when R have not resolved.
After(j, R) ==
  IF \E i \in R : i > j THEN CHOOSE i \in R : i > j /\ \A k \in R : k > j => i <= k
                        ELSE CHOOSE i \in R : \A k \in R : i <= k

Taken == IF Len(pipe[N]) < Chunk THEN Len(pipe[N]) ELSE Chunk

\* Only the last Process still has its stdout: the others gave it to the next command.
ReadStdout(kept) ==
  /\ Polling("out")
  /\ step' = "err"
  /\ IF turn = N
       THEN /\ bufs' = [bufs EXCEPT ![N].out = kept \o SubSeq(pipe[N], 1, Taken)]
            /\ pipe' = [pipe EXCEPT ![N] = SubSeq(@, Taken + 1, Len(@))]
       ELSE UNCHANGED <<bufs, pipe>>
  /\ UNCHANGED <<childVars, err, parentVars, turn, results, outputs>>

\* Mutation: what was read before is overwritten.
PollOutOverwrites == ReadStdout(<<>>)
PollOut == ReadStdout(bufs[N].out)

PollErr ==
  /\ Polling("err")
  /\ step' = "wait"
  /\ bufs' = [bufs EXCEPT ![turn].err = @ + err[turn]]
  /\ err' = [err EXCEPT ![turn] = 0]
  /\ UNCHANGED <<childVars, pipe, parentVars, turn, results, outputs>>

\* The Process wakes itself and is Pending.
PollAgain ==
  /\ Polling("wait")
  /\ step' = "out" /\ turn' = After(turn, Unresolved)
  /\ UNCHANGED <<childVars, pipe, err, parentVars, bufs, results, outputs>>

\* try_wait: not exited yet.
PollPending == child[turn] = "running" /\ PollAgain

\* try_wait fails, whatever the child is doing: logged, and tried again.
PollError == PollAgain

Resolved ==
  [results EXCEPT ![turn] = [stage |-> turn, ok |-> child[turn] = "ok",
                             out |-> bufs[turn].out, err |-> bufs[turn].err]]

\* try_wait: exited.  The Process resolves to what it has read, without another look at its
\* pipes (the Child's own stdout and stderr are None), and is dropped with them.
Resolve(outs) ==
  /\ Polling("wait") /\ child[turn] # "running"
  /\ results' = Resolved
  /\ outputs' = outs
  /\ IF Len(outs) = N THEN job' = "done" /\ turn' = turn
                      ELSE job' = job /\ turn' = After(turn, Unresolved \ {turn})
  /\ step' = "out"
  /\ parentR' = parentR \ {turn}
  /\ UNCHANGED <<childVars, pipe, err, next, parentW, bufs>>

\* Mutation: outputs are collected as they come.
PollReadyUnordered == Resolve(Append(outputs, Resolved[turn]))

\* The outputs that are next in order are collected.
PollReady ==
  LET ready == {n \in Len(outputs)..N : \A i \in (Len(outputs) + 1)..n : Resolved[i] # Pending}
      upto  == CHOOSE n \in ready : \A k \in ready : k <= n
  IN Resolve([i \in 1..upto |-> Resolved[i]])

Poll == PollOut \/ PollErr \/ PollPending \/ PollError \/ PollReady

Next ==
  \/ Spawn \/ DropCommand \/ SpawnFails \/ Poll
  \/ \E i \in Stages : Child(i) \/ ChildGivesUp(i)

SafeSpec == Init /\ [][Next]_vars

\* The spawning thread and the Job's thread run (the Process wakes itself), and so do the
\* children; a child that gets EAGAIN tries again or gives up, as it likes.  try_wait does not
\* fail for ever: where it does, a Process is polled for ever.
Spec ==
  /\ SafeSpec
  /\ WF_vars(Spawn \/ DropCommand) /\ WF_vars(Poll) /\ SF_vars(PollReady)
  /\ \A i \in Stages : WF_vars(Child(i))

-----------------------------------------------------------------------------
(* Properties.                                                             *)

Upto(n) == [i \in 1..n |-> i]

\* Whatever stages give up or are cut off, what the last Process has collected followed by
\* what waits in its pipe is what the last child wrote, and that is a beginning of what the
\* first child produces (io_bufs of Process::poll).
OutputIsPrefix ==
  bufs[N].out \o pipe[N] = Upto(count[N])

\* Outputs are in the order of the commands, whichever child ends first.
OutputsInOrder ==
  \A i \in DOMAIN outputs : outputs[i].stage = i /\ outputs[i].ok = (child[i] = "ok")

\* A Job that was spawned completes: end of file travels down the chain because the
\* parent drops its copies, and no child is left waiting.
JobCompletes == job = "running" ~> job = "done"

\* If a spawn fails, the children spawned before it come to an end on their own.
FailedSpawnWindsDown == job = "failed" ~> \A i \in Stages : child[i] # "running"

\* The output of a child that ended well is all it wrote.
OutputIsComplete ==
  \A i \in DOMAIN outputs : i = N /\ outputs[i].ok => outputs[i].out = Upto(count[i])
=============================================================================
