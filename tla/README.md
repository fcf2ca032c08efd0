# A formal model of struthionidae

The repository is a workspace of small Rust crates. The one with concurrency of
its own is `x004-rust-shell-scripting`: asynchronous pipes on a hand-written
epoll driver, and child processes and shell pipelines on top of them. It is the
core of this project; the smaller crates have a module or two each. Paths below are
relative to the repository's root, and `x004` and the like stand for the crate whose
directory begins so.

## 1. The system

| Component | State | Operations | Interacts with |
|---|---|---|---|
| `Epoll` driver (`x004/src/pipe/linux.rs`) | epoll descriptor (kernel: interest list, ready list), `wakers` map behind a mutex | `ctl_add_rawfd`, `ctl_mod_rawfd`, `wait`; `EpollFuture::poll` | one static instance, called by every task that would block and by the task that runs `EpollFuture` |
| `PipeReader`, `PipeWriter` | descriptor, `eph` (was it added to epoll) | `poll_read`, `poll_write`, `on_would_block` | the driver; the kernel pipe; the task that polls |
| `PipeSink`, `PipeStream` | `buffer`, `status`, `max_queue_bytes` | `poll_ready`, `start_send`, `poll_flush`, `poll_close`; `poll_next` | as above, through the futures `SinkExt` and `StreamExt` |
| `Command`, `Stdio` (`x004/src/process.rs`) | the std `Command` and the parent's ends of up to three pipes | `stdin`, `stdout`, `stderr`, `spawn` | `Pipe::new`, `Process::new` |
| `Process` | the std `Child`, two `PipeReader`s, `io_bufs` | `poll` | the child, the pipes, its own waker |
| `Pipeline`, `Job` | the `Command`s; a `FuturesOrdered` of `Process`es | `new`, `add`, `spawn`; `poll` | all of the above |
| x001 test framework (`framework.rs`) | resources by name, user state, a std `Mutex` that can be poisoned | `before`, `after`, `run` | resources, the test function |
| x001 `PostgresServer` (`test_resources.rs`) | `config` | `setup`, `teardown`, `config` | docker-compose, a server that starts at its own pace |
| x001 `Command` future (`cmd.rs`) | a std `Child` | `poll`, `wait`, `wait_with_output` | the child |
| x002 interning cache (`x002/src/lib.rs`) | map from digests to `Arc<[u8]>` behind an `RwLock` | `alloc_interned` | any thread; the allocator |
| x003 FFI allocation | none of its own | `rust_read_dynamically_sized_field_c`, `Allocator_alloc`, `Allocator_free` | C callers |
| x005 tree nodes (`graph.rs`, `shared.rs`) | `Rc<RefCell<..>>` with a weak parent and strong children | `new`, `add_child`, `parent`, `children`, `data`, three traversals | the visitor that a traversal calls, readers that hold a borrow |
| struthionidae (`lib.rs`) | hex tables, `ChunkIter`; the logging `Once` | `ChunkIter::next`, hex conversions, `initialize` | x002, every test |

What is hard here:

- *The driver against the tasks.* `on_would_block` runs after a failed `read` or
  `write`, calls `epoll_ctl` under the lock and stores the waker under the same
  lock; the driver's thread calls `epoll_wait` outside the lock and takes it for each event.
  Registrations are one-shot and edge-triggered, so one lost event is a task that
  never runs again.
- *Descriptors are never removed from the driver*: both `Drop` impls that would
  do so are commented out. Numbers are reused, `eph` is not shared between the
  old and the new owner, and wakers of finished tasks stay in the map.
- *Pending without a waker*: `PipeSink::poll_ready` and the non-final part of
  `poll_flush` return `Pending` and register nothing.
- *End of file*: `read` returning 0 is `Pending` plus an immediate wake.
- *A child runs on while `Process::poll` looks at its stdout, its stderr and its
  exit status in three separate calls.*
- *Ends kept by the parent*: end of file travels down a shell pipeline only when
  every copy of a write end is closed.
- *Non-blocking pipes are shared with the children*, which were not written for them.
- *A `Stdio` is `Copy` and may own a descriptor*: each copy that is used closes the number.
- *The cache drops its read lock before it takes the write lock* and then replaces what
  another thread may have inserted, and handed out, in between.
- *A traversal keeps its queue while the visitor changes the tree* and drops handles of it.
- *A child with a piped stdout that is read only after its exit* may never exit.

What makes each component correct is listed with its module in section 3, and
`PROJECT.json` names each hazard, its line and the properties that watch it.

## 2. Plan

Modules in the order in which they were written.

1. `Epoll`, `KernelPipe`, `AsyncPipe`, with the abstract `Channel` they implement, and
   `AsyncPipeProofs`: type invariant, no lost wakeup, `eph`, FIFO, refinement.
2. `PipeSinkStream` on the same driver, and `PipeSinkProofs`.
3. `Pipeline` (with `Process` and `Job`) and `CommandStdio`, with `PipelineProofs` and
   `CommandStdioProofs`.
4. x001, composed: `ChildCommand` (the `Command` of `cmd.rs`), `PostgresServer` (setup
   with its retry loop, teardown) and `TestRunner` (before, test, after, the poisoned mutex);
   `TestRunnerProofs` proves the properties of all three.
5. x002: `InternCache` with the abstract `InternTable` it implements, and `InternCacheProofs`.
6. x005: `NodeTree`, and `NodeTreeProofs`.
7. struthionidae: `HexChunks` against a reference definition, and `HexChunksProofs`.

Every invariant and every action property that a passing run checks is also a theorem, and so
is the safety part of both refinements. What the runs check beyond that is liveness, which
stays with TLC (section 5). What is left is upkeep: shorter proofs, of `NodeTreeProofs` above all,
and lemmas that two proof modules could share.

The project keeps to a dozen runs, one per question.

## 3. Modules

**`Epoll`** is the driver and the part of a task that parks on it. `interest` is
the kernel's interest list (`none`, `armed`, `queued` on the ready list, `off` after the
one shot), `events` the array of `Epoll::wait`, `wakers` and `mutex` the
`Mutex<HashMap<..>>`, `eph` the flag of the two ends, `pc` the place of a task in
its poll, `notified` the executor's wake flag. One action per place where another
thread can get in between: `EpollCtl` (take the lock, `epoll_ctl`),
`CtlInsert` (store the waker, unlock), `EpollWait`, `Dispatch` (one turn of the
loop over the events, under the lock), `PollWoken`, `PollSpurious`.
`EPOLL_CTL_ADD` and `MOD` are guarded by what the kernel demands of them, so a wrong
`eph` shows as an error. A waker is represented by the generation of the pipe
its task owned; waking one of an earlier generation does nothing.

**`KernelPipe`** is one kernel pipe watched by the driver: pipe(7) and epoll(7), not
code of the repository.

**`AsyncPipe`** composes a reader task, a writer task, the pipe and the driver, as
`test_async_pipe_read_write` does: `ReadOk`, `ReadEof`, `ReadWouldBlock` are the
arms of `poll_read` (which the task loops over without leaving its poll),
`WriteOk`, `WriteBroken`, `WriteWouldBlock` those of `poll_write`; `Ctl`,
`CtlError`, `Insert` are `on_would_block`; `Reopen` is `Pipe::new` on the same
numbers.

**`Channel`** is what a user of `Pipe::new` relies on: a bounded FIFO channel with hang-up. `AsyncPipe`
implements it with the mapping `open`, `sent`, `rcvd` as they are and the driver
hidden; `ChannelSpec` checks safety and fairness with TLC, `ImplementsChannel`
proves the safety part.

**`PipeSinkStream`** composes a `PipeSink` and a `PipeStream` on the same driver. The
sender calls `SinkExt::send_all` for batches of any size up to `Batch` (`send` is a batch of one): `Feed` is `poll_ready`
and `start_send`, the `Flush..` actions are the arms of `poll_flush` and of
`poll_close`, which is the same code. Items are one unit long, or two, in which case
`write` may take one of them only. After an error the sender closes the sink or drops it.

**`Pipeline`** is `Pipeline::spawn`, the children, and `Job::poll` over
`Process::poll`. The read of stdout, the read of stderr and `try_wait` are three
steps, and the children move in between. `parentR` and `parentW` are the pipe ends the
parent still holds. The first child writes, the others copy; a child that gets
`EAGAIN` retries or gives up. `stdin(Stdio::null())` of the first command acts on its
stdout, which `stdout(piped())` overwrites at once, so the first child inherits the
parent's stdin; it does not read it in the model. `PollReady`, `PollPending` and `PollError` are
the three answers of `try_wait`; the last two wake the process again.

**`CommandStdio`** is the builder of one command after the other: what the child gets
(`inner`) against what the parent holds (`handle`), what was asked for (`asked`), and the
processes spawned with their readers (`procs`). All descriptor numbers are of one table (`fd`):
`open` takes the lowest free one and `pipe` the lowest two, so a number comes back as a file or
as either end of a pipe. Whoever goes closes its number without asking what it stands for by
then, and a `Stdio` (`stdio`) is a bare number of which every use of a copy makes an owner.
The numbers that std itself opens and closes within one `spawn` are not in the table.

**`ChildCommand`**, **`PostgresServer`**, **`TestRunner`** are the x001 crate, each extending the
one before it. `ChildCommand` is a child with a piped stdout of limited room and the three ways
to wait for it: `wait` reads nothing, `wait_with_output` reads until the child is gone,
and the future reads once there is an exit status. `PostgresServer` is `setup`
(`FilesFail` to `Sleep`, with docker-compose run through `ChildCommand` and the retry
loop in ticks) and `teardown` (`ComposeDown` to `DownReturns`), one call at a time; `stage` is
where the call is. `TestRunner` is `StandardTestRunner::run` called again and again:
`Begin` to `ResourcePanics` are `before`, `StartTest` to `TestPanics` the test in
`catch_unwind`, which may await a command of its own, `After` to `Finish` are `after`. `held`
and `poisoned` are the std mutex; `config` is the `Option` of each resource, tagged with
the run that stored it; `up` holds what docker-compose was asked to start and not yet asked to
take down (its exit status is never looked at, so more cannot be said). A panic outside
`catch_unwind` ends the process, as the harness does not catch it. `new` asserts that the names of
its resources differ and every `PostgresServer` is called "postgres", so a runner of the code has
one of them; the model has several, which stand for other resources that fail in the same ways. An attempt to connect is
assumed to take no longer than `connect_timeout`.

**`InternCache`** is `alloc_interned` called by several threads. `pc` is the place of a thread
among the lock's operations, `cache` and `heap` are the map and the blocks the `Arc`s own. The
lock is parking_lot's `RwLock`: a writer that waits for readers (`drain`) keeps new readers
out. An `InternedString` owns nothing, so an insertion that replaces an entry frees the block
that earlier ones point into, and the allocator may use the address again (`held` is the block
of the last one a thread got).

**`InternTable`** is what a caller of the cache relies on: a set of known values that only
grows, and an answer to each call that reads as the value it was given. `InternCache` implements
it with `known` the keys of the map, `asked` and `answer` as they are, and the lock and the
blocks hidden.

**`NodeTree`** is one thread's tree: `children` the strong links, `parent` the weak one, `strong`
the count of each `Rc`, `handles` what the caller holds, `field` the `FieldRef` of a borrowed
node, `falling` the handles a drop still has to let go, one `DropStep` each. A traversal is a
loop of its own (`VisitNext`, `VisitChildren`, ...), and while its visitor runs (`at`)
everything the caller could do can happen. A walk holds the node it comes from (`queue`) while
its visitor is at the parent (`WalkUp`), and lets go of it afterwards (`SetNode`). `add_child` has
no bound: where a visitor goes on beyond `MaxNodes` (`Outgrows`) the model stops, and says so in
`halted`. What is under a node (`Below`) is the least set of
nodes that holds it and is closed under children.

**`HexChunks`** is one call of a hex conversion: `ChunkIter` with any `chunk_size` over a usize of
any width, and the loops over single bytes; the writer may fail at any character. The digit
tables are given as two digits per byte, not as the 512 literals of the code (`lib.rs:37`-`70`),
which were compared by eye: no run and no proof would notice a wrong one. `Reference` is the text
computed per nibble.

Operators named in comments as *Mutation* are variants of the definition below
them with a plausible bug; each property is checked to fail for one of them. They take
part in no specification.

## 4. Runs

| Run | Module, configuration | Shows |
|---|---|---|
| `pipe` | `AsyncPipe`, `MCAsyncPipe` | type invariant, no wakeup is lost, `eph` is right, FIFO; both tasks return unless the reader met the end of file, in which case it is polled for ever; the whole implements `Channel` |
| `sink` | `PipeSinkStream`, `MCPipeSink` | items are cut at their tails only; a sender that returned without an error has handed everything over; the only sleeps nobody ends are those of the two `Pending`s without a waker; apart from them the sender returns |
| `pipeline` | `Pipeline`, `MCPipeline` | three stages: output is a prefix and in order, a job completes, a failed spawn leaves no child running |
| `pipeline_output` | `Pipeline`, `MCPipelineOutput` | *violation*: output written just before the exit is not collected |
| `command` | `CommandStdio`, `MCCommand` | with the streams configured in the order of the tests and unless some `Stdio` was passed twice: a reader that a process has is of its own child, whatever the kinds asked for, and a command owns the files and the ends of pipes it was given |
| `command_reuse` | `CommandStdio`, `MCCommandReuse` | *violation*: the second spawn of a command has no readers |
| `command_stdin` | `CommandStdio`, `MCCommandStdin` | *violation*: `stdin(null)` changes stdout |
| `test_runner` | `TestRunner`, `MCTestRunner` | the test sees the resources of its own run; teardown skips none and a panic in it leaves only those behind; a server that is up before `max_wait` is never given up and the wait is bounded; who asks for a child's output gets all of it; a run ends unless a child fills a pipe nobody reads; nothing starts after a panic |
| `intern_cache` | `InternCache`, `MCInternCache` | blocks and entries belong together whatever races; a value that every miss has settled for stays where it is; every call is answered: the cache implements `InternTable`; no deadlock |
| `intern_static` | `InternCache`, `MCInternStatic` | *violation*: an `InternedString` handed out during a race dangles |
| `node_tree` | `NodeTree`, `MCNodeTree` | nodes live exactly as long as they are owned; traversals visit everything once and in their order, whatever the visitor does; a walk ends at a node without a parent, the other traversals end unless the visitor goes on adding children, and `add_child` panics only on a `FieldRef` the caller keeps |
| `hex_chunks` | `HexChunks`, `MCHexChunks` | no overflow for any chunk size; what is written is the beginning of the hex text and in the end all of it; only a chunk size of zero does not end |

### Bounds

`MaxGen` is 2 in `pipe`: one reuse of the numbers is what the leftover wakers
and registrations need, a third pipe meets the same leftovers as the second. `Cap`,
`ReadMax`, `Writes`, `Want` are small and chosen against each other: more is
written than fits (the writer blocks), more than is wanted (broken pipe), reads take
one unit or several, and an `ADD` that fails ends the writer early, so that less is
written than is wanted. In `sink` some batches exceed the queue and some fit it; `Long` puts
long items where they can be cut and where they overshoot; `Want` is small enough for the
receiver to leave before the last item and large enough for the sender to finish. `Pipeline`
needs `N = 3` for a stage whose both neighbours are stages, and `Cap = 1`, `Units = 3` so that
every pipe fills up. In `command`, `MaxPipes` is one pipe per stream and two files are
enough for a number to be used again, by a file or a pipe, while a copy of its first `Stdio` is
about; a process is spawned once there and twice in `command_reuse`. A unit stands for a write of at most
`PIPE_BUF` bytes, which a pipe takes whole or not at all.
`TestRunner` has three resources, so that one in the middle may fail, and three runs: one
that leaves a config behind, one that may panic, one that meets the poisoned lock. Its children
write up to two units more than their pipe holds. The wait has the defaults of the code in
ticks of 250 ms, the length of its sleep; the server opens at any tick up to twice `max_wait`,
and a sleep may take twice its time.
`InternCache` needs two threads for the race, two values so that another value may take the
address of a block that was freed, and one address more than values since a new block is
allocated before the old one is freed. `NodeTree` has four nodes: the smallest number with a
node, two siblings and a node below one of them, which tells the two orders apart; the caller
holds at most one handle of each node and one `FieldRef`, and makes one traversal. A visitor
that wants a fifth node is not bounded by the model but ends it (`Outgrows`). `HexChunks` has
a usize of four bits, so that chunk sizes from 0 to `usize::MAX` and slices up to the longest
the type system allows (`isize::MAX`) are all tried; the two bytes have four different digits.

### Fairness, and why the code justifies it

- The reader, the writer and the driver run on threads of their own (`pool_size(2)` and
  `block_on` in the tests, and `EpollFuture::poll` wakes itself after every wait of
  100 ms): weak fairness for their steps.
- The lock is parking_lot's, which hands itself over eventually: strong fairness for the
  steps that take it (`Ctl`, `Wake`), since others may take it in between again and again.
- Nothing makes a spurious poll happen, so `Spurious` is not fair. `SenderReturns` makes its
  fairness a premise, as one of two: the sink shares its task with a future that keeps it
  awake, or the sender feeds one item per flush. Without either, a batch of two or more may
  sleep for ever in `poll_flush`, which parks without a waker.
- `Pipeline`: the spawning thread and the job run; a `Process` wakes itself in every
  `Pending`, so the job needs no driver and polls its processes in turn. `try_wait` may fail
  any number of times but not for ever: strong fairness of `PollReady`, without which a process
  is polled for ever (`process.rs:151`). Children that can move do. A child that gets `EAGAIN` may retry for ever or give up (`ChildGivesUp` is
  not fair).
- `TestRunner`: the runner's thread goes on and a child moves when it can; nobody has to
  call `run` again, so `Begin` is not fair. That a run may wait for ever for a child with a
  full pipe is part of `RunReturns`.
- `InternCache`: parking_lot's `RwLock` is fair to tasks, so a thread that waits for it again and
  again gets it (strong fairness of `Read` and `LockWrite`); nobody has to call.
- `NodeTree`: a visitor returns, each time that it is called. It may do other things first, which disables the traversal for
  a while (strong fairness).
- `HexChunks`: a loop goes on.

Deadlock checking is off where the tasks return, or the job, the call or the traversal ends, and
nothing is left to do. It is on in `intern_cache`, where every thread may always call again, and
in `command`.

## 5. Proofs

Eight modules hold the proofs. Each proves one inductive invariant `IInv` and derives from it, for
every value of the constants that the assumptions allow, the properties that the runs check on
small instances. The assumptions are those named `..Assumption` in the modules: sizes and counts are
naturals, most of them positive, and sets of values are disjoint from what marks their absence. Under
the configurations of the passing runs TLC finds `IInv` true in every module; naming it as
the INVARIANT, with the proof module in place of the component's, repeats that.

### The async pipe

`AsyncPipeProofs` proves, for every `Cap`, `ReadMax`, `MaxGen`, `Writes`, `Want` allowed by the
assumptions of the modules and either value of `CtlMayFail`:

| Theorem | States |
|---|---|
| `Invariant` | `SafeSpec => [](IInv /\ FifoOrder)` |
| `TypeCorrect` | `Spec => []TypeOK` |
| `WakeupsAreKept` | `Spec => []NoLostWakeup` |
| `EphIsFaithful` | `Spec => []EphIsRegistered` |
| `PipeIsFifo` | `Spec => []FifoOrder` |
| `ImplementsChannel` | `Spec => Chan!SafeSpec` |

`NoLostWakeup` is not inductive: that a parked task is watched rests on what holds
while it is on its way there. `IInv` adds three facts. `LockHeld`: the task that is
between `epoll_ctl` and the insertion of its waker holds the lock, and only it does.
`CtlWatched`: such a task has its descriptor armed, on the ready list, or reported
and undispatched; since it holds the lock, the driver cannot dispatch
the event before the waker is there, which is the heart of the argument.
`OpenEnds`: an end is open exactly while its task has not returned, and a closed one is not in the interest list, which
is what makes `eph = FALSE` right on a reused number. Each lemma
`..Keeps` shows one group of actions to preserve `IInv`; `LeavePollKeeps` does so once for
all steps that end in `LeavePoll`. `FifoOrder` is then inductive relative to
`IInv`, with a few lemmas on concatenation, and gives `PipeContents`: what is in the
pipe is `sent - Len(rcvd)` long. That maps each step to a step of `Channel` or
a stutter (`StepRefines`).

### The sink and the stream

`PipeSinkProofs` proves, for any number and lengths of items, any batch, queue limit and capacity:

| Theorem | States |
|---|---|
| `Invariant` | `SafeSpec => []IInv` |
| `TypeCorrect` | `Spec => []TypeOK` |
| `SenderKeepsItsWord` | `Spec => []DoneMeansHanded` |
| `ItemsLeaveInOrder` | `Spec => []OnlyTailsCut` |
| `OnlySinkSleeps` | `Spec => SleepsOnlyUnregistered` |

`IInv` has two halves. `DriverInv` is the type invariant with `LockHeld`, `CtlWatched` and
`OpenEnds` as in `AsyncPipeProofs`. That no task is ever asleep is no invariant here, since
`poll_ready` and `poll_flush` return `Pending` without a waker; `OnlySinkSleeps` is the action
property that these two are the only steps after which a task that was not asleep is.
`SinkInv` ties the sender to the stream. `Handing`: it feeds while items are left, and it
closes without an error only when all were fed. `Queued`: the buffer holds the last items that were
fed, in order. With these `OnlyTailsCut` is kept by a write of any length: what goes into the pipe is the
item at the head of the buffer, from its first unit on.

### Pipelines

`PipelineProofs` proves, for pipelines of any length, any amount of data and any capacity:

| Theorem | States |
|---|---|
| `Invariant` | `Spec => []IInv` |
| `TypeCorrect` | `Spec => []TypeOK` |
| `CollectedIsPrefix` | `Spec => []OutputIsPrefix` |
| `OutputsAreInOrder` | `Spec => []OutputsInOrder` |

`OutputIsPrefix` speaks of the last `Process`; what makes it true is spread over the chain.
`Chain` follows the units: a child that has not ended has taken all units up to some number from
its input (`Seen`), and its input pipe holds those from there to the last one that its
predecessor wrote. A child that has ended leaves its input as it was, which
is why the fact is claimed for the others only. `Spawned` says which children there are at
each point of `spawn`, and that a child leaves one message on stderr at most. `Resolutions` says that
what a `Process` resolved to is how its child ended, and that the outputs are the first of these.

### Commands and their streams

`CommandStdioProofs` proves, for any number of pipes, files and processes:

| Theorem | States |
|---|---|
| `Invariant` | `Spec => []IInv` |
| `TypeCorrect` | `Spec => []TypeOK` |
| `NumbersHaveOneOwner` | `Spec => []Owners` |
| `ProcessReadsItsChild` | `AsInTests` implies `Spec => []ReadsItsOwnChild` |
| `CommandOwnsItsStreams` | `AsInTests` implies `Spec => []OwnsItsStreams` |

The last two hold for the order of builder calls that the tests use (`AsInTests`, a constant of the
model that is true in the runs). With it FALSE both are false: `stdin` called after `stdout` changes
what the child's stdout is and leaves the reader of the pipe, and TLC finds this in a few steps.

A number is closed with its owner and soon stands for another file or pipe. `IInv` follows it from
owner to owner, of which there are five kinds: a stream of the child, the `Command`'s end of it,
the two readers of a process, and a `Stdio` until it is used. `Owners` says that what is owned is
open and has one owner; it holds in any order of calls, until a copy of a `Stdio` is used.
`Contents` says that a number stands for what its owner takes it for, and, of a stream not
configured yet, that the `Command` holds nothing of it, so that one configuration cannot disturb
another's pipe. `Passed` is the argument, once for all steps: each owner has afterwards a number
that was free or that of an owner which was not dropped, and no number is passed on twice. That a
reader is there for every stream that is piped is not claimed; a second spawn has none
(`command_reuse`).

### The test framework

`TestRunnerProofs` proves, for any number of resources and runs, any capacity of a child's pipe and any
times, what the run `test_runner` checks of `TestRunner`, `PostgresServer` and `ChildCommand`:

| Theorem | States |
|---|---|
| `Invariant` | `Spec => []IInv` |
| `TypeCorrect` | `Spec => []TypeOK` |
| `TestMeetsItsResources` | `Spec => []ResourcesOfThisRun` |
| `ResourcesAreTornDown` | `Spec => []TornDown` |
| `SetupKeepsDeadline` | `Spec => []DeadlineKept` |
| `SetupIsBounded` | `Spec => []WaitBounded` |
| `OutputIsComplete` | `Spec => []OutputCollected` |
| `PoisonedRunnerStartsNothing` | `Spec => PoisonedStartsNothing` |

The properties speak of a few points of a run; `IInv` says what holds at all of them.
`Places`: who holds the mutex, which call into which resource is under way, and that a child
exists exactly in the calls that wait for one. `Standing`: which configs are stored and which
projects are up, resource by resource, while a setup goes up the list and a teardown follows it.
`Clocks`: the last look at the clock, and how far the clock may be ahead of it. `ChildCounts`:
what a child has written is read, in the pipe or still to come. That an error with the clock running is one of
`before` is part of `Clocks`: it is true in every reachable state without being said, but a
teardown could not be followed without it.

### The interning cache

`InternCacheProofs` proves, for any sets of threads, values and addresses (finite, more addresses
than values, and `None` in none of them; the finiteness is not used):

| Theorem | States |
|---|---|
| `Invariant` | `SafeSpec => []IInv` |
| `TypeCorrect` | `Spec => []TypeOK` |
| `BlocksAreEntries` | `Spec => []HeapIsCache` |
| `SettledStays` | `Spec => SettledForGood` |
| `ImplementsTable` | `Spec => Table!SafeSpec` |

`IInv` is `TypeOK` and `HeapIsCache`, which together are inductive: the second of two threads
that insert the same value frees a block that is its own entry's and no other's, because two
entries never share a block. `SettledAt(v, a)` is then kept by every step: whoever calls for `v`
from now on finds the entry, so it never reaches the insertion. `StepRefines` maps a hit and an
insertion to `Answer`, a call to `Ask` and every other step to a stutter.

### The tree of shared nodes

`NodeTreeProofs` proves, for any number of nodes and of handles:

| Theorem | States |
|---|---|
| `Invariant` | `Spec => []IInv` |
| `TypeCorrect` | `Spec => []TypeOK` |
| `LivesWhileOwned` | `Spec => []AliveIffOwned` |
| `VisitsAllInOrder` | `Spec => []VisitsRight` |

`AliveIffOwned` is about reachability and does not say how often a node is owned, so no step
keeps it by itself. `OwnInv` counts: `Counted` says that the strong count of a node is the number of
its owners, which are handles, a drop under way, the queue, the visitor's argument and
the list of its parent. To keep that, nothing may hold a node twice: `Lists` for the lists of
children, `Drops` for a list that is dropped (its nodes are then in no list), `Waiting` for the
queue. The last one is a fact about the traversal: what waits is a child of a node visited before,
hence the children that are cloned into the queue are not in it yet. So the invariant of the
traversal (`TripInv`) is needed for the counts, and the counts for the traversal, which could
otherwise meet a dead node. `AliveIffOwned` follows in both directions from `Counted` and `Ages`
(a parent is older than its children): an alive node that no owned node reaches would have
a parent of the same kind, and the oldest such node has none; a dead node below an owned one would
be in the list of an alive one, and so be counted. In `VisitsRight`, the order is `Visited` and
`Levels`, the latter with what waits in the queue; `Covered` says that what the root had under it at
the start was visited or is below what waits or is being visited. That a walk stops only where
there is no parent is `WalkedOut`: afterwards neither the caller nor a drop gives a parent back.

### Hex

`HexChunksProofs` proves, for every width of usize, every set of bytes, every chunk size and every
slice at most half as long as a usize counts:

| Theorem | States |
|---|---|
| `Invariant` | `Spec => [](IInv /\ Text)` |
| `TypeCorrect` | `Spec => []TypeOK` |
| `PositionFits` | `Spec => []NoOverflow` |
| `WritesTheHexText` | `Spec => []OutIsHex` |

`NoOverflow` is not inductive; `Stepped` adds that the position is 0, at least one chunk on, or at
the end: in the second case the chunk is no longer than the slice, and one more fits. `Text` says
that as long as no write failed what is written is the text of the bytes before the position, and that
an array is filled up to there. A failed write leaves the start of the text. That the joined
strings of all bytes (`Joined`, a recursive function) are the text of the slice is proved by induction
on the number of bytes. The provers cannot instantiate the library's induction theorems, whose
parameter is an operator; `Induction` says the same of a set of numbers, and is proved from the
well-foundedness of `<`. `PipelineProofs` and `NodeTreeProofs` use the same device where they need a
least number.

### What is only model-checked

Liveness under fairness is out of the provers' reach and stays with TLC: `TasksReturn`,
`EofKeepsPolling`, `SenderReturns`, `JobCompletes`, `FailedSpawnWindsDown`, `RunReturns`,
`TraversalEnds`, `Ends`, and the fairness of `Channel` and of `InternTable` in the two
refinements, whose safety parts are proved.

## 6. Where code and documentation differ

- `Command` "can be reused to spawn multiple processes" (`process.rs:276`); the readers move
  to the first `Process` and the second has none (`command_reuse`).
- `Command::stdin` is "configuration for the child process's standard input" (`process.rs:552`);
  for `null` and `inherit` it sets stdout (`command_stdin`).
- "collecting all of its output" (`process.rs:684`, on `output`, which is compiled out; the
  `Process` future is what produces an `Output` now): what is written between the last read and the exit is
  dropped, because the drain at `process.rs:118` looks at std pipes that are always `None`
  (`pipeline_output`).
- `InternedSlice::as_slice` returns `&'static [T]` (`x002/src/lib.rs:108`), but the block behind
  an `InternedString` is freed when a second thread that missed the same value inserts it
  again (`x002/src/lib.rs:249`, `intern_static`).

The framework emulates "JUnit style `before` and `after` test semantics" (x001
`README.md:7`-`8`). JUnit runs the after methods when a before method failed; `run` does
not (`framework.rs:219`), so a setup that fails leaves what was started before it. The
sentence does not promise otherwise, and `TornDown` speaks of runs that reached the test.

## 7. Not modelled

- Bytes: units carry a number, an item its number and position.
- Children that were forked while a pipe was registered keep its file description, and with it
  the epoll registration, alive; the model closes a registration with the parent's
  descriptor.
- `PipeWriter::poll_flush` and `poll_close`: flushing a raw pipe does nothing and never blocks.
- `ctl_del_rawfd`, which has no caller, and errors of `epoll_wait`, which change nothing.
- In x001: what fails inside docker-compose without an error of its process, and the
  records that the tests write to the database; the harness's `main`, a loop over the tests.
- In x002: collisions of SHA3-512, and the other interned types, which go through the same
  function.
- In x003: `rust_read_dynamically_sized_field_c` copies one constant string into memory that
  its caller's `malloc` returns; the allocator functions call through the pointers they are
  given. There is no state and one path each.
- In x005: `Str`, an immutable wrapper; the printing and the comparisons of nodes, which only
  read. Several threads cannot share a tree (`Rc`).
- In struthionidae: the logging `Once` and the benches.
