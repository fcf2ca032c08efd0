---------------------------- MODULE CommandStdio ----------------------------
(***************************************************************************)
(* The standard streams of the Commands of x004 process.rs: the builder    *)
(* methods stdin, stdout and stderr, spawn, Process::new, and Stdio.       *)
(* There is one Command at a time; when it is dropped the next is made.    *)
(* What the child gets is in the std Command inside (inner); the parent's  *)
(* ends of the pipes are in the fields stdin, stdout and stderr (handle),  *)
(* and the readers among them go to the Process.                           *)
(*                                                                         *)
(* All of these own descriptor numbers, of one table: whoever goes closes  *)
(* its number, open or not and whatever it stands for by then.  A Stdio is *)
(* Copy and holds a bare number, of which each use makes an owner.         *)
(***************************************************************************)
EXTENDS Naturals, Sequences

CONSTANTS MaxPipes,   \* bound: pipes created
          MaxSpawns,  \* bound: processes spawned
          MaxFiles,   \* bound: files opened
          Kinds,      \* the kinds of Stdio passed in, of IoKinds
          AsInTests   \* each stream configured once, in the order stdin, stdout, stderr

\* IoKind.  redirect_to_out() is piped too.
IoKinds == {"null", "inherit", "piped", "file"}

ASSUME StdioAssumption ==
  /\ {MaxPipes, MaxSpawns, MaxFiles} \subseteq Nat
  /\ Kinds \subseteq IoKinds
  /\ AsInTests \in BOOLEAN

Streams == {"stdin", "stdout", "stderr"}
Files   == 1..MaxFiles
Numbers == 1..(MaxFiles + 2 * MaxPipes)  \* as many as may be open at once
None == 0

VARIABLES
  inner,   \* what the child gets as each stream: its kind, and the number if it is "fd"
  handle,  \* Command.stdin, .stdout, .stderr: the number of the other end, or None
  asked,   \* what was asked for each stream last
  procs,   \* Processes spawned: the child's streams, the numbers Process.stdout and .stderr
  fd,      \* what each number stands for
  pipes,   \* pipes created so far
  opened,  \* files opened so far
  stdio,   \* the number in the Stdio of each file, None if there is none
  uses     \* how often that Stdio was passed to a command, 2 for more

cmdVars == <<inner, handle, asked>>
stdioVars == <<opened, stdio, uses>>
vars == <<cmdVars, procs, fd, pipes, stdioVars>>

\* A file or an end of a pipe, and what is neither.
Things(kinds) == kinds \X (0..(MaxPipes + MaxFiles))
Closed == <<"closed", None>>
Open == {"file", "reader", "writer"}

\* The other end of a pipe.
Other(end) == IF end[1] = "reader" THEN <<"writer", end[2]>> ELSE <<"reader", end[2]>>

Held == Numbers \cup {None}
Processes == [std : [Streams -> Things(Open \cup {"null", "inherit", "gone"})], out : Held, err : Held]

TypeOK ==
  /\ inner \in [Streams -> {"null", "inherit", "fd"} \X Held]
  /\ handle \in [Streams -> Held]
  /\ asked \in [Streams -> Things(Open \cup {"null", "inherit", "default"})]
  /\ procs \in Seq(Processes) /\ Len(procs) <= MaxSpawns
  /\ fd \in [Numbers -> Things(Open) \cup {Closed}]
  /\ pipes \in 0..MaxPipes
  /\ opened \in 0..MaxFiles
  /\ stdio \in [Files -> Held]
  /\ uses \in [Files -> 0..2]

\* Command::new: spawn inherits all three.
NewInner == [s \in Streams |-> <<"inherit", None>>]
NewAsked == [s \in Streams |-> <<"default", None>>]
NoHandle == [s \in Streams |-> None]

Init ==
  /\ inner = NewInner /\ handle = NoHandle /\ asked = NewAsked
  /\ procs = <<>>
  /\ fd = [n \in Numbers |-> Closed]
  /\ pipes = 0 /\ opened = 0
  /\ stdio = [f \in Files |-> None]
  /\ uses = [f \in Files |-> 0]

\* open() gives the lowest number that is free, pipe() the lowest two.
Lowest(n, table) == table[n] = Closed /\ \A m \in 1..(n - 1) : table[m] # Closed

\* The owners of these numbers are dropped.
Without(held, table) == [n \in Numbers |-> IF n \in held THEN Closed ELSE table[n]]

Opens(stays) ==
  /\ opened < MaxFiles
  /\ opened' = opened + 1
  /\ \E n \in Numbers :
       /\ Lowest(n, fd)
       /\ stdio' = [stdio EXCEPT ![opened'] = n]
       /\ fd' = IF stays THEN [fd EXCEPT ![n] = <<"file", opened'>>] ELSE fd
  /\ UNCHANGED <<cmdVars, pipes, procs, uses>>

\* Mutation: as_raw_fd, and the File is dropped.
FromFileDropped == Opens(FALSE)

\* Stdio::from_file of a file opened for it: into_raw_fd gives up the File.
FromFile == Opens(TRUE)

-----------------------------------------------------------------------------
(* The builder.                                                            *)

\* The tests and Pipeline configure before they spawn, and in this order.
Order == [stdin |-> 1, stdout |-> 2, stderr |-> 3]
InTurn(s) == AsInTests => \A t \in Streams : Order[t] >= Order[s] => asked[t][1] = "default"

Asks(s, thing) == asked' = [asked EXCEPT ![s] = thing]

\* Pipe::new, then the fields: both old numbers of the stream are dropped after the pipe was
\* made. The child's end of it is theirs, the other one stays here.
PipedFrom(s, reader, writer) ==
  /\ "piped" \in Kinds
  /\ pipes < MaxPipes
  /\ pipes' = writer
  /\ \E r, w \in Numbers :
       LET opening == [fd EXCEPT ![r] = <<"reader", reader>>]
           theirs  == IF s = "stdin" THEN r ELSE w
       IN /\ Lowest(r, fd) /\ Lowest(w, opening)
          /\ inner' = [inner EXCEPT ![s] = <<"fd", theirs>>]
          /\ handle' = [handle EXCEPT ![s] = IF s = "stdin" THEN w ELSE r]
          /\ fd' = Without({inner[s][2], handle[s]}, [opening EXCEPT ![w] = <<"writer", writer>>])
  /\ Asks(s, IF s = "stdin" THEN <<"reader", reader>> ELSE <<"writer", writer>>)
  /\ UNCHANGED <<procs, stdioVars>>

\* Mutation: the two ends are taken from two pipes.
PipedTwice(s) == PipedFrom(s, pipes + 1, pipes + 2)

Piped(s) == PipedFrom(s, pipes + 1, pipes + 1)

\* The child gets this as stream s; what it had there before is dropped.
Gives(s, target) ==
  /\ inner' = [inner EXCEPT ![s] = target]
  /\ fd' = Without({inner[s][2]}, fd)

\* A Stdio of a file, or a copy of it: File::from_raw_fd.
FromFd(s) ==
  /\ "file" \in Kinds
  /\ \E f \in Files :
       /\ stdio[f] # None
       /\ Gives(s, <<"fd", stdio[f]>>)
       /\ uses' = [uses EXCEPT ![f] = IF @ = 2 THEN 2 ELSE @ + 1]
       /\ Asks(s, <<"file", f>>)
  /\ UNCHANGED <<handle, pipes, procs, opened, stdio>>

\* null and inherit, asked for s and set on t.
Plain(s, t) ==
  /\ \E kind \in Kinds \cap {"null", "inherit"} : Gives(t, <<kind, None>>) /\ Asks(s, <<kind, None>>)
  /\ UNCHANGED <<handle, pipes, procs, stdioVars>>

\* Command::stdin: a descriptor goes to stdin; null and inherit are set on the child's stdout.
Stdin == InTurn("stdin") /\ (Piped("stdin") \/ FromFd("stdin") \/ Plain("stdin", "stdout"))

\* Command::stdout and Command::stderr.  A pipe configured before leaves its reader behind.
OutStream(s) == InTurn(s) /\ (Piped(s) \/ FromFd(s) \/ Plain(s, s))

\* A closed descriptor cannot be given to the child: spawn is an error and changes nothing.
Spawnable == \A s \in Streams : inner[s][1] = "fd" => fd[inner[s][2]] # Closed

SpawnWith(out, err) ==
  /\ Len(procs) < MaxSpawns /\ Spawnable
  /\ LET given(s) == IF inner[s][1] = "fd" THEN fd[inner[s][2]] ELSE inner[s]
     IN procs' = Append(procs, [std |-> [s \in Streams |-> given(s)], out |-> out, err |-> err])
  /\ handle' = [handle EXCEPT !["stdout"] = None, !["stderr"] = None]
  /\ UNCHANGED <<inner, asked, fd, pipes, stdioVars>>

\* Mutation: the readers change places.
SpawnSwapped == SpawnWith(handle["stderr"], handle["stdout"])

\* Process::new: the readers move to the Process, the writer of stdin stays in the Command.
Spawn == SpawnWith(handle["stdout"], handle["stderr"])

\* The Command is dropped with all it owns, and the next one is made.
DropCommand ==
  /\ asked # NewAsked
  /\ fd' = Without({inner[s][2] : s \in Streams} \cup {handle[s] : s \in Streams}, fd)
  /\ inner' = NewInner /\ handle' = NoHandle /\ asked' = NewAsked
  /\ UNCHANGED <<procs, pipes, stdioVars>>

\* A Process is dropped with its readers.
Gone == [std |-> [s \in Streams |-> <<"gone", None>>], out |-> None, err |-> None]

DropProcess ==
  /\ \E k \in DOMAIN procs :
       /\ procs[k] # Gone
       /\ fd' = Without({procs[k].out, procs[k].err}, fd)
       /\ procs' = [procs EXCEPT ![k] = Gone]
  /\ UNCHANGED <<cmdVars, pipes, stdioVars>>

Next ==
  \/ FromFile \/ Stdin \/ OutStream("stdout") \/ OutStream("stderr")
  \/ Spawn \/ DropCommand \/ DropProcess

Spec == Init /\ [][Next]_vars

-----------------------------------------------------------------------------
(* Properties.                                                             *)

\* A Stdio has been passed twice: then a number has two owners.
Copied == \E f \in Files : uses[f] = 2

ReadsFrom(reader, stream) == reader # None => stream[1] = "writer" /\ fd[reader] = Other(stream)

\* With the streams configured as the tests do, what a Process reads as stdout or stderr is
\* what its own child writes there, although stdin() touches the child's stdout and numbers
\* come back as other files and pipes, unless a copied Stdio has closed what is not its own
\* (Process::new, Pipeline::new).
ReadsItsOwnChild ==
  Copied \/ \A k \in DOMAIN procs : /\ ReadsFrom(procs[k].out, procs[k].std["stdout"])
                                    /\ ReadsFrom(procs[k].err, procs[k].std["stderr"])

\* The numbers a Command owns are open, and are the files it was given and the two ends of its
\* pipes, through every reuse of a number, unless some Stdio has been passed twice: nothing
\* but a copy closes what is not its own (Stdio::from_file, into).
OwnsItsStreams ==
  Copied \/ \A s \in Streams : /\ inner[s][1] = "fd" => fd[inner[s][2]] = asked[s]
                               /\ handle[s] # None => fd[handle[s]] = Other(asked[s])

\* A command can be spawned again: each of its processes whose stdout or stderr is piped
\* can be read.
SpawnsAlike ==
  \A k \in DOMAIN procs : /\ procs[k].std["stdout"][1] = "writer" => procs[k].out # None
                          /\ procs[k].std["stderr"][1] = "writer" => procs[k].err # None

\* stdin() configures the child's standard input: what is inherited was asked to be.
StdinAsAsked ==
  asked["stdin"][1] # "default" => (inner["stdin"][1] = "inherit" <=> asked["stdin"][1] = "inherit")
=============================================================================
