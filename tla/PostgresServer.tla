--------------------------- MODULE PostgresServer ---------------------------
(***************************************************************************)
(* setup and teardown of the PostgresServers of x001 test_resources.rs,    *)
(* one call at a time: docker-compose is run three times by way of         *)
(* ChildCommand, always with a piped stdout, and setup then waits until    *)
(* the server accepts a connection, up to max_wait, in ticks of 250 ms.    *)
(* A project is what docker-compose is asked to start in one setup.  Its   *)
(* exit status is never looked at, so all that is known of a project is    *)
(* what was asked for.                                                     *)
(***************************************************************************)
EXTENDS ChildCommand

CONSTANTS N,               \* resources, in the order of the runner's IndexMap
          MaxRuns,         \* bound: calls of the runner's run
          MaxWait,         \* max_wait
          ConnectTimeout,  \* longest time an attempt takes
          Pause,           \* shortest time the sleep takes
          Late,            \* bound: how much longer than asked a sleep takes
          Horizon          \* bound: the server accepts connections from a tick up to here on

ASSUME ServerAssumption ==
  /\ {N, MaxRuns, Pause} \subseteq Nat \ {0}
  /\ {MaxWait, ConnectTimeout, Late, Horizon} \subseteq Nat

Resources == 1..N

VARIABLES
  runs,    \* calls of run so far
  at,      \* the resource whose setup or teardown is called
  stage,   \* where the call is; "ok", "error" or "panic" once it is over
  config,  \* PostgresServer.config: the run whose setup stored it, 0 for None
  up,      \* projects <<resource, run>> asked to start and not asked to go down
  clock,   \* ticks since wait_start
  waited,  \* wait_time
  opens    \* the tick from which on the server accepts connections

timeVars   == <<clock, waited, opens>>
serverVars == <<childVars, stage, config, up, timeVars>>

ServerTypeOK ==
  /\ ChildTypeOK
  /\ runs \in 0..MaxRuns /\ at \in 0..(N + 1)
  /\ stage \in {"none", "files", "up", "port", "look", "connect", "sleep",
                "teardown", "down", "ok", "error", "panic"}
  /\ config \in [Resources -> 0..MaxRuns]
  /\ up \subseteq Resources \X (1..MaxRuns)
  /\ clock \in Nat /\ waited \in 0..clock
  /\ opens \in 0..Horizon

ServerInit ==
  /\ ChildInit
  /\ runs = 0 /\ at = 0 /\ stage = "none"
  /\ config = [r \in Resources |-> 0] /\ up = {}
  /\ clock = 0 /\ waited = 0 /\ opens = 0

-----------------------------------------------------------------------------
(* setup()                                                                 *)

\* The directory or the compose file cannot be written, or docker-compose not be found.
FilesFail ==
  /\ stage = "files"
  /\ stage' \in {"error", "panic"}
  /\ UNCHANGED <<childVars, config, up, timeVars>>

ComposeUp ==
  /\ stage = "files"
  /\ Launch("wait")
  /\ up' = up \cup {<<at, runs>>}
  /\ stage' = "up"
  /\ UNCHANGED <<config, timeVars>>

\* wait() returned, whatever the exit status; the port is asked for.
ComposePort ==
  /\ stage = "up" /\ Returned
  /\ Launch("output")
  /\ stage' = "port"
  /\ UNCHANGED <<config, up, timeVars>>

\* Mutation: an output without a port is taken for the port of before.
PortKept ==
  /\ stage = "port" /\ Returned
  /\ Drop
  /\ stage' = "look"
  /\ opens' \in 0..Horizon /\ clock' = 0 /\ waited' = 0
  /\ config' = IF Output > 0 THEN [config EXCEPT ![at] = runs] ELSE config
  /\ UNCHANGED up

\* The output is the port: the config is stored and the wait begins.
PortKnown ==
  /\ stage = "port" /\ Returned /\ Output > 0
  /\ Drop
  /\ stage' = "look"
  /\ opens' \in 0..Horizon /\ clock' = 0 /\ waited' = 0
  /\ config' = [config EXCEPT ![at] = runs]
  /\ UNCHANGED up

\* wait() fails or docker-compose cannot be started again; nothing, or no port, is printed.
ComposeFails ==
  /\ stage \in {"up", "port"} /\ Returned
  /\ Drop
  /\ stage' \in IF stage = "up" THEN {"error", "panic"} ELSE {"error"}
  /\ UNCHANGED <<config, up, timeVars>>

\* Mutation: the wait is counted anew in each turn.
LookAnew == stage = "look" /\ waited' = 0 /\ stage' = "connect" /\ UNCHANGED <<childVars, config, up, clock, opens>>

\* wait_time is taken before the attempt it decides about.
Look ==
  /\ stage = "look"
  /\ waited' = clock
  /\ stage' = "connect"
  /\ UNCHANGED <<childVars, config, up, clock, opens>>

\* An attempt on a server that accepts succeeds; one that opens meanwhile may be in time.
ConnectOk ==
  /\ stage = "connect"
  /\ \E d \in 0..ConnectTimeout : opens <= clock + d
  /\ stage' = "ok" /\ clock' = 0 /\ waited' = 0 /\ opens' = 0
  /\ UNCHANGED <<childVars, config, up>>

\* Mutation: the wait includes the attempt.
ConnectFailsLate ==
  /\ stage = "connect" /\ clock < opens
  /\ \E d \in 0..ConnectTimeout : clock' = clock + d
  /\ waited' = clock'
  /\ stage' = IF waited' < MaxWait THEN "sleep" ELSE "error"
  /\ UNCHANGED <<childVars, config, up, opens>>

ConnectFails ==
  /\ stage = "connect" /\ clock < opens
  /\ \E d \in 0..ConnectTimeout : clock' = clock + d
  /\ stage' = IF waited < MaxWait THEN "sleep" ELSE "error"
  /\ UNCHANGED <<childVars, config, up, waited, opens>>

Sleep ==
  /\ stage = "sleep"
  /\ \E d \in Pause..(Pause + Late) : clock' = clock + d
  /\ stage' = "look"
  /\ UNCHANGED <<childVars, config, up, waited, opens>>

-----------------------------------------------------------------------------
(* teardown()                                                              *)

\* The config stays behind.
ComposeDown ==
  /\ stage = "teardown" /\ config[at] # 0
  /\ Launch("wait")
  /\ up' = up \ {<<at, config[at]>>}
  /\ stage' = "down"
  /\ UNCHANGED <<config, timeVars>>

\* docker-compose cannot be started, or there is no config.
DownPanics ==
  /\ stage = "teardown"
  /\ stage' = "panic"
  /\ UNCHANGED <<childVars, config, up, timeVars>>

DownReturns ==
  /\ stage = "down" /\ Returned
  /\ Drop
  /\ stage' \in {"ok", "error"}
  /\ UNCHANGED <<config, up, timeVars>>

\* docker-compose moves whenever it can, and so does the thread that waits for it.
Docker == (ChildWrites \/ ChildExits) /\ UNCHANGED <<stage, config, up, timeVars>>
Reads  == ReadOut /\ UNCHANGED <<stage, config, up, timeVars>>

Setup    == FilesFail \/ ComposeUp \/ ComposePort \/ PortKnown \/ ComposeFails
              \/ Look \/ ConnectOk \/ ConnectFails \/ Sleep
Teardown == ComposeDown \/ DownPanics \/ DownReturns

-----------------------------------------------------------------------------
(* Properties.                                                             *)

\* A server that accepts connections before max_wait has passed is never reported as
\* unavailable, however the attempts and the sleeps fall.
DeadlineKept == stage = "error" /\ clock > 0 => opens > MaxWait

\* setup comes back soon after max_wait: one sleep and two attempts later at most.
WaitBounded == clock <= MaxWait + 2 * ConnectTimeout + Pause + Late
=============================================================================
