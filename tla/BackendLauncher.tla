--------------------------- MODULE BackendLauncher ---------------------------
(***************************************************************************)
(* The desktop shell and the backend process it starts (src-tauri/src/      *)
(* main.rs): the startup thread (start_backend_if_needed), the window and    *)
(* run events which call BackendProcessState.stop, the processes themselves, *)
(* and whatever else uses the ports.                                        *)
(*                                                                          *)
(* The mutex around the child and the one around the startup status are held *)
(* for single calls, so an action is one of these calls, one probe or one    *)
(* attempt to bind.  A kill waits for the process under the mutex, hence is  *)
(* one step.                                                                *)
(***************************************************************************)
EXTENDS Naturals, FiniteSets

CONSTANTS
  Proc,        \* processes that can be spawned
  NoProc,      \* Option::None
  MaxPort,     \* BACKEND_PORT_DEFAULT is 1, BACKEND_PORT_FALLBACK_MAX is this
  MaxRetries,  \* BACKEND_STARTUP_MAX_RETRIES
  MaxPolls,    \* bound: polls that fit in BACKEND_STARTUP_WAIT_TIMEOUT
  MaxChanges   \* bound: how often a port is taken or released by others

ASSUME LauncherAssumption ==
  /\ NoProc \notin Proc
  /\ MaxPort \in Nat \ {0}
  /\ MaxRetries \in Nat
  /\ MaxPolls \in Nat \ {0}
  /\ MaxChanges \in Nat

Port == 1 .. MaxPort
DefaultPort == 1
NoPort == 0

VARIABLES
  child,      \* BackendProcessState.child
  startup,    \* BackendProcessState.startup: [status, port]
  procs,      \* spawned processes: [Proc -> [state, port]]
  others,     \* who else has a port: nobody, another Ancia, another service
  changes,    \* how often that has changed
  pc,         \* where the startup thread is
  port,       \* the port it looks at, then selected_port
  spare,      \* free_fallback_port
  attempted,  \* attempted_spawn_ports
  polls,      \* health checks since it began to wait
  hand,       \* the process it has spawned and not yet stored
  shell       \* the event loop: [at, half], half-way through a stop

pickVars == <<port, spare, attempted, polls>>
vars     == <<child, startup, procs, others, changes, pc, pickVars, hand, shell>>

Init ==
  /\ child = NoProc
  /\ startup = [status |-> "idle", port |-> DefaultPort]
  /\ procs = [q \in Proc |-> [state |-> "unborn", port |-> NoPort]]
  /\ others \in [Port -> {"nobody", "ancia", "service"}]
  /\ changes = 0
  /\ pc = "begin"
  /\ port = DefaultPort
  /\ spare = NoPort
  /\ attempted = {}
  /\ polls = 0
  /\ hand = NoProc
  /\ shell = [at |-> "open", half |-> FALSE]

Up       == shell.at # "gone"
Alive(q) == procs[q].state \in {"booting", "healthy"}
Serves(q, p) == procs[q] = [state |-> "healthy", port |-> p]

CanBind(p) == others[p] = "nobody" /\ \A q \in Proc : ~Serves(q, p)

(* What a probe may find.  A backend that is busy can miss the timeout, before *)
(* its answer begins or in the middle of it.                                 *)
Probe(p) ==
  CASE CanBind(p)             -> {"unreachable"}
    [] others[p] = "service"  -> {"unreachable", "occupied"}
    [] OTHER                  -> {"unreachable", "occupied", "healthy"}

(* Two faulty variants of the definitions after them; see below for the others. *)

(* running() takes the child to look at it and does not put it back.         *)
ReapedForgets == NoProc

(* A kill that sends SIGTERM and does not wait: a process that is booting goes *)
(* on.                                                                      *)
KillChildSoftly ==
  procs' = [q \in Proc |-> IF q = child /\ procs[q].state = "healthy"
                           THEN [procs[q] EXCEPT !.state = "exited"] ELSE procs[q]]

(* running(): a child that has exited is forgotten.                          *)
Reaped  == IF child \in Proc /\ Alive(child) THEN child ELSE NoProc

Running == Reaped # NoProc

KillChild == procs' = [q \in Proc |-> IF q = child THEN [procs[q] EXCEPT !.state = "exited"]
                                                   ELSE procs[q]]

Report(status, p) == startup' = [status |-> status, port |-> p]
Finish(status, p) == Report(status, p) /\ pc' = "done"

--------------------------------------------------------------------------------
(* Faulty variants of the actions below: the mistakes that the properties *)
(* are there to catch.  No specification uses them.                          *)

(* No port is free, and the missing one is unwrapped all the same.           *)
PickEndUnchecked ==
  /\ Up
  /\ pc = "pick"
  /\ port = MaxPort + 1
  /\ port' = spare
  /\ pc' = "select"
  /\ UNCHANGED <<child, startup, procs, others, changes, spare, attempted, polls, hand, shell>>

(* A wait that failed goes on to the retry and leaves the child running.     *)
StopChildSkipped ==
  /\ Up
  /\ pc = "stop"
  /\ pc' = "retry"
  /\ UNCHANGED <<child, startup, procs, others, changes, pickVars, hand, shell>>

(* The wait has no deadline.                                                *)
AwaitAliveForever ==
  /\ Up
  /\ pc = "alive"
  /\ child' = Reaped
  /\ pc' = IF Running THEN "await" ELSE "stop"
  /\ UNCHANGED <<startup, procs, others, changes, pickVars, hand, shell>>

--------------------------------------------------------------------------------
(* start_backend_if_needed                                                  *)

(* The status says starting.                                                *)
Begin ==
  /\ Up
  /\ pc = "begin"
  /\ Report("starting", startup.port)
  /\ pc' = "check"
  /\ UNCHANGED <<child, procs, others, changes, pickVars, hand, shell>>

(* A backend which is there already is used or given up.                     *)
CheckRunning ==
  /\ Up
  /\ pc = "check"
  /\ child' = Reaped
  /\ IF Running
     THEN \E seen \in Probe(DefaultPort) :
            Finish(IF seen = "healthy" THEN "ready" ELSE "error", DefaultPort)
     ELSE pc' = "try" /\ UNCHANGED startup
  /\ UNCHANGED <<procs, others, changes, pickVars, hand, shell>>

(* Too many attempts, or too much time, which the first one cannot have used. *)
GiveUp ==
  /\ Up
  /\ pc = "try"
  /\ Cardinality(attempted) >= MaxRetries \/ attempted # {}
  /\ Finish("error", DefaultPort)
  /\ UNCHANGED <<child, procs, others, changes, pickVars, hand, shell>>

Try ==
  /\ Up
  /\ pc = "try"
  /\ Cardinality(attempted) < MaxRetries
  /\ pc' = "pick"
  /\ port' = DefaultPort
  /\ spare' = NoPort
  /\ UNCHANGED <<child, startup, procs, others, changes, attempted, polls, hand, shell>>

(* pick_backend_port, port by port: a backend that answers is used.          *)
PickProbe ==
  /\ Up
  /\ pc = "pick"
  /\ port \in Port
  /\ \E seen \in Probe(port) :
       \/ /\ seen = "healthy"
          /\ Finish("ready", port)
          /\ UNCHANGED port
       \/ /\ seen = "unreachable"
          /\ pc' = IF port = DefaultPort THEN "recheck" ELSE "bind"
          /\ UNCHANGED <<startup, port>>
       \/ /\ seen = "occupied"
          /\ port' = port + 1
          /\ UNCHANGED <<startup, pc>>
  /\ UNCHANGED <<child, procs, others, changes, spare, attempted, polls, hand, shell>>

(* The default port gets a second, longer probe.                             *)
PickRecheck ==
  /\ Up
  /\ pc = "recheck"
  /\ \E seen \in Probe(port) :
       IF seen = "healthy" THEN Finish("ready", port) ELSE pc' = "bind" /\ UNCHANGED startup
  /\ UNCHANGED <<child, procs, others, changes, pickVars, hand, shell>>

(* The default port is taken at once if it is free, the first other one which is *)
(* free only after a look at the rest.                                       *)
PickBind ==
  /\ Up
  /\ pc = "bind"
  /\ LET free == port \notin attempted /\ CanBind(port)
     IN  \/ /\ free /\ port = DefaultPort
            /\ pc' = "select"
            /\ UNCHANGED <<port, spare>>
         \/ /\ ~(free /\ port = DefaultPort)
            /\ pc' = "pick"
            /\ port' = port + 1
            /\ spare' = IF free /\ spare = NoPort THEN port ELSE spare
  /\ UNCHANGED <<child, startup, procs, others, changes, attempted, polls, hand, shell>>

PickEnd ==
  /\ Up
  /\ pc = "pick"
  /\ port = MaxPort + 1
  /\ \/ /\ spare = NoPort
        /\ Finish("error", DefaultPort)
        /\ UNCHANGED port
     \/ /\ spare # NoPort
        /\ port' = spare
        /\ pc' = "select"
        /\ UNCHANGED startup
  /\ UNCHANGED <<child, procs, others, changes, spare, attempted, polls, hand, shell>>

Select ==
  /\ Up
  /\ pc = "select"
  /\ Report("starting", port)
  /\ pc' = "spawn"
  /\ UNCHANGED <<child, procs, others, changes, pickVars, hand, shell>>

(* The thread holds the child it has spawned; stop() cannot see it yet.      *)
Spawn ==
  /\ Up
  /\ pc = "spawn"
  /\ ~Running
  /\ child' = Reaped
  /\ \E q \in Proc :
       /\ procs[q].state = "unborn"
       /\ procs' = [procs EXCEPT ![q] = [state |-> "booting", port |-> port]]
       /\ hand' = q
  /\ pc' = "store"
  /\ UNCHANGED <<startup, others, changes, pickVars, shell>>

(* There is a child already, or no executable can be started.                *)
SpawnFails ==
  /\ Up
  /\ pc = "spawn"
  /\ child' = Reaped
  /\ Finish("error", port)
  /\ UNCHANGED <<procs, others, changes, pickVars, hand, shell>>

StoreChild ==
  /\ Up
  /\ pc = "store"
  /\ KillChild
  /\ child' = hand
  /\ hand' = NoProc
  /\ pc' = "stored"
  /\ UNCHANGED <<startup, others, changes, pickVars, shell>>

AwaitBegin ==
  /\ Up
  /\ pc = "stored"
  /\ Report("starting", port)
  /\ polls' = 0
  /\ pc' = "await"
  /\ UNCHANGED <<child, procs, others, changes, port, spare, attempted, hand, shell>>

(* wait_for_backend_ready: whoever answers on the port decides ...           *)
AwaitProbe ==
  /\ Up
  /\ pc = "await"
  /\ polls < MaxPolls
  /\ \E seen \in Probe(port) :
       \/ seen = "healthy" /\ Finish("ready", port)
       \/ seen = "occupied" /\ pc' = "stop" /\ UNCHANGED startup
       \/ seen = "unreachable" /\ pc' = "alive" /\ UNCHANGED startup
  /\ UNCHANGED <<child, procs, others, changes, pickVars, hand, shell>>

(* ... and while nobody does, the child must be running.                     *)
AwaitAlive ==
  /\ Up
  /\ pc = "alive"
  /\ child' = Reaped
  /\ pc' = IF Running THEN "await" ELSE "stop"
  /\ polls' = polls + 1
  /\ UNCHANGED <<startup, procs, others, changes, port, spare, attempted, hand, shell>>

AwaitTimeout ==
  /\ Up
  /\ pc = "await"
  /\ polls > 0
  /\ pc' = "stop"
  /\ UNCHANGED <<child, startup, procs, others, changes, pickVars, hand, shell>>

(* The wait failed: stop() ...                                              *)
StopChild ==
  /\ Up
  /\ pc = "stop"
  /\ KillChild
  /\ child' = NoProc
  /\ pc' = "report"
  /\ UNCHANGED <<startup, others, changes, pickVars, hand, shell>>

StopReport ==
  /\ Up
  /\ pc = "report"
  /\ Report("stopped", startup.port)
  /\ pc' = "retry"
  /\ UNCHANGED <<child, procs, others, changes, pickVars, hand, shell>>

(* ... and another attempt only if somebody else has got the port.           *)
Retry ==
  /\ Up
  /\ pc = "retry"
  /\ IF port \notin attempted /\ ~CanBind(port)
     THEN /\ attempted' = attempted \cup {port}
          /\ Report("starting", port)
          /\ pc' = "try"
     ELSE /\ Finish("error", port)
          /\ UNCHANGED attempted
  /\ UNCHANGED <<child, procs, others, changes, port, spare, polls, hand, shell>>

Startup ==
  \/ Begin \/ CheckRunning \/ GiveUp \/ Try
  \/ PickProbe \/ PickRecheck \/ PickBind \/ PickEnd
  \/ Select \/ Spawn \/ SpawnFails \/ StoreChild
  \/ AwaitBegin \/ AwaitProbe \/ AwaitAlive \/ AwaitTimeout
  \/ StopChild \/ StopReport \/ Retry

--------------------------------------------------------------------------------
(* The event loop.  Closing the main window or quitting runs through some of  *)
(* four events, each of which calls stop(); then the process exits, and the   *)
(* startup thread with it.                                                  *)

NextEvent == [open          |-> "CloseRequested", CloseRequested |-> "Destroyed",
              Destroyed     |-> "ExitRequested",  ExitRequested  |-> "Exit",
              Exit          |-> "gone"]

CloseWindow ==
  /\ shell = [at |-> "open", half |-> FALSE]
  /\ \E event \in {"CloseRequested", "Exit"} : shell' = [at |-> event, half |-> FALSE]
  /\ UNCHANGED <<child, startup, procs, others, changes, pc, pickVars, hand>>

ShellKill ==
  /\ shell.at \notin {"open", "gone"}
  /\ ~shell.half
  /\ KillChild
  /\ child' = NoProc
  /\ shell' = [shell EXCEPT !.half = TRUE]
  /\ UNCHANGED <<startup, others, changes, pc, pickVars, hand>>

(* The handler is done.  The next event comes.                               *)
ShellReport ==
  /\ shell.at \notin {"open", "gone"}
  /\ shell.half
  /\ Report("stopped", startup.port)
  /\ shell' = [at |-> NextEvent[shell.at], half |-> FALSE]
  /\ UNCHANGED <<child, procs, others, changes, pc, pickVars, hand>>

(* backend_status and backend_startup_snapshot, asked by the frontend.        *)
Query ==
  /\ shell.at = "open"
  /\ child # Reaped
  /\ child' = Reaped
  /\ UNCHANGED <<startup, procs, others, changes, pc, pickVars, hand, shell>>

--------------------------------------------------------------------------------
(* The processes and the ports                                              *)

(* A backend listens on its port once it has started, or finds it taken.     *)
Boot(q) ==
  /\ procs[q].state = "booting"
  /\ procs' = [procs EXCEPT ![q].state = IF CanBind(procs[q].port) THEN "healthy" ELSE "exited"]
  /\ UNCHANGED <<child, startup, others, changes, pc, pickVars, hand, shell>>

Die(q) ==
  /\ Alive(q)
  /\ procs' = [procs EXCEPT ![q].state = "exited"]
  /\ UNCHANGED <<child, startup, others, changes, pc, pickVars, hand, shell>>

OthersChange(p) ==
  /\ changes < MaxChanges
  /\ changes' = changes + 1
  /\ \/ /\ others[p] # "nobody"
        /\ others' = [others EXCEPT ![p] = "nobody"]
     \/ /\ CanBind(p)
        /\ \E who \in {"ancia", "service"} : others' = [others EXCEPT ![p] = who]
  /\ UNCHANGED <<child, startup, procs, pc, pickVars, hand, shell>>

Next ==
  \/ Startup
  \/ CloseWindow \/ ShellKill \/ ShellReport \/ Query
  \/ \E q \in Proc : Boot(q) \/ Die(q)
  \/ \E p \in Port : OthersChange(p)

Spec == Init /\ [][Next]_vars

(* The startup thread runs.  Nothing else has to happen: no process has to get *)
(* healthy or to exit, nobody has to close the window.                       *)
FairSpec == Spec /\ WF_vars(Startup)

--------------------------------------------------------------------------------
Stages == {"begin", "check", "try", "pick", "recheck", "bind", "select", "spawn", "store",
           "stored", "await", "alive", "stop", "report", "retry", "done"}

(* Types.  The selected port is one of the range, never the missing one.     *)
TypeOK ==
  /\ child \in Proc \cup {NoProc}
  /\ startup \in [status : {"idle", "starting", "ready", "stopped", "error"}, port : Port]
  /\ procs \in [Proc -> [state : {"unborn", "booting", "healthy", "exited"}, port : Port \cup {NoPort}]]
  /\ others \in [Port -> {"nobody", "ancia", "service"}]
  /\ changes \in 0 .. MaxChanges
  /\ pc \in Stages
  /\ port \in 1 .. MaxPort + 1
  /\ pc # "pick" => port \in Port \/ pc = "done"
  /\ spare \in Port \cup {NoPort}
  /\ attempted \subseteq Port
  /\ polls \in 0 .. MaxPolls
  /\ hand \in Proc \cup {NoProc}
  /\ shell \in [at : {"open", "CloseRequested", "Destroyed", "ExitRequested", "Exit", "gone"},
                half : BOOLEAN]

(* The shell never loses a backend it has spawned: as long as the process lives, *)
(* it is the stored child, which every stop() kills, or the startup thread is  *)
(* about to store it.  This also covers the retries, in which one backend     *)
(* follows another (running, store_child, stop).                             *)
NoLostBackend == \A q \in Proc : Alive(q) => q \in {child, hand}

(* Two backends on one data directory would be two writers of one database:  *)
(* however the retries, the kills and the exits of processes interleave, at   *)
(* most one process that this shell has spawned is alive.                    *)
AtMostOneBackend == \A q, r \in Proc : Alive(q) /\ Alive(r) => q = r

(* A status of ready names the port of the shell's own backend if that one is *)
(* running, whatever other backends were found on the way: the frontend would *)
(* otherwise talk to one backend while the shell watches and stops another.  *)
ReadyIsOwnBackend ==
  startup.status = "ready" /\ child \in Proc /\ Alive(child) =>
    startup.port = procs[child].port

(* A start that was given up leaves no process behind.                       *)
FailureIsClean == startup.status = "error" => \A q \in Proc : ~Alive(q)

(* The start comes to an end, whoever holds the ports and however long backends *)
(* take: the status does not stay at starting.                               *)
StartupEnds == <>(pc = "done" \/ ~Up)

(* "Store the child immediately so shutdown handlers can always terminate it, *)
(* even if the user closes the app while backend is still booting" (main.rs).  *)
(* No backend that the shell has spawned is left when the shell is gone.     *)
NoSurvivor == ~Up => \A q \in Proc : ~Alive(q)
================================================================================
