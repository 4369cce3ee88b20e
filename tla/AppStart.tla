-------------------------------- MODULE AppStart --------------------------------
(***************************************************************************)
(* How the client starts (src/src/app/backendStartup.js, appLifecycle.js): *)
(* it asks the backend at the address it remembers for its health until    *)
(* the backend is ready, has failed, or time is up, and follows the        *)
(* desktop launcher when that reports another port.                        *)
(*                                                                         *)
(* The client remembers a port of this machine, and the snapshot of the    *)
(* launcher names one: the default port until it has picked another, and   *)
(* again when it fails before it picks.  What answers at a port is         *)
(* nothing, another service, or a backend of Ancia; the launcher and the   *)
(* backends go on while the client waits, and a backend that answers goes  *)
(* on answering.                                                           *)
(***************************************************************************)
CONSTANTS Ports, Default   \* the ports of this machine, the one tried first

ASSUME StartAssumption == Default \in Ports

Outcomes == {"waiting", "onboarding", "ready", "failed"}

VARIABLES backend,     \* what answers at each port: its state, and whether in server mode
          launcher,    \* the launcher: starting, booting a backend, ready or error
          told,        \* the port that the launcher's snapshot names
          desktop,     \* the client runs in the desktop application
          local,       \* the client's deployment mode is the local one
          url,         \* the port of the client's configuration
          ping,        \* the health that was read and not acted on yet
          recovered,   \* the backend was told once to leave the server mode
          outcome,     \* how the start ended
          settled,     \* settings and chats were exchanged with the backend
          timeUp       \* the time to wait has passed

startVars == <<backend, launcher, told, desktop, local, url, ping, recovered, outcome,
               settled, timeUp>>

States == {"none", "foreign", "loading", "idle", "ready", "error"}
NoPing == [at |-> "none", state |-> "none", remote |-> FALSE]

StartTypeOK ==
  /\ backend \in [Ports -> [state : States, remote : BOOLEAN]]
  /\ launcher \in {"starting", "booting", "ready", "error"} /\ {desktop, local} \subseteq BOOLEAN
  /\ {url, told} \subseteq Ports /\ outcome \in Outcomes

\* At each port nothing, another service, or a backend of an earlier run.
StartInit ==
  /\ \E states \in [Ports -> {"none", "foreign", "ready", "error"}], remote \in BOOLEAN :
       backend = [p \in Ports |-> [state |-> states[p], remote |-> remote]]
  /\ launcher = "starting" /\ told = Default
  /\ desktop \in BOOLEAN /\ local \in BOOLEAN
  /\ url \in Ports /\ ping = NoPing /\ recovered = FALSE
  /\ \E onboarding \in BOOLEAN : outcome = IF onboarding THEN "onboarding" ELSE "waiting"
  /\ settled = FALSE /\ timeUp = FALSE

-----------------------------------------------------------------------------
(* Around the client. *)

Ancia == States \ {"none", "foreign"}

Answers(p, state) == backend' = [backend EXCEPT ![p].state = state]

\* A backend that is there is used; else one is started at a port that is free.
LauncherPicks ==
  /\ launcher = "starting"
  /\ \E p \in Ports :
       /\ told' = p
       /\ \/ backend[p].state \in Ancia /\ launcher' = "ready"
          \/ backend[p].state = "none" /\ launcher' = "booting"
  /\ UNCHANGED backend

\* The launcher's next look finds the backend it started, or another one.
LauncherFinds ==
  /\ launcher = "booting" /\ backend[told].state \in Ancia
  /\ launcher' = "ready"
  /\ UNCHANGED <<backend, told>>

\* Another service has taken the port: the launcher tries the next one.
LauncherRetries ==
  /\ launcher = "booting" /\ backend[told].state = "none"
  /\ launcher' = "starting" /\ Answers(told, "foreign")
  /\ UNCHANGED told

\* No port, no time or no attempt is left, or the backend does not come up.
LauncherFails ==
  /\ \/ launcher = "starting" /\ told' = Default
     \/ launcher = "booting" /\ backend[told].state = "none" /\ UNCHANGED told
  /\ launcher' = "error"
  /\ UNCHANGED backend

LauncherMoves ==
  /\ LauncherPicks \/ LauncherFinds \/ LauncherRetries \/ LauncherFails
  /\ UNCHANGED <<desktop, local, url, ping, recovered, outcome, settled, timeUp>>

\* The backend that was started answers, and has a model or none.
BackendMoves ==
  /\ \/ launcher = "booting" /\ backend[told].state = "none" /\ Answers(told, "loading")
     \/ \E p \in Ports, state \in {"idle", "ready", "error"} :
          backend[p].state = "loading" /\ Answers(p, state)
  /\ UNCHANGED <<launcher, told, desktop, local, url, ping, recovered, outcome, settled, timeUp>>

TimePasses ==
  /\ ~timeUp /\ timeUp' = TRUE
  /\ UNCHANGED <<backend, launcher, told, desktop, local, url, ping, recovered, outcome, settled>>

-----------------------------------------------------------------------------
(* The client. *)

Waiting == outcome = "waiting"

Ping ==
  /\ Waiting /\ ping.at = "none" /\ ~timeUp
  /\ ping' = [at |-> "read", state |-> backend[url].state, remote |-> backend[url].remote]
  /\ UNCHANGED <<backend, launcher, told, desktop, local, url, recovered, outcome, settled, timeUp>>

\* A local client tells a backend in the server mode to leave it, once, and asks again.
Recovers == local /\ ping.remote /\ ~recovered /\ ping.state \notin {"none", "foreign"}

Recover ==
  /\ ping.at = "read" /\ Recovers
  /\ recovered' = TRUE
  /\ \/ ping' = NoPing /\ backend' = [backend EXCEPT ![url].remote = FALSE]
     \/ ping' = [ping EXCEPT !.remote = FALSE] /\ UNCHANGED backend
  /\ UNCHANGED <<launcher, told, desktop, local, url, outcome, settled, timeUp>>

\* A service that is not a backend of Ancia counts as one that failed.
Health(state) == IF state = "foreign" THEN "error" ELSE state

Ended(how) == outcome' = how /\ ping' = NoPing

\* A usable backend: open the application, after settings and chats are exchanged.
PingReady ==
  /\ ping.at = "read" /\ ~Recovers /\ Health(ping.state) \in {"ready", "idle"}
  /\ Ended("ready")
  /\ UNCHANGED <<backend, launcher, told, desktop, local, url, recovered, settled, timeUp>>

\* Where the client asks next: at the port of the launcher's snapshot, if that was read.
Followed(asked) == IF asked THEN told ELSE url

\* A failed one: go at once where the launcher points, if there is a launcher, it
\* could be asked and points elsewhere; else give up.
PingError ==
  /\ ping.at = "read" /\ ~Recovers /\ Health(ping.state) = "error"
  /\ \E asked \in {FALSE, desktop} :
       IF Followed(asked) # url THEN url' = Followed(asked) /\ ping' = NoPing /\ UNCHANGED outcome
       ELSE Ended("failed") /\ UNCHANGED url
  /\ UNCHANGED <<backend, launcher, told, desktop, local, recovered, settled, timeUp>>

\* No answer: follow the launcher, and give up when it gave up.
PingFails ==
  /\ ping.at = "read" /\ ping.state = "none"
  /\ \E asked \in {FALSE, desktop} :
       /\ url' = Followed(asked)
       /\ IF asked /\ launcher = "error" THEN Ended("failed")
          ELSE ping' = NoPing /\ UNCHANGED outcome
  /\ UNCHANGED <<backend, launcher, told, desktop, local, recovered, settled, timeUp>>

PingLoading ==
  /\ ping.at = "read" /\ ~Recovers /\ ping.state = "loading"
  /\ ping' = NoPing
  /\ UNCHANGED <<backend, launcher, told, desktop, local, url, recovered, outcome, settled, timeUp>>

\* Faulty variant: the client waits for the launcher however long it takes.
GivesUpFaulty == timeUp /\ launcher \in {"ready", "error"}

GivesUp == timeUp

TimeUp ==
  /\ Waiting /\ ping.at = "none" /\ GivesUp
  /\ Ended("failed")
  /\ UNCHANGED <<backend, launcher, told, desktop, local, url, recovered, settled, timeUp>>

\* Settings are read and written, chats are read; failures are passed over.
Settles ==
  /\ outcome = "ready" /\ ~settled
  /\ settled' = TRUE
  /\ UNCHANGED <<backend, launcher, told, desktop, local, url, ping, recovered, outcome, timeUp>>

StartClient ==
  Ping \/ Recover \/ PingReady \/ PingError \/ PingFails \/ PingLoading \/ TimeUp \/ Settles

StartNext == StartClient \/ LauncherMoves \/ BackendMoves \/ TimePasses

\* The client's own steps are taken, and time passes; nothing is asked of the backend.
StartFairness == WF_startVars(StartClient) /\ WF_startVars(TimePasses)

StartSpec == StartInit /\ [][StartNext]_startVars /\ StartFairness

-----------------------------------------------------------------------------
\* The application opens only on a backend that serves, and a local client only on
\* a local one, unless the backend was told before to leave the server mode.
OpensOnTheBackend ==
  outcome = "ready" => /\ backend[url].state \in {"ready", "idle"}
                       /\ local /\ backend[url].remote => recovered

\* The start fails only when time is up, when the launcher of the desktop gave up,
\* or when what answers where the client asks is no backend or a failed one, though
\* the launcher may point elsewhere by then.
FailsForCause ==
  outcome = "failed" => \/ timeUp
                        \/ desktop /\ launcher = "error"
                        \/ Health(backend[url].state) = "error"

\* The start ends: the window opens on the application or on its failure,
\* whatever the launcher and the backend do, and though a wrong service or a
\* wrong mode makes the client ask again at once.
StartEnds == outcome # "onboarding" ~> (outcome = "failed" \/ settled)
=============================================================================
