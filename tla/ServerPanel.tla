------------------------------ MODULE ServerPanel ------------------------------
(***************************************************************************)
(* The settings of the client and its session with a server                *)
(* (src/src/settings, src/src/app/runtimeConfigController.js): the form    *)
(* and the button that saves it, logging in and out, managing users, the   *)
(* test of a connection, and the refresh of the panel that shows who is    *)
(* logged in.                                                              *)
(*                                                                         *)
(* Every change of the configuration sets the client of the backend, draws *)
(* the form again and starts a refresh of the panel; a refresh asks for    *)
(* the rules of the server, for the session, for the users and for the     *)
(* audit log, and may itself change the configuration.  Nothing orders     *)
(* two refreshes but the revision of the audit log, and nothing keeps two  *)
(* tests of a connection from overlapping.                                 *)
(***************************************************************************)
EXTENDS Naturals, Bags, SequencesExt

CONSTANTS Users, Admin,   \* accounts; Admin is the one that administers
          NoUser,
          MaxRefreshes,   \* bound: refreshes under way when another is begun
          MaxSteps        \* bound: what the user does but edit the form, sessions that end

ASSUME PanelAssumption == Admin \in Users

Modes == {"local", "remote_client", "remote_server"}

VARIABLES sessions,   \* the users with a session the server knows
          config,     \* the configuration: mode, token (its user) and name shown
          client,     \* the token and the mode the requests are sent with
          form,       \* the mode in the form, whether its box for registrations says
                      \* something else than the configuration, whether its button is on
          action,     \* the login, logout, save or change of a user under way
          tests,      \* the tests of a connection under way, as they were begun
          refresh,    \* the refreshes under way: a bag, nothing tells two apart
          panel,      \* the mode the panel is drawn for, whether it manages the server
          audit,      \* the newest revision asked for, the one shown (0: none), and
                      \* as history the newest one ever shown
          crossed,    \* history: a test overlapped a change of the configuration or a test
          steps

panelVars == <<sessions, config, client, form, action, tests, refresh, panel, audit,
               crossed, steps>>

Refresh(mode) == [at |-> "config", mode |-> mode, me |-> NoUser, revision |-> 0]
Asking(revision) == [at |-> "audit", mode |-> "remote_server", me |-> NoUser,
                     revision |-> revision]
NoAction == [at |-> "idle", kind |-> "none", user |-> NoUser]

\* The refreshes under way.
Busy == BagToSet(refresh)

\* What the client is set to for a configuration, and the form drawn from one.
Configured(c) == [token |-> c.token, mode |-> c.mode]
Drawn(c) == [mode |-> c.mode, box |-> FALSE, button |-> FALSE]

PanelTypeOK ==
  /\ sessions \subseteq Users
  /\ config.mode \in Modes /\ {config.token, config.name} \subseteq Users \cup {NoUser}
  /\ form.mode \in Modes /\ form.button \in BOOLEAN
  /\ \A r \in Busy : r.at \in {"config", "me", "answered", "users", "audit"}
  /\ audit.shown <= audit.newest /\ Len(tests) <= MaxSteps

PanelInit ==
  /\ sessions = {}
  /\ \E mode \in Modes :
       /\ config = [mode |-> mode, token |-> NoUser, name |-> NoUser]
       /\ client = Configured(config)
       /\ form = Drawn(config)
       /\ panel = [mode |-> mode, manages |-> FALSE]
       /\ refresh = IF mode = "local" THEN EmptyBag ELSE SetToBag({Refresh(mode)})
  /\ action = NoAction /\ tests = <<>>
  /\ audit = [newest |-> 0, shown |-> 0, seen |-> 0]
  /\ crossed = FALSE /\ steps = 0

-----------------------------------------------------------------------------
(* Refreshing the panel. *)

\* n refreshes begin in a mode; in the local mode they end at once.
Begun(others, n, mode) ==
  IF mode = "local" THEN others ELSE others (+) [r \in {Refresh(mode)} |-> n]
Room(others, n, mode) == mode = "local" \/ BagCardinality(others) + n <= MaxRefreshes

\* The other refreshes, and what becomes of one.
Without(r) == refresh (-) SetToBag({r})
Becomes(r, next) == Without(r) (+) SetToBag({next})

\* The list of the audit log is emptied, whatever was asked for.
Emptied == [audit EXCEPT !.shown = 0]

\* In the local mode the panel is drawn, and the audit log emptied, at once.
Localized(mode) ==
  IF mode = "local" THEN panel' = [mode |-> mode, manages |-> FALSE] /\ audit' = Emptied
  ELSE UNCHANGED <<panel, audit>>

\* The form says something else than a configuration, and no save is under way.
Differs(f, c) == f.mode # c.mode \/ f.box
ButtonOn(f, c) == Differs(f, c) /\ action.kind # "save"

\* Faulty variant: the client keeps its old token.
ApplyUnsent(next, n) ==
  /\ Room(refresh, n, next.mode)
  /\ config' = next
  /\ client' = client
  /\ form' = Drawn(next)
  /\ refresh' = Begun(refresh, n, next.mode)
  /\ Localized(next.mode)
  /\ crossed' = (tests # <<>>)

\* A new configuration: the client is set, the form drawn again, n refreshes begin.
Apply(next, n) ==
  /\ Room(refresh, n, next.mode)
  /\ config' = next
  /\ client' = Configured(next)
  /\ form' = Drawn(next)
  /\ refresh' = Begun(refresh, n, next.mode)
  /\ Localized(next.mode)
  /\ crossed' = (tests # <<>>)

\* The rules cannot be read, or those of a server of another mode are: then the
\* box of the form that allows registrations has been set by them.
RefreshOffline(r) ==
  /\ r.at = "config"
  /\ \E box \in BOOLEAN : form' = [form EXCEPT !.box = box]
  /\ panel' = [mode |-> r.mode, manages |-> FALSE]
  /\ audit' = Emptied
  /\ refresh' = Without(r)
  /\ UNCHANGED <<sessions, config, client, action, tests, crossed, steps>>

\* The rules of the server are known and set the box of the form, but not its
\* button: who is asking is sent with the client's token.
AsksMe(r) ==
  /\ r.at = "config"
  /\ \E box \in BOOLEAN : form' = [form EXCEPT !.box = box]
  /\ refresh' = Becomes(r, [r EXCEPT !.at = "me", !.me = client.token])
  /\ UNCHANGED <<sessions, config, client, action, tests, panel, audit, crossed, steps>>

MeServed(r) ==
  /\ r.at = "me"
  /\ \E me \in {NoUser, r.me} :
       /\ me # NoUser => me \in sessions
       /\ refresh' = Becomes(r, [r EXCEPT !.at = "answered", !.me = me])
  /\ UNCHANGED <<sessions, config, client, form, action, tests, panel, audit, crossed, steps>>

\* Faulty variant: the name is set whether or not it is the one known.
RenamesAlways(me) == me # NoUser

\* The name of the session is new to the configuration.
Renames(me) == me # NoUser /\ config.name # me

\* The answer lets the panel manage the server.
Manages(r) == r.me = Admin /\ r.mode = "remote_server"

\* What a refresh does once it has the session, and then the users.
AfterMe(r) == IF Manages(r) THEN Becomes(r, [r EXCEPT !.at = "users"]) ELSE Without(r)

\* One who does not administer a server is shown no audit log of it; neither is
\* anyone whose name was set in a configuration that is local by now.
MeDone(r) ==
  /\ r.at = "answered"
  /\ panel' = [mode |-> r.mode, manages |-> Manages(r)]
  /\ IF Renames(r.me)
     THEN /\ config' = [config EXCEPT !.name = r.me]
          /\ client' = Configured(config)
          /\ form' = Drawn(config)
          /\ refresh' = Begun(AfterMe(r), 1, config.mode)
          /\ crossed' = (tests # <<>>)
     ELSE refresh' = AfterMe(r) /\ UNCHANGED <<config, client, form, crossed>>
  /\ audit' = IF (r.mode = "remote_server" /\ ~Manages(r))
                 \/ (Renames(r.me) /\ config.mode = "local")
              THEN Emptied ELSE audit
  /\ UNCHANGED <<sessions, action, tests, steps>>

\* The audit log is asked for in server mode only.
AsksAudit(others) ==
  IF config.mode = "remote_server"
  THEN /\ audit' = [audit EXCEPT !.newest = @ + 1]
       /\ refresh' = others (+) SetToBag({Asking(audit.newest + 1)})
       /\ UNCHANGED panel
  ELSE /\ audit' = Emptied
       /\ refresh' = others
       /\ panel' = [panel EXCEPT !.manages = FALSE]

\* The users are shown, or could not be read; then the audit log.
UsersDone(r) ==
  /\ r.at = "users"
  /\ AsksAudit(Without(r))
  /\ UNCHANGED <<sessions, config, client, form, action, tests, crossed, steps>>

\* Faulty variant: the last answer to arrive is shown.
AuditShownAnyhow(revision) == revision

\* Events of an audit that is not the newest are not shown.
AuditShown(revision) == IF revision = audit.newest THEN revision ELSE audit.shown

Latest(a, b) == IF a > b THEN a ELSE b

\* An audit log that could not be read empties the list, however old the question.
AuditDone(r) ==
  /\ r.at = "audit"
  /\ \/ audit' = [audit EXCEPT !.shown = AuditShown(r.revision),
                               !.seen = Latest(@, AuditShown(r.revision))]
     \/ audit' = Emptied
  /\ refresh' = Without(r)
  /\ UNCHANGED <<sessions, config, client, form, action, tests, panel, crossed, steps>>

RefreshStep ==
  \E r \in Busy : AsksMe(r) \/ MeServed(r) \/ MeDone(r) \/ UsersDone(r) \/ AuditDone(r)

-----------------------------------------------------------------------------
(* What the user does. *)

\* The controls follow what the panel shows, whatever the configuration is now.
CanLogIn == panel.mode # "local"
CanManage == panel.manages

BeginsAction(kind, u) ==
  /\ action' = [at |-> "asked", kind |-> kind, user |-> u]
  /\ UNCHANGED <<config, client, form, refresh, panel, audit, crossed>>

\* A login or a registration; a logout.
BeginsSession ==
  /\ CanLogIn
  /\ \/ \E u \in Users : BeginsAction("login", u)
     \/ BeginsAction("logout", client.token)

\* The first administrator.
BeginsBootstrap ==
  /\ panel.mode = "remote_server" /\ config.mode = "remote_server"
  /\ BeginsAction("bootstrap", Admin)

\* A user is created or changed; one that is blocked, or whose role changes,
\* loses its sessions.
BeginsChange ==
  /\ CanManage /\ config.mode = "remote_server"
  /\ \E u \in Users \cup {NoUser} : BeginsAction("user", u)

\* The form is saved; when an answer of the server has taken back what it said, the
\* button is only put right.
BeginsSave ==
  /\ form.button
  /\ IF Differs(form, config)
     THEN /\ action' = [at |-> "asked", kind |-> "save", user |-> NoUser]
          /\ Apply([config EXCEPT !.mode = form.mode], 1)
     ELSE /\ form' = [form EXCEPT !.button = FALSE]
          /\ UNCHANGED <<config, client, action, refresh, panel, audit, crossed>>

Begins ==
  /\ action.at = "idle"
  /\ BeginsSession \/ BeginsBootstrap \/ BeginsChange \/ BeginsSave
  /\ UNCHANGED <<sessions, tests>>

\* The mode is chosen, or the box is ticked.
EditsForm ==
  /\ \E edited \in {[form EXCEPT !.mode = mode] : mode \in Modes \ {form.mode}}
                  \cup {[form EXCEPT !.box = ~@]} :
       form' = [edited EXCEPT !.button = ButtonOn(edited, config)]
  /\ UNCHANGED <<sessions, config, client, action, tests, refresh, panel, audit, crossed, steps>>

\* The connection of the form is tested with the form's own mode, even during
\* another test: the client is then to be put back to what that one had set.
TestBegins ==
  /\ tests' = Append(tests, [mode |-> form.mode, before |-> client])
  /\ client' = [token |-> config.token, mode |-> form.mode]
  /\ UNCHANGED <<sessions, config, form, action, refresh, panel, audit, crossed>>

\* The button of the panel, and the filters of the audit log.
AsksAgain ==
  /\ CanManage /\ Room(refresh, 1, config.mode)
  /\ \/ refresh' = Begun(refresh, 1, config.mode) /\ Localized(config.mode)
     \/ AsksAudit(refresh)
  /\ UNCHANGED <<sessions, config, client, form, action, tests, crossed>>

PanelUser ==
  /\ steps < MaxSteps /\ steps' = steps + 1
  /\ Begins \/ TestBegins \/ AsksAgain

\* The server ends a session: it was closed by an administrator, or expired.
SessionEnds ==
  /\ steps < MaxSteps /\ steps' = steps + 1
  /\ \E u \in sessions : sessions' = sessions \ {u}
  /\ UNCHANGED <<config, client, form, action, tests, refresh, panel, audit, crossed>>

ActionServed ==
  /\ action.at = "asked"
  /\ \E outcome \in {"served", "refused"} :
       /\ action' = [action EXCEPT !.at = outcome]
       /\ outcome = "served" /\ action.kind = "user" => Admin \in sessions
       /\ sessions' = IF outcome = "refused" \/ action.kind = "save" THEN sessions
                      ELSE IF action.kind \in {"login", "bootstrap"}
                      THEN sessions \cup {action.user}
                      ELSE sessions \ {action.user}
  /\ UNCHANGED <<config, client, form, tests, refresh, panel, audit, crossed, steps>>

\* A login makes a local client remote, the first administrator one of a server.
LoginDone ==
  /\ action.kind \in {"login", "bootstrap"}
  /\ IF action.at = "refused"
     THEN UNCHANGED <<config, client, form, refresh, panel, audit, crossed>>
     ELSE Apply([config EXCEPT !.mode = IF action.kind = "bootstrap" \/ @ = "remote_server"
                                        THEN "remote_server" ELSE "remote_client",
                               !.token = action.user, !.name = action.user], 2)

\* A logout is applied even when it failed.
LogoutDone ==
  action.kind = "logout" /\ Apply([config EXCEPT !.token = NoUser, !.name = NoUser], 2)

\* The panel is read again, n times.
ReadAgain(n) ==
  /\ Room(refresh, n, config.mode)
  /\ refresh' = Begun(refresh, n, config.mode) /\ Localized(config.mode)

ChangeDone ==
  /\ action.kind = "user"
  /\ IF action.at = "served" THEN ReadAgain(1) ELSE UNCHANGED <<refresh, panel, audit>>
  /\ UNCHANGED <<config, client, form, crossed>>

ActionDone ==
  /\ action.at \in {"served", "refused"}
  /\ action' = NoAction
  /\ LoginDone \/ LogoutDone \/ ChangeDone
  /\ UNCHANGED <<sessions, tests, steps>>

\* The settings were stored by the backend, or were not.  The connection is checked
\* if the configuration says so, which sets the client again and, when it is there,
\* reads the panel once more; the save waits for the panel to be read.
SaveStored ==
  /\ action.kind = "save" /\ action.at \in {"served", "refused"}
  /\ action' = [action EXCEPT !.at = "stored"]
  /\ \/ ReadAgain(1) /\ UNCHANGED client
     \/ \E n \in 1..2 : ReadAgain(n) /\ client' = Configured(config)
  /\ UNCHANGED <<sessions, config, form, tests, crossed, steps>>

\* The button is right again.
SaveDone ==
  /\ action.at = "stored" /\ action' = NoAction
  /\ form' = [form EXCEPT !.button = Differs(form, config)]
  /\ UNCHANGED <<sessions, config, client, tests, refresh, panel, audit, crossed, steps>>

\* After a test the client is what it was when that test began.
TestRestores(i) == client' = tests[i].before

\* A test of a remote mode that finds its server has the panel read again.  One that
\* ends before a later one leaves the client to that one, which puts back its form.
TestDone ==
  \E i \in DOMAIN tests :
    /\ tests' = RemoveAt(tests, i)
    /\ TestRestores(i)
    /\ crossed' = (crossed \/ i # Len(tests))
    /\ \/ UNCHANGED <<refresh, panel, audit>>
       \/ tests[i].mode # "local" /\ ReadAgain(1)
    /\ UNCHANGED <<sessions, config, form, action, steps>>

PanelNext ==
  \/ RefreshStep \/ (\E r \in Busy : RefreshOffline(r))
  \/ PanelUser \/ EditsForm \/ SessionEnds \/ ActionServed \/ ActionDone \/ SaveStored \/ SaveDone
  \/ TestDone

\* Every request of a refresh is answered in the end; a login or a test may hang.
PanelFairness == WF_panelVars(RefreshStep)

PanelSpec == PanelInit /\ [][PanelNext]_panelVars /\ PanelFairness

-----------------------------------------------------------------------------
\* The refreshes of the panel come to rest: one that changes the configuration
\* starts another, and that one finds nothing left to change.
RefreshesEnd == <>[](Busy = {})

\* The events on the screen are the newest that ever were: an older question that
\* is answered late never brings its events back, though one that fails late empties
\* the list.
NewerAuditStays == audit.shown \in {0, audit.seen}

ClientIsConfigured == tests = <<>> /\ ~crossed => client = Configured(config)
SaveButtonFits ==
  /\ action.kind = "save" => ~form.button
  /\ form.mode # config.mode /\ action.kind # "save" => form.button

\* Configuration, form and client agree.  Once no test is under way, requests are
\* sent with the token and to the server of the configuration, unless a change of
\* the configuration or another test came between the begin of a test and its end:
\* the end of a test takes back whatever was set since it began.  A form of another
\* mode than the configuration's can be saved unless a save is under way, and then
\* not; whether the box for registrations differs the button may get wrong, since
\* the rules of the server set that box alone.
SettingsAgree == ClientIsConfigured /\ SaveButtonFits
=============================================================================
