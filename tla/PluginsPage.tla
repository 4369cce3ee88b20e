------------------------------ MODULE PluginsPage ------------------------------
(***************************************************************************)
(* The page of the plugins (src/src/plugins): the copy it shows of what    *)
(* the backend keeps of the plugins and of the rules of their use, the     *)
(* updates a user asks for, and the reload that follows each of them.      *)
(*                                                                         *)
(* A reload asks three questions at once and the answers may tell of       *)
(* different moments; then it asks for the scripts with which the enabled  *)
(* plugins draw their tools.  A reload asked for while another one runs is *)
(* dropped, so the page may be behind the backend until the next one:      *)
(* behind is a history variable that says when.                            *)
(*                                                                         *)
(* A plugin, a site of the list of sites and the rule for unknown sites    *)
(* each have a rule in one function; what the backend refuses, loses or    *)
(* answers late is an outcome of the request.                              *)
(***************************************************************************)
EXTENDS Naturals, TLC

CONSTANTS Plugins,    \* the plugins of the registry
          Policies,   \* what a rule may say: of allow, ask and deny
          Updates,    \* the updates that can be under way at a time
          MaxActs     \* bound: what the user does on the page

Site == "site"
Unknown == "unknown"
Ruled == Plugins \cup {Site, Unknown}

VARIABLES kept,       \* what the backend keeps: plugins and rules
          page,       \* what the page shows of it
          reload,     \* the reload under way
          update,     \* the updates under way
          modal,      \* the window with the permissions of one plugin
          scripts,    \* the scripts of the plugins: in the page, running, drawing
          behind,     \* a reload was dropped or failed, or an answer lost, since the last began
          acts

pluginVars == <<kept, page, reload, update, modal, scripts, behind, acts>>

Nothing == [x \in {} |-> x]
NoReload == [at |-> "none", list |-> Nothing, registry |-> Nothing, rules |-> Nothing]
NoModal == [open |-> FALSE, plugin |-> Unknown, choice |-> "allow", saving |-> FALSE]
Idle == [at |-> "idle", kind |-> "none", change |-> Nothing]

\* A change of the plugins in `on and of the rules in `rules; the rest stays.
Change(on, rules) == [on |-> on, rule |-> rules]
Changed(s, c) == [on |-> c.on @@ s.on, rule |-> c.rule @@ s.rule]

Loading == reload.at # "none"
Installed == {p \in Plugins : page.on[p] # "absent"}

PluginsTypeOK ==
  /\ {kept, page} \subseteq [on : [Plugins -> {"absent", "off", "on"}],
                             rule : [Ruled -> Policies \cup {"none"}]]
  /\ reload.at \in {"none", "asked", "scripts"}
  /\ \A u \in Updates : update[u].at \in {"idle", "asked", "served", "refused", "lost", "reloading"}
  /\ modal.plugin \in Plugins \cup {Unknown} /\ modal.choice \in Policies \cup {"none"}
  /\ scripts \in [here : SUBSET Plugins, running : SUBSET Plugins,
                  drawing : SUBSET Plugins, late : SUBSET Plugins]

PluginsInit ==
  /\ kept = [on |-> [p \in Plugins |-> "on"],
             rule |-> [x \in Ruled |-> IF x = Unknown THEN "deny" ELSE "allow"]]
  /\ page = [on |-> [p \in Plugins |-> "absent"],
             rule |-> [x \in Ruled |-> IF x = Unknown THEN "deny" ELSE "none"]]
  /\ reload = [NoReload EXCEPT !.at = "asked"]
  /\ update = [u \in Updates |-> Idle]
  /\ modal = NoModal
  /\ scripts = [here |-> {}, running |-> {}, drawing |-> {}, late |-> {}]
  /\ behind = FALSE /\ acts = 0

-----------------------------------------------------------------------------
(* Reloading. *)

\* Faulty variant: nobody remembers to ask again.
ReloadForgotten ==
  /\ reload' = reload
  /\ behind' = behind

\* A reload begins, unless one is under way.
Reload ==
  /\ reload' = IF Loading THEN reload ELSE [NoReload EXCEPT !.at = "asked"]
  /\ behind' = Loading

\* The backend answers one of the three questions; only the list must succeed.
ReloadServed ==
  /\ reload.at = "asked"
  /\ \E question \in {"list", "registry", "rules"}, answer \in {kept, <<>>} :
       /\ reload[question] = Nothing
       /\ question = "list" => answer # <<>>
       /\ reload' = [reload EXCEPT ![question] = [answer |-> answer]]
  /\ UNCHANGED <<kept, page, update, modal, scripts, behind, acts>>

\* What the answers tell: the registry before the list, the rules before the list's own.
Told ==
  LET Or(question) == IF reload[question].answer = <<>> THEN reload.list.answer
                                                        ELSE reload[question].answer
  IN [on |-> Or("registry").on, rule |-> Or("rules").rule]

AllTold == \A question \in {"list", "registry", "rules"} : reload[question] # Nothing

ReloadApplied ==
  /\ reload.at = "asked" /\ AllTold
  /\ page' = Told
  /\ reload' = [reload EXCEPT !.at = "scripts"]
  /\ UNCHANGED <<kept, update, modal, scripts, behind, acts>>

\* Whoever waited for the reload goes on.
Woken == [u \in Updates |-> IF update[u].at = "reloading" THEN Idle ELSE update[u]]
SaveEnds == \E u \in Updates : update[u].at = "reloading" /\ update[u].kind = "modal"

ReloadFails ==
  /\ reload.at = "asked" /\ reload.list = Nothing
  /\ reload' = NoReload /\ update' = Woken /\ behind' = TRUE
  /\ modal' = IF SaveEnds THEN [modal EXCEPT !.saving = FALSE] ELSE modal
  /\ UNCHANGED <<kept, page, scripts, acts>>

\* A script taken from the page while it loads runs all the same.
Synced(active) ==
  [here |-> active, running |-> scripts.running \cup active,
   drawing |-> scripts.drawing \cap active,
   late |-> (scripts.late \cup (scripts.running \ active)) \ active]

SyncScripts(active) == scripts' = Synced(active)

\* The window that is open is drawn again or, when its plugin is gone, closed.
Redrawn ==
  IF ~modal.open THEN modal
  ELSE IF reload.registry.answer = <<>> /\ page.on[modal.plugin] = "absent" THEN NoModal
  ELSE [modal EXCEPT !.choice = page.rule[modal.plugin]]

ReloadEnds ==
  /\ reload.at = "scripts"
  /\ \/ SyncScripts({p \in Plugins : kept.on[p] = "on"})
     \/ UNCHANGED scripts
  /\ modal' = IF SaveEnds THEN [Redrawn EXCEPT !.saving = FALSE] ELSE Redrawn
  /\ reload' = NoReload /\ update' = Woken
  /\ UNCHANGED <<kept, page, behind, acts>>

ScriptRuns ==
  \E p \in scripts.running :
    /\ scripts' = [scripts EXCEPT !.running = @ \ {p}, !.drawing = @ \cup {p}]
    /\ UNCHANGED <<kept, page, reload, update, modal, behind, acts>>

-----------------------------------------------------------------------------
(* Updates. *)

Ask(u, kind, change) ==
  /\ update[u].at = "idle"
  /\ update' = [update EXCEPT ![u] = [at |-> "asked", kind |-> kind, change |-> change]]

\* A button of a card; the cards give way to a notice while a reload runs.
Press(u) ==
  /\ ~Loading
  /\ \/ \E p \in Installed :
          \/ Ask(u, "card", Change(p :> IF page.on[p] = "on" THEN "off" ELSE "on", Nothing))
          \/ Ask(u, "card", Change(p :> "absent", Nothing))
     \/ \E p \in Plugins \ Installed : Ask(u, "card", Change(p :> "on", Nothing))
  /\ UNCHANGED modal

\* The rule of a site set, or taken from the list of sites.
PressSite(u) ==
  /\ \E policy \in Policies \cup {"none"} : Ask(u, "site", Change(Nothing, Site :> policy))
  /\ UNCHANGED modal

\* One rule for every installed plugin; one such update at a time.
PressForAll(u) ==
  /\ Installed # {} /\ \A v \in Updates : update[v].kind # "all"
  /\ \E policy \in Policies : Ask(u, "all", Change(Nothing, [p \in Installed |-> policy]))
  /\ UNCHANGED modal

PressUnknown(u) ==
  /\ \E policy \in {"allow", "deny"} \ {page.rule[Unknown]} :
       Ask(u, "unknown", Change(Nothing, Unknown :> policy))
  /\ UNCHANGED modal

OpenModal ==
  \E p \in Plugins :
    /\ p \in Installed /\ ~Loading
    /\ modal' = [open |-> TRUE, plugin |-> p, choice |-> page.rule[p], saving |-> FALSE]
    /\ UNCHANGED update

EditModal ==
  /\ modal.open
  /\ \E policy \in Policies \ {modal.choice} : modal' = [modal EXCEPT !.choice = policy]
  /\ UNCHANGED update

CloseModal == modal.open /\ modal' = NoModal /\ UNCHANGED update

\* Nothing is sent when nothing was changed.
SaveModal(u) ==
  /\ modal.open /\ ~modal.saving
  /\ IF modal.choice = page.rule[modal.plugin]
     THEN modal' = NoModal /\ UNCHANGED update
     ELSE /\ Ask(u, "modal", Change(Nothing, modal.plugin :> modal.choice))
          /\ modal' = [modal EXCEPT !.saving = TRUE]

PluginsUser ==
  /\ acts < MaxActs /\ acts' = acts + 1
  /\ \/ /\ \/ \E u \in Updates : Press(u) \/ PressSite(u) \/ PressForAll(u) \/ PressUnknown(u)
                              \/ SaveModal(u)
           \/ OpenModal \/ EditModal \/ CloseModal
        /\ UNCHANGED <<reload, behind>>
     \/ Reload /\ ~Loading /\ UNCHANGED <<update, modal>>
  /\ UNCHANGED <<kept, page, scripts>>

\* The backend does what it is asked, refuses, or does it and the answer is lost.
UpdateServed ==
  \E u \in Updates :
    /\ update[u].at = "asked"
    /\ \E outcome \in {"served", "refused", "lost"} :
         /\ kept' = IF outcome = "refused" THEN kept ELSE Changed(kept, update[u].change)
         /\ update' = [update EXCEPT ![u].at = outcome]
    /\ UNCHANGED <<page, reload, modal, scripts, behind, acts>>

\* A saved window closes whichever window is open, and the page is loaded again.
UpdateDone ==
  \E u \in Updates :
    /\ update[u].at = "served"
    /\ page' = IF update[u].kind = "unknown" THEN Changed(page, update[u].change) ELSE page
    /\ modal' = IF update[u].kind = "modal" THEN NoModal ELSE modal
    /\ update' = [update EXCEPT ![u] = IF Loading THEN Idle ELSE [@ EXCEPT !.at = "reloading"]]
    /\ Reload
    /\ UNCHANGED <<kept, scripts, acts>>

UpdateFails ==
  \E u \in Updates :
    /\ update[u].at \in {"refused", "lost"}
    /\ modal' = IF update[u].kind = "modal" THEN [modal EXCEPT !.saving = FALSE] ELSE modal
    /\ behind' = (behind \/ update[u].at = "lost")
    /\ update' = [update EXCEPT ![u] = Idle]
    /\ UNCHANGED <<kept, page, reload, scripts, acts>>

PluginsNext ==
  \/ ReloadServed \/ ReloadApplied \/ ReloadFails \/ ReloadEnds \/ ScriptRuns
  \/ PluginsUser \/ UpdateServed \/ UpdateDone \/ UpdateFails

PluginsSpec == PluginsInit /\ [][PluginsNext]_pluginVars

-----------------------------------------------------------------------------
PluginsQuiet == ~Loading /\ \A u \in Updates : update[u].at = "idle"

PageIsCurrent == PluginsQuiet /\ ~behind => page = kept
OnlyEnabledDraw == scripts.drawing \subseteq scripts.here \cup scripts.late

\* At rest the page shows what the backend keeps, unless a reload was dropped
\* or failed, or an answer was lost, since the last reload began: no order of
\* updates and of the three answers of a reload leaves an older value behind.
\* And a plugin that draws its tools is one the last answer named, unless its
\* script was still loading when the plugin was switched off.
PluginsPageIsTrue == PageIsCurrent /\ OnlyEnabledDraw
=============================================================================
