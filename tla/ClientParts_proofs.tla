--------------------------- MODULE ClientParts_proofs ---------------------------
(***************************************************************************)
(* Proofs about five parts of the web client, each for its own             *)
(* specification, and side by side for the one that is model-checked.      *)
(***************************************************************************)
EXTENDS ClientParts, HistoryCompression_proofs

--------------------------------------------------------------------------------
(* The page of the plugins: any plugins, policies and number of updates.   *)

Questions == {"list", "registry", "rules"}

\* What the backend did and the page was not told of, or never will be.
Untold == \E u \in Updates : update[u].at \in {"served", "lost"}

\* What s says is what the backend keeps, unless the page is behind or will be.
Current(s) == s = kept \/ Untold \/ behind

PluginRecords ==
  /\ kept = [on |-> kept.on, rule |-> kept.rule]
  /\ reload = [at |-> reload.at, list |-> reload.list, registry |-> reload.registry,
               rules |-> reload.rules]
  /\ update = [u \in Updates |-> [at |-> update[u].at, kind |-> update[u].kind,
                                  change |-> update[u].change]]

\* An answer of the reload under way is current, or missing where one may be.
ReloadInv ==
  /\ reload.at = "asked" =>
       \A question \in Questions :
         \/ reload[question] = Nothing
         \/ /\ reload[question] = [answer |-> reload[question].answer]
            /\ \/ reload[question].answer = <<>> /\ question # "list"
               \/ Current(reload[question].answer)
  /\ reload.at # "asked" => Current(page)

\* A script that runs belongs to a plugin the last answer named, or is late.
ScriptInv ==
  /\ scripts = [here |-> scripts.here, running |-> scripts.running,
                drawing |-> scripts.drawing, late |-> scripts.late]
  /\ scripts.running \cup scripts.drawing \subseteq scripts.here \cup scripts.late

PluginsInv == PluginRecords /\ ReloadInv /\ ScriptInv

--------------------------------------------------------------------------------
LEMMA PluginsInitInv == PluginsInit => PluginsInv
<1> SUFFICES ASSUME PluginsInit PROVE PluginsInv
  OBVIOUS
<1>1. PluginRecords /\ reload.at = "asked" /\ \A question \in Questions : reload[question] = Nothing
  BY DEF PluginsInit, PluginRecords, NoReload, Idle, Questions
<1>2. ScriptInv
  BY DEF PluginsInit, ScriptInv
<1> QED
  BY <1>1, <1>2 DEF PluginsInv, ReloadInv

\* Steps that the backend, the reload and the scripts have no part in.
LEMMA AsideKeepsPlugins ==
  ASSUME PluginsInv, UNCHANGED <<kept, page, reload, scripts>>, behind => behind',
         update' = [u \in Updates |-> [at |-> update'[u].at, kind |-> update'[u].kind,
                                       change |-> update'[u].change]],
         Untold => Untold' \/ behind'
  PROVE  PluginsInv'
<1>1. \A s : Current(s) => Current(s)'
  BY DEF Current
<1> QED
  BY <1>1 DEF PluginsInv, PluginRecords, ReloadInv, ScriptInv

LEMMA ReloadKeeps ==
  ASSUME PluginsInv, ReloadServed \/ ReloadApplied \/ ReloadFails \/ ReloadEnds
  PROVE  PluginsInv'
<1> USE DEF PluginsInv
<1>1. CASE ReloadServed
  <2>1. PICK question \in Questions, answer \in {kept, <<>>} :
          /\ reload[question] = Nothing
          /\ question = "list" => answer # <<>>
          /\ reload' = [reload EXCEPT ![question] = [answer |-> answer]]
    BY <1>1 DEF ReloadServed, Questions
  <2>2. UNCHANGED <<kept, page, update, scripts, behind>> /\ reload.at = "asked"
    BY <1>1 DEF ReloadServed
  <2>3. \A s : Current(s)' <=> Current(s)
    BY <2>2 DEF Current, Untold
  <2>4. PluginRecords' /\ reload'.at = "asked"
    BY <2>1, <2>2 DEF PluginRecords, Questions
  <2>5. ReloadInv'
    <3> SUFFICES ASSUME NEW q \in Questions
                 PROVE  \/ reload'[q] = Nothing
                        \/ /\ reload'[q] = [answer |-> reload'[q].answer]
                           /\ \/ reload'[q].answer = <<>> /\ q # "list"
                              \/ Current(reload'[q].answer)
      BY <2>3, <2>4 DEF ReloadInv
    <3>1. CASE q = question
      <4>1. reload'[q] = [answer |-> answer]
        BY <2>1, <3>1 DEF PluginRecords, Questions
      <4> QED
        BY <2>1, <3>1, <4>1 DEF Current
    <3>2. CASE q # question
      <4>1. reload'[q] = reload[q]
        BY <2>1, <3>2 DEF PluginRecords, Questions
      <4> QED
        BY <2>2, <4>1 DEF ReloadInv
    <3> QED
      BY <3>1, <3>2
  <2> QED
    BY <2>2, <2>4, <2>5 DEF ScriptInv
<1>2. CASE ReloadApplied
  <2>1. UNCHANGED <<kept, update, scripts, behind>> /\ reload.at = "asked"
    BY <1>2 DEF ReloadApplied
  <2>2. page' = Told /\ reload' = [reload EXCEPT !.at = "scripts"] /\ AllTold
    BY <1>2 DEF ReloadApplied
  <2>3. \A s : Current(s)' <=> Current(s)
    BY <2>1 DEF Current, Untold
  <2>4. Current(Told)
    <3>1. Nothing # [answer |-> <<>>]
      BY DEF Nothing
    <3>2. Current(reload.list.answer)
      BY <2>1, <2>2 DEF AllTold, ReloadInv, Questions
    <3>3. reload.registry.answer = <<>> \/ Current(reload.registry.answer)
      BY <2>1, <2>2 DEF AllTold, ReloadInv, Questions
    <3>4. reload.rules.answer = <<>> \/ Current(reload.rules.answer)
      BY <2>1, <2>2 DEF AllTold, ReloadInv, Questions
    <3>5. CASE ~Untold /\ ~behind
      <4>1. Told = [on |-> kept.on, rule |-> kept.rule]
        BY <3>2, <3>3, <3>4, <3>5 DEF Current, Told
      <4> QED
        BY <4>1 DEF PluginRecords, Current
    <3> QED
      BY <3>5 DEF Current
  <2> QED
    BY <2>1, <2>2, <2>3, <2>4 DEF PluginRecords, ReloadInv, ScriptInv
<1>3. Woken = [u \in Updates |-> [at |-> Woken[u].at, kind |-> Woken[u].kind,
                                  change |-> Woken[u].change]]
  BY DEF PluginRecords, Woken, Idle
<1>4. CASE ReloadFails
  BY <1>3, <1>4 DEF ReloadFails, PluginRecords, ReloadInv, ScriptInv, NoReload, Current
<1>5. CASE ReloadEnds
  <2>1. UNCHANGED <<kept, page, behind>> /\ reload' = NoReload /\ update' = Woken
        /\ reload.at = "scripts"
    BY <1>5 DEF ReloadEnds
  <2>2. Untold => Untold'
    BY <2>1 DEF Untold, Woken
  <2>3. PluginRecords' /\ ReloadInv'
    BY <1>3, <2>1, <2>2 DEF PluginRecords, ReloadInv, NoReload, Current
  <2>4. ScriptInv'
    <3>1. scripts' = scripts \/ \E active : SyncScripts(active)
      BY <1>5 DEF ReloadEnds
    <3>2. ASSUME NEW active, SyncScripts(active) PROVE ScriptInv'
      BY <3>2 DEF ScriptInv, SyncScripts, Synced
    <3> QED
      BY <3>1, <3>2 DEF ScriptInv
  <2> QED
    BY <2>3, <2>4
<1> QED
  BY <1>1, <1>2, <1>4, <1>5

LEMMA ScriptRunsKeeps ==
  ASSUME PluginsInv, ScriptRuns
  PROVE  PluginsInv'
<1>1. \A s : Current(s)' <=> Current(s)
  BY DEF ScriptRuns, Current, Untold
<1>2. ScriptInv'
  BY DEF PluginsInv, ScriptInv, ScriptRuns
<1> QED
  BY <1>1, <1>2 DEF PluginsInv, PluginRecords, ReloadInv, ScriptRuns

\* A reload that begins has no answers yet; one that is dropped leaves the page behind.
LEMMA ReloadBegins ==
  ASSUME PluginsInv, Reload, UNCHANGED <<kept, scripts>>,
         update' = [u \in Updates |-> [at |-> update'[u].at, kind |-> update'[u].kind,
                                       change |-> update'[u].change]]
  PROVE  PluginsInv'
<1>1. CASE Loading
  BY <1>1 DEF Reload, PluginsInv, PluginRecords, ReloadInv, ScriptInv, Current
<1>2. CASE ~Loading
  <2>1. reload' = [at |-> "asked", list |-> Nothing, registry |-> Nothing, rules |-> Nothing]
    BY <1>2 DEF Reload, NoReload
  <2> QED
    BY <2>1 DEF PluginsInv, PluginRecords, ReloadInv, ScriptInv, Questions
<1> QED
  BY <1>1, <1>2

LEMMA UserKeepsPlugins ==
  ASSUME PluginsInv, PluginsUser
  PROVE  PluginsInv'
<1>1. UNCHANGED <<kept, page, scripts>>
  BY DEF PluginsUser
<1>2. CASE Reload /\ UNCHANGED update
  BY <1>1, <1>2, ReloadBegins DEF PluginsInv, PluginRecords
<1>3. CASE UNCHANGED <<reload, behind>> /\ UNCHANGED update
  BY <1>1, <1>3, AsideKeepsPlugins DEF PluginsInv, PluginRecords, Untold
<1>4. ASSUME NEW u \in Updates, NEW kind, NEW change, Ask(u, kind, change),
             UNCHANGED <<reload, behind>>
      PROVE  PluginsInv'
  <2>1. update' = [v \in Updates |-> [at |-> update'[v].at, kind |-> update'[v].kind,
                                       change |-> update'[v].change]]
    BY <1>4 DEF Ask, PluginsInv, PluginRecords
  <2>2. Untold => Untold'
    BY <1>4 DEF Ask, PluginsInv, PluginRecords, Untold
  <2> QED
    BY <1>1, <1>4, <2>1, <2>2, AsideKeepsPlugins
<1>5. ASSUME NEW u \in Updates, Press(u) \/ PressSite(u) \/ PressForAll(u) \/ PressUnknown(u),
             UNCHANGED <<reload, behind>>
      PROVE  PluginsInv'
  <2>1. \E kind, change : Ask(u, kind, change)
    BY <1>5 DEF Press, PressSite, PressForAll, PressUnknown
  <2> QED
    BY <1>4, <1>5, <2>1
<1>6. ASSUME NEW u \in Updates, SaveModal(u), UNCHANGED <<reload, behind>>
      PROVE  PluginsInv'
  <2>1. UNCHANGED update \/ \E kind, change : Ask(u, kind, change)
    BY <1>6 DEF SaveModal
  <2> QED
    BY <1>3, <1>4, <1>6, <2>1
<1>7. (OpenModal \/ EditModal \/ CloseModal) => UNCHANGED update
  BY DEF OpenModal, EditModal, CloseModal
<1> QED
  BY <1>2, <1>3, <1>5, <1>6, <1>7 DEF PluginsUser

LEMMA UpdatesKeepPlugins ==
  ASSUME PluginsInv, UpdateServed \/ UpdateDone \/ UpdateFails
  PROVE  PluginsInv'
<1> USE DEF PluginsInv
<1>1. CASE UpdateServed
  <2>1. PICK u \in Updates, how \in {"served", "refused", "lost"} :
          /\ update[u].at = "asked"
          /\ kept' = IF how = "refused" THEN kept ELSE Changed(kept, update[u].change)
          /\ update' = [update EXCEPT ![u].at = how]
          /\ UNCHANGED <<page, reload, scripts, behind>>
    BY <1>1 DEF UpdateServed
  <2>2. update' = [v \in Updates |-> [at |-> update'[v].at, kind |-> update'[v].kind,
                                       change |-> update'[v].change]]
    BY <2>1 DEF PluginRecords
  <2>3. update'[u].at = how /\ \A v \in Updates \ {u} : update'[v].at = update[v].at
    BY <2>1 DEF PluginRecords
  <2>4. CASE how = "refused"
    <3>1. Untold => Untold'
      BY <2>1, <2>3 DEF Untold
    <3> QED
      BY <2>1, <2>2, <2>4, <3>1, AsideKeepsPlugins
  <2>5. CASE how # "refused"
    <3>1. Untold'
      BY <2>3, <2>5 DEF Untold
    <3>2. kept' = [on |-> kept'.on, rule |-> kept'.rule]
      BY <2>1, <2>5 DEF Changed
    <3> QED
      BY <2>1, <2>2, <3>1, <3>2 DEF PluginRecords, ReloadInv, ScriptInv, Current
  <2> QED
    BY <2>4, <2>5
<1>2. CASE UpdateDone
  <2>1. PICK u \in Updates :
          /\ update' = [update EXCEPT ![u] = IF Loading THEN Idle ELSE [@ EXCEPT !.at = "reloading"]]
          /\ Reload
          /\ UNCHANGED <<kept, scripts>>
    BY <1>2 DEF UpdateDone
  <2>2. update' = [v \in Updates |-> [at |-> update'[v].at, kind |-> update'[v].kind,
                                       change |-> update'[v].change]]
    BY <2>1 DEF PluginRecords, Idle
  <2> QED
    BY <2>1, <2>2, ReloadBegins
<1>3. CASE UpdateFails
  <2>1. PICK u \in Updates :
          /\ update[u].at \in {"refused", "lost"}
          /\ behind' = (behind \/ update[u].at = "lost")
          /\ update' = [update EXCEPT ![u] = Idle]
          /\ UNCHANGED <<kept, page, reload, scripts>>
    BY <1>3 DEF UpdateFails
  <2>2. update' = [v \in Updates |-> [at |-> update'[v].at, kind |-> update'[v].kind,
                                       change |-> update'[v].change]]
    BY <2>1 DEF PluginRecords, Idle
  <2>3. Untold => Untold' \/ behind'
    BY <2>1 DEF Untold, PluginRecords
  <2> QED
    BY <2>1, <2>2, <2>3, AsideKeepsPlugins
<1> QED
  BY <1>1, <1>2, <1>3

LEMMA PluginsStep == PluginsInv /\ [PluginsNext]_pluginVars => PluginsInv'
<1> SUFFICES ASSUME PluginsInv, [PluginsNext]_pluginVars PROVE PluginsInv'
  OBVIOUS
<1>1. CASE UNCHANGED pluginVars
  BY <1>1, AsideKeepsPlugins DEF pluginVars, PluginsInv, PluginRecords, Untold
<1> QED
  BY <1>1, ReloadKeeps, ScriptRunsKeeps, UserKeepsPlugins, UpdatesKeepPlugins DEF PluginsNext

LEMMA PluginsInvariant == PluginsInit /\ [][PluginsNext]_pluginVars => []PluginsInv
BY PluginsInitInv, PluginsStep, PTL

LEMMA PluginsAnyhow == PluginsInit /\ [][PluginsNext]_pluginVars => []PluginsPageIsTrue
<1>1. PluginsInv => PluginsPageIsTrue
  <2> SUFFICES ASSUME PluginsInv PROVE PluginsPageIsTrue
    OBVIOUS
  <2>1. PageIsCurrent
    BY DEF PageIsCurrent, PluginsQuiet, Loading, PluginsInv, ReloadInv, Current, Untold
  <2>2. OnlyEnabledDraw
    BY DEF OnlyEnabledDraw, PluginsInv, ScriptInv
  <2> QED
    BY <2>1, <2>2 DEF PluginsPageIsTrue
<1> QED
  BY <1>1, PluginsInvariant, PTL

\* Once nothing is under way and the page was told of every change, it shows what
\* the backend keeps, and only enabled plugins draw (plugins.js): in whatever order
\* reloads, scripts, presses and the answers to them come.
THEOREM PageOfPluginsIsTrue == PluginsSpec => []PluginsPageIsTrue
BY PluginsAnyhow, PTL DEF PluginsSpec

--------------------------------------------------------------------------------
(* The page of the models: any catalog, limits, presets and input.         *)

Params == [tokens : Nat, context : Nat]
Statuses == {"none", "idle", "loading", "ready", "error"}
Served == [selected : Models, status : Statuses, loads : BOOLEAN, params : [Models -> Params]]

\* Parameters that the backend keeps as they are for model m.
Kept(p, m) == /\ p.tokens \in MinTokens..TokensLimit /\ p.tokens <= p.context
              /\ p.context \in MinContext..MaxContext[m]

\* An update that leaves parameters of m which fit such that they still do: one
\* that says nothing of the context must suit the smallest.
Sendable(new, m) ==
  /\ new.tokens # Blank
  /\ IF new.context = Blank
     THEN new.tokens \in MinTokens..TokensLimit /\ new.tokens <= MinContext
     ELSE Kept(new, m)

ServedInv == /\ {served, list} \subseteq Served
             /\ fetch.at = "answered" => fetch.answer \in Served
             /\ \A m \in Models : Kept(served.params[m], m)

\* What the window says was capped when it was typed.
WindowInv ==
  /\ window \in [model : Models \cup {"none"}, tokens : Nat, context : Nat, saving : BOOLEAN]
  /\ window.model # "none" => window.tokens <= TokensCap(window)

Requested ==
  [at : {"idle", "asked", "served", "refused", "lost"}, model : Models \cup {"none"},
   kind : {"none", "select", "load", "unload", "delete", "params"}, params : Params]

RequestInv ==
  /\ request \in [Requests -> Requested]
  /\ \A r \in Requests :
       request[r].at = "asked" =>
         /\ request[r].model \in Models
         /\ request[r].kind = "params" => Sendable(request[r].params, request[r].model)

ModelsInv == ServedInv /\ WindowInv /\ RequestInv

--------------------------------------------------------------------------------
(* Arithmetic of the window. *)

LEMMA ClampBounds ==
  ASSUME NEW v \in Nat, NEW low \in Nat, NEW high \in Nat, low <= high
  PROVE  Clamp(v, low, high) \in low..high
BY DEF Clamp

LEMMA ModelLimits ==
  ASSUME NEW m \in Models
  PROVE  /\ MaxContext[m] \in Nat /\ MinContext <= MaxContext[m] /\ MaxContext[m] < Blank
         /\ TokensMax(m) \in MinTokens..TokensLimit
BY ModelsAssumption DEF TokensMax, ContextMax, Clamp

\* With a window in which something is typed, the cap lies between the limits.
LEMMA CapBounds ==
  ASSUME NEW w, w.model \in Models, w.context \in Nat
  PROVE  TokensCap(w) \in MinTokens..TokensLimit
<1> DEFINE m == w.model
           low == Clamp(Number(w.context), MinContext, ContextMax(m))
<1>1. Number(w.context) \in Nat
  BY DEF Number
<1>2. low \in MinContext..MaxContext[m]
  BY <1>1, ModelLimits, ClampBounds, ModelsAssumption DEF ContextMax
<1>3. TokensMax(m) \in MinTokens..TokensLimit
  BY ModelLimits
<1>4. Clamp(low, MinTokens, TokensMax(m)) \in MinTokens..TokensMax(m)
  BY <1>2, <1>3, ClampBounds, ModelLimits, ModelsAssumption
<1> QED
  BY <1>3, <1>4, ModelsAssumption DEF TokensCap

\* What the window keeps of an input is a window again, and capped.
LEMMA CappedWindow ==
  ASSUME NEW w \in [model : Models, tokens : Nat, context : Nat, saving : BOOLEAN]
  PROVE  /\ Capped(w) \in [model : Models, tokens : Nat, context : Nat, saving : BOOLEAN]
         /\ Capped(w).tokens <= TokensCap(Capped(w))
<1>1. TokensCap(w) \in MinTokens..TokensLimit
  BY CapBounds
<1>2. TokensCap(Capped(w)) = TokensCap(w)
  BY DEF TokensCap, Capped
<1>3. Number(w.tokens) \in Nat
  BY DEF Number
<1>4. Clamp(Number(w.tokens), MinTokens, TokensCap(w)) \in MinTokens..TokensCap(w)
  BY <1>1, <1>3, ModelsAssumption DEF Clamp
<1> QED
  BY <1>1, <1>2, <1>4, ModelsAssumption DEF Capped

\* A save sends an update that is safe.
LEMMA SavesFit ==
  ASSUME NEW w \in [model : Models, tokens : Nat, context : Nat, saving : BOOLEAN],
         w.tokens <= TokensCap(w)
  PROVE  ToSave(w) \in Params /\ Sendable(ToSave(w), w.model)
<1> DEFINE m == w.model
           context == Clamp(w.context, MinContext, ContextMax(m))
           limit == IF w.context = Blank THEN TokensMax(m)
                    ELSE Clamp(context, MinTokens, TokensMax(m))
<1>1. /\ MaxContext[m] \in Nat /\ MinContext <= MaxContext[m] /\ MaxContext[m] < Blank
      /\ TokensMax(m) \in MinTokens..TokensLimit
  BY ModelLimits
<1>2. TokensCap(w) \in MinTokens..TokensLimit
  BY CapBounds
<1>3. w.tokens # Blank
  BY <1>2, ModelsAssumption
<1>4. context \in MinContext..MaxContext[m]
  BY <1>1, ClampBounds, ModelsAssumption DEF ContextMax
<1>5. limit \in MinTokens..TokensMax(m) /\ (w.context # Blank => limit <= context)
  BY <1>1, <1>4, ModelsAssumption DEF Clamp
<1>6. Clamp(w.tokens, MinTokens, limit) \in MinTokens..limit
  BY <1>1, <1>5, ModelsAssumption DEF Clamp
<1>7. /\ ToSave(w).tokens = Clamp(w.tokens, MinTokens, limit)
      /\ ToSave(w).context = IF w.context = Blank THEN Blank ELSE context
      /\ ToSave(w) \in Params
  BY <1>1, <1>3, <1>4, <1>5, <1>6, ModelsAssumption DEF ToSave, Params
<1>8. CASE w.context = Blank
  <2>1. TokensCap(w) <= MinContext
    BY <1>8, <1>1, ModelsAssumption DEF TokensCap, Number, ContextMax, Clamp
  <2>2. Clamp(w.tokens, MinTokens, limit) <= MinContext
    BY <2>1, <1>1, <1>2, <1>5, ModelsAssumption DEF Clamp
  <2> QED
    BY <1>1, <1>5, <1>6, <1>7, <1>8, <2>2, ModelsAssumption DEF Sendable
<1>9. CASE w.context # Blank
  BY <1>1, <1>4, <1>5, <1>6, <1>7, <1>9, ModelsAssumption DEF Sendable, Kept
<1> QED
  BY <1>8, <1>9

\* A safe update of parameters that fit gives parameters that fit.
LEMMA UpdatedFits ==
  ASSUME NEW m \in Models, NEW p \in Params, NEW new \in Params, Kept(p, m), Sendable(new, m)
  PROVE  Updated(p, new) \in Params /\ Kept(Updated(p, new), m)
BY ModelsAssumption DEF Updated, Params, Sendable, Kept

\* Whatever is asked for, what the backend keeps fits.
LEMMA NormalizedFits ==
  ASSUME NEW m \in Models, NEW p \in Params
  PROVE  Normalized(m, p) \in Params /\ Kept(Normalized(m, p), m)
<1> DEFINE context == Clamp(p.context, MinContext, MaxContext[m])
           limit == Clamp(context, MinTokens, TokensLimit)
<1>1. context \in MinContext..MaxContext[m]
  BY ModelLimits, ModelsAssumption DEF Clamp, Params
<1>2. limit \in MinTokens..TokensLimit /\ limit <= context
  BY <1>1, ModelLimits, ModelsAssumption DEF Clamp
<1>3. Clamp(p.tokens, MinTokens, limit) \in MinTokens..limit
  BY <1>2, ModelsAssumption DEF Clamp, Params
<1> QED
  BY <1>1, <1>2, <1>3, ModelLimits, ModelsAssumption DEF Normalized, Params, Kept

\* What fits is kept.
LEMMA FittingIsKept ==
  ASSUME NEW m \in Models, NEW p \in Params, Kept(p, m)
  PROVE  Normalized(m, p) = p
<1>1. Clamp(p.context, MinContext, MaxContext[m]) = p.context
  BY ModelLimits, ModelsAssumption DEF Clamp, Params, Kept
<1>2. p.tokens <= Clamp(p.context, MinTokens, TokensLimit)
  BY ModelLimits, ModelsAssumption DEF Clamp, Params, Kept
<1>3. Clamp(p.tokens, MinTokens, Clamp(p.context, MinTokens, TokensLimit)) = p.tokens
  BY <1>2, ModelsAssumption DEF Clamp, Params, Kept
<1> QED
  BY <1>1, <1>3 DEF Normalized, Params

--------------------------------------------------------------------------------
(* The invariant is kept.                                                   *)

LEMMA ModelsInitInv == ModelsInit => ModelsInv
<1> SUFFICES ASSUME NEW m \in Models,
                    served = [selected |-> m, status |-> "idle", loads |-> FALSE,
                              params |-> [n \in Models |-> [tokens |-> MinTokens,
                                                            context |-> MinContext]]],
                    list = [served EXCEPT !.status = "none"],
                    fetch = [NoFetch EXCEPT !.at = "asked"],
                    request = [r \in Requests |-> NoRequest],
                    window = NoWindow
             PROVE  ModelsInv
  BY DEF ModelsInit
<1>1. ServedInv
  <2>1. served \in Served /\ list \in Served
    BY ModelsAssumption DEF Served, Statuses, Params
  <2>2. fetch.at = "asked"
    BY DEF NoFetch
  <2>3. ASSUME NEW n \in Models PROVE Kept(served.params[n], n)
    <3>1. served.params[n] = [tokens |-> MinTokens, context |-> MinContext]
      OBVIOUS
    <3>2. MaxContext[n] \in Nat /\ MinContext <= MaxContext[n]
      BY ModelLimits
    <3> QED
      BY <3>1, <3>2, ModelsAssumption DEF Kept
  <2> QED
    BY <2>1, <2>2, <2>3 DEF ServedInv
<1>2. WindowInv
  BY ModelsAssumption DEF WindowInv, NoWindow
<1>3. RequestInv
  BY ModelsAssumption DEF RequestInv, Requested, NoRequest, Unset, Params
<1> QED
  BY <1>1, <1>2, <1>3 DEF ModelsInv

\* What a request does to the backend leaves parameters that fit.
LEMMA PerformedFits ==
  ASSUME served \in Served, \A m \in Models : Kept(served.params[m], m),
         NEW q \in Requested, q.model \in Models
  PROVE  Performed(q) \in Served /\ \A m \in Models : Kept(Performed(q).params[m], m)
<1>1. CASE q.kind = "params"
  <2> DEFINE new == Normalized(q.model, Updated(served.params[q.model], q.params))
  <2>1. Updated(served.params[q.model], q.params) \in Params
    BY DEF Served, Requested, Updated, Params
  <2>2. new \in Params /\ Kept(new, q.model)
    BY <2>1, NormalizedFits
  <2>3. Performed(q) = [served EXCEPT !.params[q.model] = new]
    BY <1>1 DEF Performed
  <2> QED
    BY <2>2, <2>3 DEF Served
<1>2. CASE q.kind # "params"
  BY <1>2 DEF Performed, LoadAsked, Served, Statuses, Requested
<1> QED
  BY <1>1, <1>2

LEMMA ServedStep == ModelsInv /\ [ModelsNext]_modelVars => ServedInv'
<1> SUFFICES ASSUME ModelsInv, [ModelsNext]_modelVars PROVE ServedInv'
  OBVIOUS
<1> USE DEF ModelsInv, ServedInv
<1>1. CASE FetchServed
  BY <1>1 DEF FetchServed, Served
<1>2. CASE FetchDone
  BY <1>2 DEF FetchDone, NoFetch
<1>3. CASE FetchFails
  BY <1>3 DEF FetchFails, NoFetch
<1>4. CASE PollFires
  BY <1>4 DEF PollFires, Fetch, Fetching, NoFetch
<1>5. CASE Loads \/ LoadingEnds
  BY <1>5 DEF Loads, LoadingEnds, Served, Statuses
<1>6. CASE RequestServed
  <2>1. PICK r \in Requests :
          /\ request[r].at = "asked"
          /\ served' = served \/ served' = Performed(request[r])
          /\ UNCHANGED <<list, fetch>>
    BY <1>6 DEF RequestServed
  <2>2. request[r] \in Requested /\ request[r].model \in Models
    BY <2>1 DEF RequestInv
  <2>3. /\ Performed(request[r]) \in Served
        /\ \A m \in Models : Kept(Performed(request[r]).params[m], m)
    BY <2>2, PerformedFits
  <2> QED
    BY <2>1, <2>3
<1>7. CASE RequestDone
  BY <1>7 DEF RequestDone, Fetch, Fetching, NoFetch
<1>8. CASE RequestFails
  BY <1>8 DEF RequestFails
<1>9. CASE Clicks
  BY <1>9 DEF Clicks, Fetch, Fetching, NoFetch
<1>10. CASE EditsWindow
  BY <1>10 DEF EditsWindow
<1>11. CASE UNCHANGED modelVars
  BY <1>11 DEF modelVars
<1> QED
  BY <1>1, <1>2, <1>3, <1>4, <1>5, <1>6, <1>7, <1>8, <1>9, <1>10, <1>11 DEF ModelsNext

\* Every way to edit the window caps it.
LEMMA EditsStep == ModelsInv /\ EditsWindow => WindowInv'
<1> SUFFICES ASSUME ModelsInv, EditsWindow PROVE WindowInv'
  OBVIOUS
<1> DEFINE Open == [model : Models, tokens : Nat, context : Nat, saving : BOOLEAN]
<1>1. ASSUME NEW w \in Open, window' = Capped(w) PROVE WindowInv'
  BY <1>1, CappedWindow DEF WindowInv
<1>2. CASE OpenWindow
  <2>1. PICK m \in Models :
          window' = Capped([model |-> m, saving |-> window.saving,
                            tokens |-> Clamp(list.params[m].tokens, MinTokens, TokensMax(m)),
                            context |-> Clamp(list.params[m].context, MinContext, ContextMax(m))])
    BY <1>2 DEF OpenWindow
  <2>2. list.params[m] \in Params /\ window.saving \in BOOLEAN
    BY DEF ModelsInv, ServedInv, Served, WindowInv
  <2>3. /\ Clamp(list.params[m].tokens, MinTokens, TokensMax(m)) \in Nat
        /\ Clamp(list.params[m].context, MinContext, ContextMax(m)) \in Nat
    BY <2>2, ModelLimits, ModelsAssumption DEF Params, Clamp, ContextMax
  <2> QED
    BY <1>1, <2>1, <2>2, <2>3
<1>3. CASE CloseWindow
  BY <1>3, ModelsAssumption DEF CloseWindow, NoWindow, WindowInv, ModelsInv
<1>4. CASE Types
  <2>1. PICK v \in Typed \cup {Blank}, field \in {"tokens", "context"} :
          window' = Capped([window EXCEPT ![field] = v])
    BY <1>4 DEF Types, Enters
  <2>2. window \in Open
    BY <1>4 DEF Types, ModelsInv, WindowInv
  <2>3. v \in Nat
    BY ModelsAssumption
  <2>4. [window EXCEPT ![field] = v] \in Open
    <3>1. CASE field = "tokens"
      BY <2>2, <2>3, <3>1
    <3>2. CASE field = "context"
      BY <2>2, <2>3, <3>2
    <3> QED
      BY <3>1, <3>2
  <2> QED
    BY <1>1, <2>1, <2>4
<1>5. CASE TakesPreset
  <2>1. PICK preset \in Presets :
          window' = Capped([window EXCEPT
                      !.tokens = Clamp(preset.tokens, MinTokens, TokensMax(window.model)),
                      !.context = Clamp(preset.context, MinContext, ContextMax(window.model))])
    BY <1>5 DEF TakesPreset
  <2>2. window \in Open
    BY <1>5 DEF TakesPreset, ModelsInv, WindowInv
  <2>3. preset \in [tokens : Nat, context : Nat]
    BY ModelsAssumption
  <2>4. /\ Clamp(preset.tokens, MinTokens, TokensMax(window.model)) \in Nat
        /\ Clamp(preset.context, MinContext, ContextMax(window.model)) \in Nat
    BY <2>2, <2>3, ModelLimits, ModelsAssumption DEF Clamp, ContextMax
  <2> QED
    BY <1>1, <2>1, <2>2, <2>4
<1> QED
  BY <1>2, <1>3, <1>4, <1>5 DEF EditsWindow

\* Other steps close the window or change whether it is saving.
LEMMA WindowStep == ModelsInv /\ [ModelsNext]_modelVars => WindowInv'
<1> SUFFICES ASSUME ModelsInv, [ModelsNext]_modelVars PROVE WindowInv'
  OBVIOUS
<1>1. ASSUME NEW saving \in BOOLEAN, window' = [window EXCEPT !.saving = saving]
      PROVE  WindowInv'
  BY <1>1 DEF ModelsInv, WindowInv, TokensCap
<1>2. CASE RequestDone
  BY <1>2, ModelsAssumption DEF RequestDone, ModelsInv, WindowInv, NoWindow
<1>3. CASE RequestFails
  <2>1. window' = window \/ window' = [window EXCEPT !.saving = FALSE]
    BY <1>3 DEF RequestFails
  <2> QED
    BY <1>1, <2>1 DEF ModelsInv, WindowInv
<1>4. CASE Clicks
  <2>1. window' = window \/ window' = [window EXCEPT !.saving = TRUE]
    BY <1>4 DEF Clicks, SaveWindow
  <2> QED
    BY <1>1, <2>1 DEF ModelsInv, WindowInv
<1>5. CASE EditsWindow
  BY <1>5, EditsStep
<1>6. CASE \/ FetchServed \/ FetchDone \/ FetchFails \/ PollFires \/ Loads \/ LoadingEnds
           \/ RequestServed \/ UNCHANGED modelVars
  BY <1>6 DEF FetchServed, FetchDone, FetchFails, PollFires, Loads, LoadingEnds, RequestServed,
     modelVars, ModelsInv, WindowInv
<1> QED
  BY <1>2, <1>3, <1>4, <1>5, <1>6 DEF ModelsNext

LEMMA RequestStep == ModelsInv /\ [ModelsNext]_modelVars => RequestInv'
<1> SUFFICES ASSUME ModelsInv, [ModelsNext]_modelVars PROVE RequestInv'
  OBVIOUS
<1>1. RequestInv
  BY DEF ModelsInv
<1>2. ASSUME NEW r \in Requests, NEW kind \in {"select", "load", "unload", "delete", "params"},
             NEW model \in Models, NEW params \in Params, AskFor(r, kind, model, params),
             kind = "params" => Sendable(params, model)
      PROVE  RequestInv'
  BY <1>1, <1>2 DEF RequestInv, AskFor, Requested
<1>3. Unset \in Params
  BY ModelsAssumption DEF Unset, Params
<1>4. ASSUME NEW r \in Requests, request' = [request EXCEPT ![r] = NoRequest]
      PROVE  RequestInv'
  BY <1>1, <1>3, <1>4 DEF RequestInv, NoRequest, Requested
<1>5. CASE RequestServed
  <2>1. PICK r \in Requests, how \in {"served", "refused", "lost"} :
          request' = [request EXCEPT ![r].at = how]
    BY <1>5 DEF RequestServed
  <2> QED
    BY <1>1, <2>1 DEF RequestInv, Requested
<1>6. CASE RequestDone
  BY <1>4, <1>6 DEF RequestDone
<1>7. CASE RequestFails
  BY <1>4, <1>7 DEF RequestFails
<1>8. CASE Clicks
  <2>1. ASSUME NEW r \in Requests, SaveWindow(r) PROVE RequestInv'
    <3>1. window \in [model : Models, tokens : Nat, context : Nat, saving : BOOLEAN]
      BY <2>1 DEF SaveWindow, ModelsInv, WindowInv
    <3>2. window.tokens <= TokensCap(window)
      BY <2>1 DEF SaveWindow, ModelsInv, WindowInv
    <3>3. ToSave(window) \in Params /\ Sendable(ToSave(window), window.model)
      BY <3>1, <3>2, SavesFit
    <3>4. AskFor(r, "params", window.model, ToSave(window))
      BY <2>1 DEF SaveWindow
    <3> QED
      BY <1>2, <3>1, <3>3, <3>4
  <2>2. list.selected \in Models
    BY DEF ModelsInv, ServedInv, Served
  <2>3. ASSUME NEW r \in Requests, NEW m \in Models, NEW kind \in {"select", "load"},
               AskFor(r, kind, m, Unset)
        PROVE  RequestInv'
    BY <1>2, <1>3, <2>3
  <2>4. ASSUME NEW r \in Requests, NEW kind \in {"unload", "delete"},
               AskFor(r, kind, list.selected, Unset)
        PROVE  RequestInv'
    BY <1>2, <1>3, <2>2, <2>4
  <2>5. ASSUME request' = request PROVE RequestInv'
    BY <1>1, <2>5 DEF RequestInv
  <2> QED
    BY <1>8, <2>1, <2>3, <2>4, <2>5 DEF Clicks
<1>9. CASE \/ FetchServed \/ FetchDone \/ FetchFails \/ PollFires \/ Loads \/ LoadingEnds
           \/ EditsWindow \/ UNCHANGED modelVars
  BY <1>1, <1>9 DEF FetchServed, FetchDone, FetchFails, PollFires, Loads, LoadingEnds, EditsWindow,
     modelVars, RequestInv
<1> QED
  BY <1>5, <1>6, <1>7, <1>8, <1>9 DEF ModelsNext

--------------------------------------------------------------------------------
LEMMA ModelsInvariant == ModelsInit /\ [][ModelsNext]_modelVars => []ModelsInv
<1>1. ModelsInit => ModelsInv
  BY ModelsInitInv
<1>2. ModelsInv /\ [ModelsNext]_modelVars => ModelsInv'
  BY ServedStep, WindowStep, RequestStep DEF ModelsInv
<1> QED
  BY <1>1, <1>2, PTL DEF ModelsSpec

\* A request to save that the backend performs leaves what it names as sent.
LEMMA SavedStep ==
  ASSUME ModelsInv, RequestServed, NEW r \in Requests,
         request[r].at = "asked", request[r].kind = "params",
         request'[r].at \in {"served", "lost"}
  PROVE  LET sent == request[r].params
             stored == served'.params[request[r].model]
         IN /\ sent.tokens # Blank => stored.tokens = sent.tokens
            /\ sent.context # Blank => stored.context = sent.context
<1> DEFINE m == request[r].model
           sent == request[r].params
           old == served.params[m]
<1>1. request \in [Requests -> Requested] /\ m \in Models /\ Sendable(sent, m)
  BY DEF ModelsInv, RequestInv
<1>2. sent \in Params /\ old \in Params /\ Kept(old, m)
  BY <1>1 DEF Requested, ModelsInv, ServedInv, Served
<1>3. served' = Performed(request[r])
  <2>1. PICK q \in Requests, how \in {"served", "refused", "lost"} :
          /\ served' = IF how = "refused" THEN served ELSE Performed(request[q])
          /\ request' = [request EXCEPT ![q].at = how]
    BY DEF RequestServed
  <2>2. q = r /\ how # "refused"
    BY <1>1, <2>1 DEF Requested
  <2> QED
    BY <2>1, <2>2
<1>4. Normalized(m, Updated(old, sent)) = Updated(old, sent)
  BY <1>1, <1>2, UpdatedFits, FittingIsKept
<1>5. served' = [served EXCEPT !.params[m] = Updated(old, sent)]
  BY <1>3, <1>4 DEF Performed
<1>6. served'.params[m] = Updated(old, sent)
  BY <1>1, <1>5 DEF ModelsInv, ServedInv, Served
<1> QED
  BY <1>6 DEF Updated

LEMMA SavesStandAnyhow == ModelsInit /\ [][ModelsNext]_modelVars => SavedAsSent
<1>1. ASSUME ModelsInv, [ModelsNext]_modelVars, NEW r \in Requests,
             request[r].at = "asked", request[r].kind = "params",
             request'[r].at \in {"served", "lost"}
      PROVE  RequestServed
  <2>1. request \in [Requests -> Requested]
    BY <1>1 DEF ModelsInv, RequestInv
  <2>2. CASE RequestDone
    BY <1>1, <2>1, <2>2 DEF RequestDone, NoRequest
  <2>3. CASE RequestFails
    BY <1>1, <2>1, <2>3 DEF RequestFails, NoRequest
  <2>4. CASE Clicks
    <3>1. \/ request' = request
          \/ \E q \in Requests, kind \in {"select", "load", "unload", "delete", "params"} :
               \E model, params : AskFor(q, kind, model, params)
      BY <2>4 DEF Clicks, SaveWindow
    <3> QED
      BY <1>1, <2>1, <3>1 DEF AskFor
  <2>5. CASE \/ FetchServed \/ FetchDone \/ FetchFails \/ PollFires \/ Loads \/ LoadingEnds
             \/ EditsWindow \/ UNCHANGED modelVars
    BY <1>1, <2>5 DEF FetchServed, FetchDone, FetchFails, PollFires, Loads, LoadingEnds, EditsWindow,
       modelVars
  <2> QED
    BY <1>1, <2>2, <2>3, <2>4, <2>5 DEF ModelsNext
<1>2. ModelsInv /\ [ModelsNext]_modelVars =>
        [\A r \in Requests :
           request[r].at = "asked" /\ request[r].kind = "params"
             /\ request'[r].at \in {"served", "lost"}
           => LET sent == request[r].params
                  stored == served'.params[request[r].model]
              IN /\ sent.tokens # Blank => stored.tokens = sent.tokens
                 /\ sent.context # Blank => stored.context = sent.context]_modelVars
  BY <1>1, SavedStep
<1> QED
  BY <1>2, ModelsInvariant, PTL DEF SavedAsSent

\* The backend keeps exactly what a window saves (paramsModal.js), though it
\* would cut what does not fit (normalize_model_params_payload): whatever is
\* typed, left blank or taken from a preset, and though a window may be saved
\* after the parameters it was opened with have changed.
THEOREM SavesStand == ModelsSpec => SavedAsSent
BY SavesStandAnyhow, PTL DEF ModelsSpec

--------------------------------------------------------------------------------
(* The model that is chosen. *)

\* What the backend did and the page was not told of, or never will be.
Unheard == \E r \in Requests : request[r].at \in {"served", "lost"}

\* The model m is the one the backend has selected, if the page can know.
Settled(m) == m = served.selected \/ Unheard \/ late

ChosenInv ==
  /\ fetch.at \in {"none", "failed"} => Settled(chosen)
  /\ fetch.at = "answered" => Settled(fetch.answer.selected)
  /\ fetch.at \in {"none", "asked", "answered", "failed"}

\* Steps that neither the backend nor the list has a part in.
LEMMA AsideKeepsChosen ==
  ASSUME ChosenInv, served'.selected = served.selected, UNCHANGED <<chosen, fetch>>,
         late => late', Unheard => Unheard' \/ late'
  PROVE  ChosenInv'
BY DEF ChosenInv, Settled

\* A list asked for has no answer yet; one that is not asked for leaves the page behind.
LEMMA FetchKeepsChosen ==
  ASSUME ChosenInv, Fetch, UNCHANGED served
  PROVE  ChosenInv'
BY DEF ChosenInv, Settled, Fetch, Fetching, NoFetch

LEMMA ChosenStep ==
  ASSUME ModelsInv, ChosenInv, [ModelsNext]_modelVars
  PROVE  ChosenInv'
<1>1. request \in [Requests -> Requested] /\ served \in Served
  BY DEF ModelsInv, RequestInv, ServedInv
<1>2. CASE FetchServed
  BY <1>1, <1>2 DEF FetchServed, ChosenInv, Settled, Served
<1>3. CASE FetchDone
  BY <1>3 DEF FetchDone, ChosenInv, Settled, Unheard, NoFetch
<1>4. CASE FetchFails
  BY <1>4 DEF FetchFails, ChosenInv, Settled, NoFetch
<1>5. CASE PollFires
  <2>1. UNCHANGED <<served, request, chosen>> /\ (UNCHANGED <<fetch, late>> \/ Fetch)
    BY <1>5 DEF PollFires
  <2> QED
    BY <2>1, AsideKeepsChosen, FetchKeepsChosen DEF Unheard
<1>6. CASE Loads \/ LoadingEnds
  <2>1. served'.selected = served.selected
    BY <1>1, <1>6 DEF Loads, LoadingEnds, Served
  <2>2. UNCHANGED <<chosen, fetch, late, request>>
    BY <1>6 DEF Loads, LoadingEnds
  <2> QED
    BY <2>1, <2>2, AsideKeepsChosen DEF Unheard
<1>7. CASE RequestServed
  <2>1. PICK r \in Requests, how \in {"served", "refused", "lost"} :
          /\ request[r].at = "asked"
          /\ served' = IF how = "refused" THEN served ELSE Performed(request[r])
          /\ request' = [request EXCEPT ![r].at = how]
          /\ UNCHANGED <<chosen, fetch, late>>
    BY <1>7 DEF RequestServed
  <2>2. request'[r].at = how /\ \A q \in Requests \ {r} : request'[q].at = request[q].at
    BY <1>1, <2>1 DEF Requested
  <2>3. CASE how = "refused"
    BY <2>1, <2>2, <2>3, AsideKeepsChosen DEF Unheard
  <2>4. CASE how # "refused"
    BY <2>1, <2>2, <2>4 DEF ChosenInv, Settled, Unheard
  <2> QED
    BY <2>3, <2>4
<1>8. CASE RequestDone
  <2>1. Fetch /\ UNCHANGED served
    BY <1>8 DEF RequestDone
  <2>2. CASE Fetching
    BY <2>1, <2>2 DEF Fetch, ChosenInv, Settled, Fetching
  <2>3. CASE ~Fetching
    BY <2>1, <2>3 DEF Fetch, ChosenInv, NoFetch
  <2> QED
    BY <2>2, <2>3
<1>9. CASE RequestFails
  <2>1. PICK r \in Requests :
          /\ request[r].at \in {"refused", "lost"}
          /\ late' = (late \/ request[r].at = "lost")
          /\ request' = [request EXCEPT ![r] = NoRequest]
          /\ UNCHANGED <<served, chosen, fetch>>
    BY <1>9 DEF RequestFails
  <2>2. Unheard => Unheard' \/ late'
    BY <1>1, <2>1 DEF Unheard
  <2> QED
    BY <2>1, <2>2, AsideKeepsChosen
<1>10. CASE Clicks
  <2>1. UNCHANGED <<served, chosen>>
    BY <1>10 DEF Clicks
  <2>2. CASE Fetch /\ UNCHANGED request
    BY <2>1, <2>2, FetchKeepsChosen
  <2>3. ASSUME NEW r \in Requests, NEW kind, NEW model, NEW params, AskFor(r, kind, model, params),
               UNCHANGED <<fetch, late>>
        PROVE  ChosenInv'
    <3>1. Unheard => Unheard'
      BY <1>1, <2>3 DEF AskFor, Unheard
    <3> QED
      BY <2>1, <2>3, <3>1, AsideKeepsChosen
  <2>4. \/ Fetch /\ UNCHANGED request
        \/ /\ \E r \in Requests : \E kind, model, params : AskFor(r, kind, model, params)
           /\ UNCHANGED <<fetch, late>>
    BY <1>10 DEF Clicks, SaveWindow
  <2> QED
    BY <2>2, <2>3, <2>4
<1>11. CASE EditsWindow \/ UNCHANGED modelVars
  BY <1>11, AsideKeepsChosen DEF EditsWindow, modelVars, Unheard
<1> QED
  BY <1>2, <1>3, <1>4, <1>5, <1>6, <1>7, <1>8, <1>9, <1>10, <1>11 DEF ModelsNext

LEMMA ChosenInitially == ModelsInit => ChosenInv
BY DEF ModelsInit, ChosenInv, NoFetch

LEMMA ChosenAnyhow == ModelsInit /\ [][ModelsNext]_modelVars => []SelectedIsServed
<1>1. ChosenInv => SelectedIsServed
  BY DEF ChosenInv, SelectedIsServed, Settled, ModelsQuiet, Fetching, Unheard
<1>2. ModelsInv /\ ChosenInv /\ [ModelsNext]_modelVars => ChosenInv'
  BY ChosenStep
<1> QED
  BY <1>1, <1>2, ModelsInvariant, ChosenInitially, PTL

\* The model that the page shows as chosen is the backend's once nothing is under
\* way (models.js), unless an answer was lost or came late: however fetches, polls
\* and the requests of any number of cards overlap.
THEOREM ChosenIsServed == ModelsSpec => []SelectedIsServed
BY ChosenAnyhow, PTL DEF ModelsSpec

--------------------------------------------------------------------------------
(* The settings and the session with a server: any accounts, any number of *)
(* refreshes and steps.                                                    *)

Accounts == Users \cup {NoUser}
Clients == [token : Accounts, mode : Modes]

PanelRecords ==
  /\ config = [mode |-> config.mode, token |-> config.token, name |-> config.name]
  /\ config.mode \in Modes /\ config.token \in Accounts
  /\ client \in Clients
  /\ action = [at |-> action.at, kind |-> action.kind, user |-> action.user]
  /\ action.user \in Accounts
  /\ form = [mode |-> form.mode, box |-> form.box, button |-> form.button]
  /\ form.mode \in Modes /\ form.button \in BOOLEAN

\* No revision was shown that was not asked for, and the one shown is the newest that was.
AuditInv ==
  /\ audit \in [newest : Nat, shown : Nat, seen : Nat]
  /\ audit.seen <= audit.newest
  /\ NewerAuditStays

\* The first of the tests under way will put back what the configuration says, unless
\* it or a test was crossed.
TestInv ==
  /\ tests \in Seq([mode : Modes, before : Clients])
  /\ tests # <<>> /\ ~crossed => tests[1].before = Configured(config)

\* A save is an action under way, and one that is stored is a save.
SaveInv == (action.at = "idle" => action.kind # "save") /\ (action.at = "stored" => action.kind = "save")

PanelInv == PanelRecords /\ AuditInv /\ TestInv /\ SaveInv /\ ClientIsConfigured /\ SaveButtonFits

--------------------------------------------------------------------------------
LEMMA PanelInitInv == PanelInit => PanelInv
<1> SUFFICES ASSUME PanelInit PROVE PanelInv
  OBVIOUS
<1>1. PICK mode \in Modes :
        /\ config = [mode |-> mode, token |-> NoUser, name |-> NoUser]
        /\ client = Configured(config)
        /\ form = Drawn(config)
  BY DEF PanelInit
<1>2. PanelRecords
  BY <1>1 DEF PanelInit, PanelRecords, Configured, Drawn, NoAction, Accounts, Clients
<1>3. AuditInv /\ TestInv /\ SaveInv
  BY DEF PanelInit, AuditInv, NewerAuditStays, TestInv, SaveInv, NoAction
<1>4. ClientIsConfigured /\ SaveButtonFits
  BY <1>1 DEF PanelInit, ClientIsConfigured, SaveButtonFits, NoAction, Drawn
<1> QED
  BY <1>2, <1>3, <1>4 DEF PanelInv

\* A configuration that is applied is the client's and the form's.
LEMMA ApplyKeeps ==
  ASSUME PanelInv, tests' = tests, AuditInv',
         NEW mode \in Modes, NEW token \in Accounts, NEW name,
         config' = [mode |-> mode, token |-> token, name |-> name],
         client' = Configured(config'),
         form' = Drawn(config'),
         crossed' = (tests # <<>>),
         action' = [at |-> action'.at, kind |-> action'.kind, user |-> action'.user],
         action'.user \in Accounts,
         SaveInv'
  PROVE  PanelInv'
<1>1. PanelRecords'
  BY DEF PanelInv, PanelRecords, Configured, Drawn, Clients
<1>2. TestInv' /\ ClientIsConfigured'
  BY DEF PanelInv, TestInv, ClientIsConfigured, Configured
<1>3. SaveButtonFits'
  BY DEF SaveButtonFits, Drawn
<1> QED
  BY <1>1, <1>2, <1>3 DEF PanelInv

\* What leaves the configuration and the client alone, and of the form all but the box,
\* keeps the invariant, if it neither begins nor ends a save.
LEMMA AsideKeepsPanel ==
  ASSUME PanelInv, UNCHANGED <<config, client, tests, crossed>>, AuditInv', SaveInv',
         NEW box, form' = [form EXCEPT !.box = box],
         action' = [at |-> action'.at, kind |-> action'.kind, user |-> action'.user],
         action'.user \in Accounts,
         action'.kind = "save" <=> action.kind = "save"
  PROVE  PanelInv'
<1>1. form' = [mode |-> form.mode, box |-> box, button |-> form.button]
  BY DEF PanelInv, PanelRecords
<1>2. PanelRecords' /\ TestInv' /\ ClientIsConfigured'
  BY <1>1 DEF PanelInv, PanelRecords, TestInv, ClientIsConfigured, Configured
<1>3. SaveButtonFits'
  BY <1>1 DEF PanelInv, SaveButtonFits
<1> QED
  BY <1>2, <1>3 DEF PanelInv

LEMMA FormStays ==
  ASSUME PanelInv, form' = form
  PROVE  form' = [form EXCEPT !.box = form.box]
BY DEF PanelInv, PanelRecords

\* The list is emptied, or left alone, when the panel is drawn for a mode.
LEMMA LocalizedKeeps ==
  ASSUME PanelInv, NEW mode, Localized(mode) \/ audit' = Emptied \/ audit' = audit
  PROVE  AuditInv'
BY DEF Localized, Emptied, PanelInv, AuditInv, NewerAuditStays

LEMMA AsksAuditKeeps ==
  ASSUME PanelInv, NEW others, AsksAudit(others)
  PROVE  AuditInv'
BY DEF AsksAudit, Emptied, PanelInv, AuditInv, NewerAuditStays

--------------------------------------------------------------------------------
(* Refreshes. *)

LEMMA RefreshKeeps ==
  ASSUME PanelInv, RefreshStep \/ (\E r \in Busy : RefreshOffline(r))
  PROVE  PanelInv'
<1>1. action' = action /\ tests' = tests
  BY DEF RefreshStep, RefreshOffline, AsksMe, MeServed, MeDone, UsersDone, AuditDone
<1>2. /\ SaveInv' /\ action' = [at |-> action'.at, kind |-> action'.kind, user |-> action'.user]
      /\ action'.user \in Accounts /\ (action'.kind = "save" <=> action.kind = "save")
  BY <1>1 DEF PanelInv, SaveInv, PanelRecords
<1>3. ASSUME NEW r, RefreshOffline(r) \/ AsksMe(r)
      PROVE  PanelInv'
  <2>1. UNCHANGED <<config, client, crossed>> /\ (audit' = Emptied \/ audit' = audit)
    BY <1>3 DEF RefreshOffline, AsksMe
  <2>2. PICK box : form' = [form EXCEPT !.box = box]
    BY <1>3 DEF RefreshOffline, AsksMe
  <2>3. AuditInv'
    BY <2>1, LocalizedKeeps
  <2> QED
    BY <2>1, <2>2, <2>3, <1>1, <1>2, AsideKeepsPanel
<1>4. ASSUME NEW r, MeServed(r) \/ UsersDone(r) \/ AuditDone(r)
      PROVE  PanelInv'
  <2>1. UNCHANGED <<config, client, form, crossed>>
    BY <1>4 DEF MeServed, UsersDone, AuditDone
  <2>2. MeServed(r) => AuditInv'
    BY LocalizedKeeps DEF MeServed
  <2>3. UsersDone(r) => AuditInv'
    BY AsksAuditKeeps DEF UsersDone
  <2>4. AuditDone(r) => AuditInv'
    <3>1. /\ audit = [newest |-> audit.newest, shown |-> audit.shown, seen |-> audit.seen]
          /\ audit.newest \in Nat /\ audit.seen \in Nat /\ audit.seen <= audit.newest
          /\ audit.shown = 0 \/ audit.shown = audit.seen
      BY DEF PanelInv, AuditInv, NewerAuditStays
    <3>2. audit.seen > audit.newest => audit.seen = audit.newest
      BY <3>1
    <3>3. CASE audit' = [audit EXCEPT !.shown = AuditShown(r.revision),
                                      !.seen = Latest(@, AuditShown(r.revision))]
      <4>1. CASE r.revision = audit.newest
        <5>1. audit' = [newest |-> audit.newest, shown |-> audit.newest, seen |-> audit.newest]
          BY <3>1, <3>2, <3>3, <4>1 DEF AuditShown, Latest
        <5> QED
          BY <3>1, <5>1 DEF AuditInv, NewerAuditStays
      <4>2. CASE r.revision # audit.newest
        <5>1. audit' = audit
          <6>1. Latest(audit.seen, audit.shown) = audit.seen
            BY <3>1 DEF Latest
          <6>2. audit' = [newest |-> audit.newest, shown |-> audit.shown, seen |-> audit.seen]
            BY <3>1, <3>3, <4>2, <6>1 DEF AuditShown
          <6> QED
            BY <3>1, <6>2
        <5> QED
          BY <5>1, LocalizedKeeps
      <4> QED
        BY <4>1, <4>2
    <3> QED
      BY <3>3, LocalizedKeeps DEF AuditDone
  <2>5. AuditInv'
    BY <2>2, <2>3, <2>4, <1>4
  <2> QED
    BY <2>1, <2>5, <1>1, <1>2, FormStays, AsideKeepsPanel
<1>5. ASSUME NEW r, MeDone(r)
      PROVE  PanelInv'
  <2>1. audit' = Emptied \/ audit' = audit
    BY <1>5 DEF MeDone
  <2>2. AuditInv'
    BY <2>1, LocalizedKeeps
  <2>3. CASE Renames(r.me)
    <3>1. /\ config' = [mode |-> config.mode, token |-> config.token, name |-> r.me]
          /\ client' = Configured(config')
          /\ form' = Drawn(config')
          /\ crossed' = (tests # <<>>)
      BY <2>3, <1>5 DEF MeDone, PanelInv, PanelRecords, Configured, Drawn
    <3>2. config.mode \in Modes /\ config.token \in Accounts
      BY DEF PanelInv, PanelRecords
    <3> QED
      BY <3>1, <3>2, <2>2, <1>1, <1>2, ApplyKeeps
  <2>4. CASE ~Renames(r.me)
    <3>1. UNCHANGED <<config, client, form, crossed>>
      BY <2>4, <1>5 DEF MeDone
    <3> QED
      BY <3>1, <2>2, <1>1, <1>2, FormStays, AsideKeepsPanel
  <2> QED
    BY <2>3, <2>4
<1> QED
  BY <1>3, <1>4, <1>5 DEF RefreshStep

--------------------------------------------------------------------------------
(* The user. *)

LEMMA BeginsKeeps ==
  ASSUME PanelInv, Begins
  PROVE  PanelInv'
<1>1. /\ action.at = "idle" /\ action.kind # "save"
      /\ tests' = tests
  BY DEF Begins, PanelInv, SaveInv
<1>2. ASSUME NEW kind \in {"login", "logout", "bootstrap", "user"}, NEW u \in Accounts,
             BeginsAction(kind, u)
      PROVE  PanelInv'
  <2>1. /\ UNCHANGED <<config, client, form, audit, crossed>>
        /\ action' = [at |-> "asked", kind |-> kind, user |-> u]
    BY <1>2 DEF BeginsAction
  <2>2. SaveInv' /\ action'.kind # "save" /\ AuditInv'
    BY <2>1, LocalizedKeeps DEF SaveInv
  <2> QED
    BY <2>1, <2>2, <1>1, FormStays, AsideKeepsPanel
<1>3. CASE BeginsSession \/ BeginsBootstrap \/ BeginsChange
  <2>1. client.token \in Accounts /\ Admin \in Accounts /\ Users \subseteq Accounts
    BY PanelAssumption DEF PanelInv, PanelRecords, Clients, Accounts
  <2>2. PICK kind \in {"login", "logout", "bootstrap", "user"}, u \in Accounts :
          BeginsAction(kind, u)
    BY <2>1, <1>3 DEF BeginsSession, BeginsBootstrap, BeginsChange, Accounts
  <2> QED
    BY <2>2, <1>2
<1>4. CASE BeginsSave /\ Differs(form, config)
  <2>1. action' = [at |-> "asked", kind |-> "save", user |-> NoUser] /\ Localized(form.mode)
    BY <1>4 DEF BeginsSave, Apply, PanelInv, PanelRecords
  <2>2. SaveInv' /\ AuditInv' /\ action'.user \in Accounts
    BY <2>1, LocalizedKeeps DEF SaveInv, Accounts
  <2>3. /\ config' = [mode |-> form.mode, token |-> config.token, name |-> config.name]
        /\ client' = Configured(config')
        /\ form' = Drawn(config')
        /\ crossed' = (tests # <<>>)
    BY <1>4 DEF BeginsSave, Apply, PanelInv, PanelRecords
  <2>4. form.mode \in Modes /\ config.token \in Accounts
    BY DEF PanelInv, PanelRecords
  <2> QED
    BY <2>1, <2>2, <2>3, <2>4, <1>1, ApplyKeeps
<1>5. CASE BeginsSave /\ ~Differs(form, config)
  <2>1. /\ form' = [mode |-> form.mode, box |-> form.box, button |-> FALSE]
        /\ form.mode = config.mode
        /\ UNCHANGED <<config, client, action, audit, crossed>>
    BY <1>5 DEF BeginsSave, Differs, PanelInv, PanelRecords
  <2>2. PanelRecords' /\ AuditInv' /\ TestInv' /\ SaveInv'
    BY <2>1, <1>1, LocalizedKeeps DEF PanelInv, PanelRecords, TestInv, SaveInv, Configured
  <2>3. ClientIsConfigured' /\ SaveButtonFits'
    BY <2>1, <1>1 DEF PanelInv, ClientIsConfigured, SaveButtonFits, Configured
  <2> QED
    BY <2>2, <2>3 DEF PanelInv
<1> QED
  BY <1>3, <1>4, <1>5 DEF Begins

LEMMA EditsFormKeeps ==
  ASSUME PanelInv, EditsForm
  PROVE  PanelInv'
<1>1. PICK edited \in {[form EXCEPT !.mode = mode] : mode \in Modes \ {form.mode}}
                        \cup {[form EXCEPT !.box = ~@]} :
        form' = [edited EXCEPT !.button = ButtonOn(edited, config)]
  BY DEF EditsForm
<1>2. PICK mode \in Modes, box \in {form.box, ~form.box} :
        edited = [mode |-> mode, box |-> box, button |-> form.button]
  BY DEF PanelInv, PanelRecords
<1>3. form' = [mode |-> mode, box |-> box, button |-> ButtonOn(edited, config)]
  BY <1>1, <1>2
<1>4. UNCHANGED <<config, client, action, tests, audit, crossed>>
  BY DEF EditsForm
<1>5. PanelRecords'
  BY <1>3, <1>4 DEF PanelInv, PanelRecords, ButtonOn
<1>6. SaveButtonFits'
  BY <1>2, <1>3, <1>4 DEF SaveButtonFits, ButtonOn, Differs
<1>7. AuditInv' /\ TestInv' /\ SaveInv' /\ ClientIsConfigured'
  BY <1>4, LocalizedKeeps DEF PanelInv, TestInv, SaveInv, ClientIsConfigured, Configured
<1> QED
  BY <1>5, <1>6, <1>7 DEF PanelInv

LEMMA TestBeginsKeeps ==
  ASSUME PanelInv, TestBegins
  PROVE  PanelInv'
<1>1. UNCHANGED <<config, form, action, audit, crossed>>
  BY DEF TestBegins
<1>2. /\ tests' = Append(tests, [mode |-> form.mode, before |-> client])
      /\ client' = [token |-> config.token, mode |-> form.mode]
  BY DEF TestBegins
<1>3. PanelRecords' /\ AuditInv' /\ SaveInv' /\ SaveButtonFits'
  BY <1>1, <1>2, LocalizedKeeps DEF PanelInv, PanelRecords, Clients, SaveInv, SaveButtonFits
<1>4. [mode |-> form.mode, before |-> client] \in [mode : Modes, before : Clients]
  BY DEF PanelInv, PanelRecords
<1>5. /\ tests' \in Seq([mode : Modes, before : Clients]) /\ tests' # <<>>
      /\ tests # <<>> => tests'[1] = tests[1]
      /\ tests = <<>> => tests'[1] = [mode |-> form.mode, before |-> client]
  BY <1>2, <1>4 DEF PanelInv, TestInv
<1>6. TestInv' /\ ClientIsConfigured'
  BY <1>1, <1>5 DEF PanelInv, TestInv, ClientIsConfigured, Configured
<1> QED
  BY <1>3, <1>6 DEF PanelInv

\* When the last of the tests under way ends, the first of them stays the first.
LEMMA LastLeaves ==
  ASSUME NEW S, NEW s \in Seq(S), NEW i \in DOMAIN s
  PROVE  /\ RemoveAt(s, i) \in Seq(S)
         /\ i = Len(s) /\ RemoveAt(s, i) # <<>> => RemoveAt(s, i)[1] = s[1]
         /\ i = Len(s) /\ RemoveAt(s, i) = <<>> => i = 1
<1>1. i \in 1..Len(s) /\ Len(s) \in Nat
  OBVIOUS
<1>2. SubSeq(s, 1, i - 1) \in Seq(S) /\ SubSeq(s, i + 1, Len(s)) \in Seq(S)
  BY <1>1
<1>3. RemoveAt(s, i) \in Seq(S)
  BY <1>2 DEF RemoveAt
<1>4. ASSUME i = Len(s)
      PROVE  RemoveAt(s, i) = SubSeq(s, 1, i - 1)
  <2>1. SubSeq(s, i + 1, Len(s)) = <<>>
    BY <1>1, <1>4
  <2>2. ASSUME NEW t \in Seq(S)
        PROVE  t \o <<>> = t
    BY <2>2
  <2> QED
    BY <2>1, <2>2, <1>2 DEF RemoveAt
<1>5. i # 1 => Len(SubSeq(s, 1, i - 1)) = i - 1 /\ SubSeq(s, 1, i - 1)[1] = s[1]
  BY <1>1
<1>6. i # 1 => SubSeq(s, 1, i - 1) # <<>>
  BY <1>1, <1>5
<1>7. i = 1 => SubSeq(s, 1, i - 1) = <<>>
  BY <1>1
<1> QED
  BY <1>3, <1>4, <1>5, <1>6, <1>7

LEMMA TestDoneKeeps ==
  ASSUME PanelInv, TestDone
  PROVE  PanelInv'
<1>1. PICK i \in DOMAIN tests :
        /\ tests' = RemoveAt(tests, i)
        /\ client' = tests[i].before
        /\ crossed' = (crossed \/ i # Len(tests))
        /\ (UNCHANGED audit \/ ReadAgain(1))
        /\ UNCHANGED <<config, form, action>>
  BY DEF TestDone, TestRestores
<1>2. AuditInv'
  BY <1>1, LocalizedKeeps DEF ReadAgain
<1>3. tests \in Seq([mode : Modes, before : Clients])
  BY DEF PanelInv, TestInv
<1>4. tests[i].before \in Clients
  <2> DEFINE T == [mode : Modes, before : Clients]
  <2>1. tests \in Seq(T)
    BY <1>3
  <2> HIDE DEF T
  <2>2. tests[i] \in T
    BY <1>1, <2>1
  <2> QED
    BY <2>2 DEF T
<1>5. PanelRecords' /\ SaveInv' /\ SaveButtonFits'
  BY <1>1, <1>4 DEF PanelInv, PanelRecords, SaveInv, SaveButtonFits
<1>6. /\ tests' \in Seq([mode : Modes, before : Clients])
      /\ i = Len(tests) /\ tests' # <<>> => tests'[1] = tests[1]
      /\ i = Len(tests) /\ tests' = <<>> => i = 1
  BY <1>1, <1>3, LastLeaves
<1>7. tests # <<>>
  BY <1>1
<1>8. TestInv' /\ ClientIsConfigured'
  BY <1>1, <1>6, <1>7 DEF PanelInv, TestInv, ClientIsConfigured, Configured
<1> QED
  BY <1>2, <1>5, <1>8 DEF PanelInv

LEMMA AsksAgainKeeps ==
  ASSUME PanelInv, AsksAgain
  PROVE  PanelInv'
<1>1. UNCHANGED <<config, client, form, action, tests, crossed>>
  BY DEF AsksAgain
<1>2. AuditInv'
  BY LocalizedKeeps, AsksAuditKeeps DEF AsksAgain
<1>3. /\ SaveInv' /\ action' = [at |-> action'.at, kind |-> action'.kind, user |-> action'.user]
      /\ action'.user \in Accounts
  BY <1>1 DEF PanelInv, SaveInv, PanelRecords
<1> QED
  BY <1>1, <1>2, <1>3, FormStays, AsideKeepsPanel

--------------------------------------------------------------------------------
(* Answers. *)

LEMMA ServedKeeps ==
  ASSUME PanelInv, ActionServed \/ SessionEnds
  PROVE  PanelInv'
<1>1. UNCHANGED <<config, client, form, tests, audit, crossed>>
  BY DEF ActionServed, SessionEnds
<1>2. AuditInv'
  BY <1>1, LocalizedKeeps
<1>3. /\ action' = [at |-> action'.at, kind |-> action'.kind, user |-> action'.user]
      /\ action'.kind = action.kind /\ action'.user \in Accounts
      /\ action'.at = action.at \/ action'.at \in {"served", "refused"}
  BY DEF ActionServed, SessionEnds, PanelInv, PanelRecords
<1>4. SaveInv'
  BY <1>3 DEF PanelInv, SaveInv
<1> QED
  BY <1>1, <1>2, <1>3, <1>4, FormStays, AsideKeepsPanel

LEMMA DoneKeeps ==
  ASSUME PanelInv, ActionDone
  PROVE  PanelInv'
<1>1. tests' = tests /\ action' = NoAction
  BY DEF ActionDone
<1>2. /\ SaveInv' /\ action' = [at |-> action'.at, kind |-> action'.kind, user |-> action'.user]
      /\ action'.user \in Accounts /\ action'.kind # "save"
  BY <1>1 DEF SaveInv, NoAction, Accounts
<1>3. config.mode \in Modes /\ config.token \in Accounts /\ action.user \in Accounts
  BY DEF PanelInv, PanelRecords
<1>4. CASE LoginDone /\ action.at # "refused"
  <2>1. PICK mode \in Modes :
          Apply([config EXCEPT !.mode = mode, !.token = action.user, !.name = action.user], 2)
    BY <1>4 DEF LoginDone, Modes
  <2>2. /\ config' = [mode |-> mode, token |-> action.user, name |-> action.user]
        /\ client' = Configured(config')
        /\ form' = Drawn(config')
        /\ crossed' = (tests # <<>>)
        /\ \E m : Localized(m)
    BY <2>1 DEF Apply, PanelInv, PanelRecords
  <2>3. AuditInv'
    BY <2>2, LocalizedKeeps
  <2> QED
    BY <2>2, <2>3, <1>1, <1>2, <1>3, ApplyKeeps
<1>5. CASE LogoutDone
  <2>1. /\ config' = [mode |-> config.mode, token |-> NoUser, name |-> NoUser]
        /\ client' = Configured(config')
        /\ form' = Drawn(config')
        /\ crossed' = (tests # <<>>)
        /\ \E m : Localized(m)
    BY <1>5 DEF LogoutDone, Apply, PanelInv, PanelRecords
  <2>2. AuditInv' /\ NoUser \in Accounts
    BY <2>1, LocalizedKeeps DEF Accounts
  <2> QED
    BY <2>1, <2>2, <1>1, <1>2, <1>3, ApplyKeeps
<1>6. CASE ChangeDone \/ (LoginDone /\ action.at = "refused")
  <2>1. UNCHANGED <<config, client, form, crossed>> /\ action.kind # "save"
    BY <1>6 DEF ChangeDone, LoginDone
  <2>2. AuditInv'
    BY <1>6, LocalizedKeeps DEF ChangeDone, LoginDone, ReadAgain
  <2> QED
    BY <2>1, <2>2, <1>1, <1>2, FormStays, AsideKeepsPanel
<1> QED
  BY <1>4, <1>5, <1>6 DEF ActionDone

LEMMA SavesKeep ==
  ASSUME PanelInv, SaveStored \/ SaveDone
  PROVE  PanelInv'
<1>1. /\ UNCHANGED <<config, tests, crossed>>
      /\ client' = client \/ client' = Configured(config)
      /\ (audit' = audit \/ \E m : Localized(m))
  BY DEF SaveStored, SaveDone, ReadAgain
<1>2. AuditInv'
  BY <1>1, LocalizedKeeps
<1>3. TestInv' /\ ClientIsConfigured' /\ client' \in Clients
  BY <1>1 DEF PanelInv, PanelRecords, TestInv, ClientIsConfigured, Configured, Clients
<1>4. CASE SaveStored
  <2>1. /\ action' = [at |-> "stored", kind |-> action.kind, user |-> action.user]
        /\ form' = form /\ action.kind = "save"
    BY <1>4 DEF SaveStored, PanelInv, PanelRecords
  <2>2. PanelRecords' /\ SaveInv' /\ SaveButtonFits'
    BY <2>1, <1>1, <1>3 DEF PanelInv, PanelRecords, SaveInv, SaveButtonFits
  <2> QED
    BY <2>2, <1>2, <1>3 DEF PanelInv
<1>5. CASE SaveDone
  <2>1. /\ action' = NoAction
        /\ form' = [mode |-> form.mode, box |-> form.box, button |-> Differs(form, config)]
    BY <1>5 DEF SaveDone, PanelInv, PanelRecords
  <2>2. PanelRecords' /\ SaveInv' /\ SaveButtonFits'
    BY <2>1, <1>1, <1>3 DEF PanelInv, PanelRecords, SaveInv, SaveButtonFits, NoAction,
                            Accounts, Differs
  <2> QED
    BY <2>2, <1>2, <1>3 DEF PanelInv
<1> QED
  BY <1>4, <1>5

--------------------------------------------------------------------------------
LEMMA PanelStep == PanelInv /\ [PanelNext]_panelVars => PanelInv'
<1> SUFFICES ASSUME PanelInv, [PanelNext]_panelVars
             PROVE  PanelInv'
  OBVIOUS
<1>1. CASE RefreshStep \/ (\E r \in Busy : RefreshOffline(r))
  BY <1>1, RefreshKeeps
<1>2. CASE PanelUser \/ EditsForm
  BY <1>2, BeginsKeeps, EditsFormKeeps, TestBeginsKeeps, AsksAgainKeeps DEF PanelUser
<1>3. CASE SessionEnds \/ ActionServed
  BY <1>3, ServedKeeps
<1>4. CASE ActionDone
  BY <1>4, DoneKeeps
<1>5. CASE SaveStored \/ SaveDone
  BY <1>5, SavesKeep
<1>6. CASE TestDone
  BY <1>6, TestDoneKeeps
<1>7. CASE UNCHANGED panelVars
  BY <1>7 DEF panelVars, PanelInv, PanelRecords, AuditInv, NewerAuditStays, TestInv, SaveInv,
              ClientIsConfigured, SaveButtonFits, Configured
<1> QED
  BY <1>1, <1>2, <1>3, <1>4, <1>5, <1>6, <1>7 DEF PanelNext

LEMMA PanelAnyhow == PanelInit /\ [][PanelNext]_panelVars => [](SettingsAgree /\ NewerAuditStays)
<1>1. PanelInv => SettingsAgree /\ NewerAuditStays
  BY DEF PanelInv, SettingsAgree, AuditInv
<1> QED
  BY <1>1, PanelInitInv, PanelStep, PTL

\* Configuration, form and client agree, for any accounts, any number of refreshes
\* and any number of tests at once: requests go where the configuration says once no
\* test is under way, unless one overlapped a change of it or another test, and a form
\* of another mode can be saved.
THEOREM SettingsAlwaysAgree == PanelSpec => []SettingsAgree
BY PanelAnyhow, PTL DEF PanelSpec

\* A refresh that was overtaken never puts older audit events in the place of newer
\* ones, in whatever order its answers come and whichever of them fail.
THEOREM AuditMovesForward == PanelSpec => []NewerAuditStays
BY PanelAnyhow, PTL DEF PanelSpec

--------------------------------------------------------------------------------
(* The compression of a history: any histories, budgets and ways to count. *)

CompressionInv ==
  /\ history \in Histories /\ offer \in Offers(history) /\ count \in Counts
  /\ plan = <<>> \/ plan = Compressed(count, history, offer, Used(count, history))

LEMMA CompressionStep ==
  /\ CompressionInit => CompressionInv
  /\ CompressionInv /\ [Choose]_compressionVars => CompressionInv'
BY DEF CompressionInit, CompressionInv, Choose, compressionVars

LEMMA PlanIsBest ==
  ASSUME CompressionInv, plan # <<>>
  PROVE  /\ history \in Seq(Entries) /\ plan \in Shapes(history)
         /\ count \in Quotes /\ ~(Used(count, plan) >= Used(count, history))
         /\ \E m \in 1..Len(Candidates(history, offer)) :
              /\ plan = Candidates(history, offer)[m]
              /\ Best(count, Candidates(history, offer), Len(Candidates(history, offer)), m)
<1>1. history \in Seq(Entries) /\ count \in Quotes /\ offer \in Offers(history)
  BY CompressionAssumption DEF CompressionInv, Quotes
<1>2. plan = Compressed(count, history, offer, Used(count, history))
  BY DEF CompressionInv
<1> QED
  BY <1>1, <1>2, CompressedIsBest

LEMMA PlanChoosesBest == CompressionInv => ChoosesBest
<1> SUFFICES ASSUME CompressionInv, plan # <<>> PROVE ChoosesBest
  BY DEF ChoosesBest
<1> DEFINE cands == Candidates(history, offer)
           n == Len(cands)
           fitting == {i \in DOMAIN cands : Fits(count, cands[i])}
           least == {i \in DOMAIN cands : \A j \in DOMAIN cands :
                       Used(count, cands[i]) <= Used(count, cands[j])}
<1>1. /\ history \in Seq(Entries) /\ plan \in Shapes(history) /\ count \in Quotes
      /\ offer \in Offers(history) /\ ~(Used(count, plan) >= Used(count, history))
  BY PlanIsBest DEF CompressionInv
<1>2. cands \in Seq(Shapes(history))
  BY <1>1, CandidatesShape
<1>3. PICK m \in 1..n : plan = cands[m] /\ Best(count, cands, n, m)
  BY PlanIsBest
<1> HIDE DEF cands
<1>4. DOMAIN cands = 1..n /\ n \in Nat /\ \A i \in 1..n : cands[i] \in Shapes(history)
  BY <1>2
<1>5. \A i \in 1..n : Used(count, cands[i]) \in Nat
  BY <1>1, <1>4, ShapeFrame, LeanUsed
<1>6. Used(count, plan) < Used(count, history)
  <2>1. Used(count, plan) \in Nat /\ Used(count, history) \in Nat
    BY <1>1, ShapeFrame, LeanUsed, HistoryUsed
  <2> QED
    BY <1>1, <2>1
<1>7. fitting \subseteq 1..n /\ least \subseteq 1..n
  BY <1>4
<1> HIDE DEF n
<1>8. m = IF fitting # {} THEN Min(fitting) ELSE Min(least)
  <2>1. CASE Fits(count, cands[m]) /\ \A j \in 1..(m - 1) : ~Fits(count, cands[j])
    <3>1. m \in fitting /\ \A j \in 1..(m - 1) : j \notin fitting
      BY <1>4, <2>1
    <3> HIDE DEF fitting
    <3> QED
      BY <1>4, <1>7, <3>1, FirstIsMin
  <2>2. CASE /\ \A j \in 1..n : ~Fits(count, cands[j]) /\ Used(count, cands[m]) <= Used(count, cands[j])
             /\ \A j \in 1..(m - 1) : Used(count, cands[m]) < Used(count, cands[j])
    <3>1. fitting = {} /\ m \in least
      BY <1>4, <2>2
    <3>2. ASSUME NEW j \in 1..(m - 1) PROVE j \notin least
      <4>1. m \in 1..n /\ j \in 1..n
        BY <1>4
      <4>2. Used(count, cands[m]) < Used(count, cands[j])
        BY <2>2
      <4>3. ~(Used(count, cands[j]) <= Used(count, cands[m]))
        BY <1>5, <4>1, <4>2
      <4> QED
        BY <1>4, <4>1, <4>3
    <3> HIDE DEF fitting, least
    <3> QED
      BY <1>4, <1>7, <3>1, <3>2, FirstIsMin
  <2> QED
    BY <1>3, <2>1, <2>2 DEF Best
<1> QED
  BY <1>3, <1>6, <1>8 DEF ChoosesBest, cands

LEMMA PlanKeepsTheFrame == CompressionInv => KeepsTheFrame
<1> SUFFICES ASSUME CompressionInv, plan # <<>> PROVE KeepsTheFrame
  BY DEF KeepsTheFrame
<1>1. history \in Seq(Entries) /\ plan \in Shapes(history)
  BY PlanIsBest
<1>2. /\ plan \in Seq(Lean(history))
      /\ OfRole(plan, "system") = OfRole(history, "system")
      /\ Last(plan) = Last(history) \/ Dialog(plan) = LastOf(OfRole(history, "user"))
  BY <1>1, ShapeFrame
<1>3. ASSUME NEW e \in Lean(history)
      PROVE  e \in Range(history) \/ (e.role = "assistant" /\ e.id = None)
  BY <1>1, WrittenType DEF Lean, Members, Range
<1> DEFINE L == Lean(history)
<1>4. \A e \in L : e \in Range(history) \/ (e.role = "assistant" /\ e.id = None)
  BY <1>3
<1>5. plan \in Seq(L)
  BY <1>2
<1> HIDE DEF L
<1>6. \A i \in DOMAIN plan : plan[i] \in L
  BY <1>5
<1> QED
  BY <1>2, <1>4, <1>6 DEF KeepsTheFrame

\* Whatever is sent in the place of a history is the first candidate that fits, or
\* else the first of the least ones, and less than the history (compressHistory).
THEOREM ChoiceIsBest == CompressionSpec => []ChoosesBest
BY CompressionStep, PlanChoosesBest, PTL DEF CompressionSpec

\* All that the system said stays in it, it ends as the history does or is, after that,
\* the last that the user said (though a reply to it ended the history), and all else
\* in it is of the history or a summary (buildHistoryCandidate).
THEOREM FrameIsKept == CompressionSpec => []KeepsTheFrame
BY CompressionStep, PlanKeepsTheFrame, PTL DEF CompressionSpec

--------------------------------------------------------------------------------
(* The start of the client. *)

\* What was read of the backend and is not acted on yet is what the backend says, or
\* the backend was not up when it was read; and its mode is the backend's, unless the
\* backend was told to leave the server mode.
PingFits ==
  ping.at = "read" =>
    /\ ping.state \in {"none", "loading"} \/ ping.state = backend[url].state
    /\ ping.remote = backend[url].remote \/ recovered

StartShape ==
  /\ StartTypeOK
  /\ ping \in [at : {"none", "read"}, state : States, remote : BOOLEAN]
  /\ recovered \in BOOLEAN
  /\ outcome # "waiting" => ping.at = "none"

StartInv == StartShape /\ PingFits /\ OpensOnTheBackend /\ FailsForCause

LEMMA StartBegins == StartInit => StartInv
<1> SUFFICES ASSUME StartInit PROVE StartInv
  OBVIOUS
<1>1. PICK states \in [Ports -> {"none", "foreign", "ready", "error"}], remote \in BOOLEAN :
        backend = [p \in Ports |-> [state |-> states[p], remote |-> remote]]
  BY DEF StartInit
<1>2. backend \in [Ports -> [state : States, remote : BOOLEAN]]
  BY <1>1 DEF States
<1>3. ping.at = "none" /\ ping \in [at : {"none", "read"}, state : States, remote : BOOLEAN]
  BY DEF StartInit, NoPing, States
<1>4. outcome \in {"waiting", "onboarding"}
  BY DEF StartInit
<1> QED
  BY <1>2, <1>3, <1>4, StartAssumption
     DEF StartInit, StartInv, StartShape, StartTypeOK, PingFits, OpensOnTheBackend,
         FailsForCause, Outcomes

\* The launcher and the backends go on: what serves goes on serving, and what failed
\* or is another service stays so.
LEMMA LauncherKeeps ==
  ASSUME StartInv, LauncherMoves \/ BackendMoves
  PROVE  StartInv'
<1>1. /\ backend \in [Ports -> [state : States, remote : BOOLEAN]] /\ told \in Ports /\ url \in Ports
      /\ Default \in Ports
  BY StartAssumption DEF StartInv, StartShape, StartTypeOK
<1>2. \/ UNCHANGED backend
      \/ \E p \in Ports, state \in States :
           backend[p].state \in {"none", "loading"} /\ Answers(p, state)
  BY <1>1 DEF LauncherMoves, LauncherPicks, LauncherFinds, LauncherRetries, LauncherFails,
              BackendMoves, States
<1>3. /\ backend' \in [Ports -> [state : States, remote : BOOLEAN]]
      /\ \A p \in Ports : /\ backend'[p].remote = backend[p].remote
                          /\ \/ backend'[p].state = backend[p].state
                             \/ backend[p].state \in {"none", "loading"}
  BY <1>1, <1>2 DEF Answers
<1>4. /\ launcher' \in {"starting", "booting", "ready", "error"} /\ told' \in Ports
      /\ launcher = "error" => launcher' = "error"
      /\ UNCHANGED <<desktop, local, url, ping, recovered, outcome, settled, timeUp>>
  BY <1>1 DEF LauncherMoves, LauncherPicks, LauncherFinds, LauncherRetries, LauncherFails,
              BackendMoves, StartInv, StartShape, StartTypeOK
<1>5. StartShape'
  BY <1>3, <1>4 DEF StartInv, StartShape, StartTypeOK
<1>6. PingFits'
  BY <1>1, <1>3, <1>4 DEF StartInv, PingFits
<1>7. OpensOnTheBackend'
  BY <1>1, <1>3, <1>4 DEF StartInv, OpensOnTheBackend
<1>8. FailsForCause'
  BY <1>1, <1>3, <1>4 DEF StartInv, FailsForCause, Health
<1> QED
  BY <1>5, <1>6, <1>7, <1>8 DEF StartInv

LEMMA RecoverKeeps == ASSUME StartInv, Recover PROVE StartInv'
<1>1. url \in Ports /\ backend \in [Ports -> [state : States, remote : BOOLEAN]]
  BY DEF StartInv, StartShape, StartTypeOK
<1>2. CASE ping' = NoPing /\ backend' = [backend EXCEPT ![url].remote = FALSE]
  <2>1. backend' \in [Ports -> [state : States, remote : BOOLEAN]]
    BY <1>1, <1>2
  <2>2. \A p \in Ports : backend'[p].state = backend[p].state
    BY <1>1, <1>2
  <2>3. ping'.at = "none" /\ ping' \in [at : {"none", "read"}, state : States, remote : BOOLEAN]
    BY <1>2 DEF NoPing, States
  <2> QED
    BY <1>1, <2>1, <2>2, <2>3
       DEF Recover, StartInv, StartShape, StartTypeOK, PingFits, OpensOnTheBackend,
           FailsForCause
<1>3. CASE ping' = [ping EXCEPT !.remote = FALSE] /\ UNCHANGED backend
  <2>1. /\ ping' \in [at : {"none", "read"}, state : States, remote : BOOLEAN]
        /\ ping'.at = ping.at /\ ping'.state = ping.state
    BY <1>3 DEF StartInv, StartShape
  <2> QED
    BY <1>3, <2>1
       DEF Recover, StartInv, StartShape, StartTypeOK, PingFits, OpensOnTheBackend,
           FailsForCause
<1> QED
  BY <1>2, <1>3 DEF Recover

LEMMA ClientKeeps ==
  ASSUME StartInv, StartClient \/ TimePasses, ~Recover
  PROVE  StartInv'
<1>1. NoPing.at = "none" /\ NoPing \in [at : {"none", "read"}, state : States, remote : BOOLEAN]
  BY DEF NoPing, States
<1>2. CASE Ping
  <2>1. /\ ping' \in [at : {"none", "read"}, state : States, remote : BOOLEAN]
        /\ ping'.state = backend[url].state /\ ping'.remote = backend[url].remote
    BY <1>2 DEF Ping, StartInv, StartShape, StartTypeOK
  <2> QED
    BY <1>2, <2>1
       DEF Ping, Waiting, StartInv, StartShape, StartTypeOK, PingFits, OpensOnTheBackend,
           FailsForCause
<1>3. CASE PingReady
  BY <1>1, <1>3
     DEF PingReady, Ended, Recovers, Health, StartInv, StartShape, StartTypeOK, PingFits,
         OpensOnTheBackend, FailsForCause, Outcomes
<1>4. CASE PingError
  BY <1>1, <1>4
     DEF PingError, Followed, Ended, Health, StartInv, StartShape, StartTypeOK, PingFits,
         OpensOnTheBackend, FailsForCause, Outcomes
<1>5. CASE PingFails
  <2>1. /\ outcome = "waiting" /\ ping' = NoPing
        /\ url' = told \/ UNCHANGED url
        /\ \/ outcome' = "failed" /\ desktop /\ launcher = "error"
           \/ UNCHANGED outcome
        /\ UNCHANGED <<backend, launcher, told, desktop, local, recovered, settled, timeUp>>
    <3>1. PICK asked \in {FALSE, desktop} :
            /\ url' = Followed(asked)
            /\ IF asked /\ launcher = "error" THEN Ended("failed")
               ELSE ping' = NoPing /\ UNCHANGED outcome
      BY <1>5 DEF PingFails
    <3>2. asked => desktop
      BY <3>1
    <3>3. /\ outcome = "waiting"
          /\ UNCHANGED <<backend, launcher, told, desktop, local, recovered, settled, timeUp>>
      BY <1>5 DEF PingFails, StartInv, StartShape
    <3> QED
      BY <3>1, <3>2, <3>3 DEF Followed, Ended
  <2> QED
    BY <1>1, <2>1 DEF StartInv, StartShape, StartTypeOK, PingFits, OpensOnTheBackend,
                      FailsForCause, Outcomes
<1>6. CASE PingLoading
  BY <1>1, <1>6
     DEF PingLoading, StartInv, StartShape, StartTypeOK, PingFits,
         OpensOnTheBackend, FailsForCause
<1>7. CASE TimeUp
  BY <1>1, <1>7
     DEF TimeUp, GivesUp, Ended, StartInv, StartShape, StartTypeOK, PingFits,
         OpensOnTheBackend, FailsForCause, Outcomes
<1>8. CASE Settles \/ TimePasses
  BY <1>8
     DEF Settles, TimePasses, StartInv, StartShape, StartTypeOK, PingFits,
         OpensOnTheBackend, FailsForCause
<1> QED
  BY <1>2, <1>3, <1>4, <1>5, <1>6, <1>7, <1>8 DEF StartClient

LEMMA StartKept == StartInv /\ [StartNext]_startVars => StartInv'
<1>1. StartInv /\ StartNext => StartInv'
  BY LauncherKeeps, RecoverKeeps, ClientKeeps DEF StartNext
<1>2. StartInv /\ UNCHANGED startVars => StartInv'
  BY DEF startVars, StartInv, StartShape, StartTypeOK, PingFits, OpensOnTheBackend,
         FailsForCause
<1> QED
  BY <1>1, <1>2

\* The application opens only on a backend that serves, on a local one when the
\* client is local, unless it was told before to leave the server mode, and the
\* start fails only for a cause that still holds, whichever ports there are and
\* whatever the launcher says of them: no health that was read before the launcher or
\* a backend went on is acted on wrongly (waitForBackendStartup).
THEOREM StartIsRight == StartSpec => [](OpensOnTheBackend /\ FailsForCause)
<1>1. StartInv => OpensOnTheBackend /\ FailsForCause
  BY DEF StartInv
<1> QED
  BY <1>1, StartBegins, StartKept, PTL DEF StartSpec

--------------------------------------------------------------------------------
(* All parts together. *)

\* Without the compression there is no plan.
NoPlan == part # "compression" /\ plan = <<>>

LEMMA PartsStart ==
  PartsInit => /\ PluginsInit /\ ModelsInit /\ PanelInit /\ StartInv
               /\ CompressionInit \/ NoPlan
<1>1. PartsInit => PluginsInit /\ ModelsInit /\ PanelInit /\ (CompressionInit \/ NoPlan)
  BY DEF PartsInit, CompressionInit, NoPlan
<1>2. PartsInit => StartInit
  <2> SUFFICES ASSUME PartsInit, part # "start" PROVE StartInit
    BY DEF PartsInit
  <2>1. [p \in Ports |-> "none"] \in [Ports -> {"none", "foreign", "ready", "error"}]
    OBVIOUS
  <2>2. backend = [p \in Ports |-> [state |-> [q \in Ports |-> "none"][p], remote |-> FALSE]]
    BY DEF PartsInit
  <2> QED
    BY <2>1, <2>2, StartAssumption DEF PartsInit, StartInit
<1> QED
  BY <1>1, <1>2, StartBegins

LEMMA PartsMove ==
  [PartsNext]_partsVars =>
    /\ [PluginsNext]_pluginVars /\ [ModelsNext]_modelVars /\ [PanelNext]_panelVars
    /\ [StartNext]_startVars /\ [Choose]_compressionVars /\ (NoPlan => NoPlan')
BY DEF PartsNext, partsVars, NoPlan, compressionVars

\* The parts keep what each of them promises when they are one client: the pages of
\* the plugins and of the models tell the truth once all is quiet and nothing came
\* late, configuration, form and client agree as SettingsAgree says, the audit events
\* shown are the newest that were, a compressed history is the best candidate and keeps
\* its frame, the start opens only on a backend that serves and fails only for a cause,
\* and the backend keeps what a window saves.
THEOREM PartsAreRight ==
  PartsSpec => /\ [](PluginsPageIsTrue /\ SelectedIsServed)
               /\ [](SettingsAgree /\ NewerAuditStays)
               /\ [](ChoosesBest /\ KeepsTheFrame)
               /\ [](OpensOnTheBackend /\ FailsForCause)
               /\ SavedAsSent
<1>1. PartsInit /\ [][PartsNext]_partsVars =>
        /\ PluginsInit /\ [][PluginsNext]_pluginVars
        /\ ModelsInit /\ [][ModelsNext]_modelVars
        /\ PanelInit /\ [][PanelNext]_panelVars
        /\ StartInv /\ [][StartNext]_startVars
  BY PartsStart, PartsMove, PTL
<1>2. PartsInit /\ [][PartsNext]_partsVars => [](CompressionInv \/ NoPlan)
  BY PartsStart, PartsMove, CompressionStep, PTL
<1>3. CompressionInv \/ NoPlan => ChoosesBest /\ KeepsTheFrame
  BY PlanChoosesBest, PlanKeepsTheFrame DEF NoPlan, ChoosesBest, KeepsTheFrame
<1>4. StartInv => OpensOnTheBackend /\ FailsForCause
  BY DEF StartInv
<1> QED
  BY <1>1, <1>2, <1>3, <1>4, StartKept, PluginsAnyhow, ChosenAnyhow, PanelAnyhow,
     SavesStandAnyhow, PTL DEF PartsSpec
================================================================================
