------------------------------- MODULE ModelsPage -------------------------------
(***************************************************************************)
(* The page of the models (src/src/models): its copy of the list the       *)
(* backend serves, the model the client has chosen, the poll that follows  *)
(* a model being loaded, and the window with the parameters of one model.  *)
(*                                                                         *)
(* Lengths are in units: MinTokens stands for 16, MinContext for 256,      *)
(* TokensLimit for 131072.  A blank number field reads as zero where the   *)
(* window reacts to typing, and as no value at all where it saves.         *)
(***************************************************************************)
EXTENDS Naturals

CONSTANTS Models,        \* the models of the catalog
          MaxContext,    \* the largest context of each
          Requests,      \* the requests that can be under way at a time
          MinTokens, MinContext, TokensLimit,
          Presets,       \* the presets of the window: tokens and context
          Typed,         \* what is typed in a number field
          Blank,         \* a field that is left blank: no length
          MaxClicks      \* bound: what the user does, a request counted twice

ASSUME ModelsAssumption ==
  /\ "none" \notin Models
  /\ {MinTokens, MinContext, TokensLimit, Blank} \subseteq Nat
  /\ MinTokens <= MinContext /\ MinTokens <= TokensLimit /\ TokensLimit < Blank
  /\ MaxContext \in [Models -> MinContext..(Blank - 1)]
  /\ Presets \subseteq [tokens : Nat, context : Nat] /\ Typed \subseteq Nat

VARIABLES served,    \* what the backend keeps: the selected model, the status of the loader,
                     \* whether it runs, and the parameters
          list,      \* the last list the page was given
          chosen,    \* the model of the client's configuration
          fetch,     \* the request for the list under way
          poll,      \* a timer will ask for the list again
          request,   \* what the user asked for and was not answered yet
          window,    \* the window of the parameters
          late,      \* history: a request for the list was dropped or failed since the last began
          clicks

modelVars == <<served, list, chosen, fetch, poll, request, window, late, clicks>>

Clamp(v, low, high) == IF v < low THEN low ELSE IF v > high THEN high ELSE v
Number(v) == IF v = Blank THEN 0 ELSE v

NoFetch == [at |-> "none", answer |-> <<>>]
Unset == [tokens |-> Blank, context |-> Blank]
NoRequest == [at |-> "idle", kind |-> "none", model |-> "none", params |-> Unset]
NoWindow == [model |-> "none", tokens |-> Blank, context |-> Blank, saving |-> FALSE]

ModelsTypeOK ==
  /\ served.selected \in Models /\ chosen \in Models
  /\ served.loads \in BOOLEAN
  /\ {served.status, list.status} \subseteq {"none", "idle", "loading", "ready", "error"}
  /\ fetch.at \in {"none", "asked", "answered", "failed"} /\ poll \in BOOLEAN
  /\ window.model \in Models \cup {"none"}

ModelsInit ==
  \E m \in Models :
    /\ served = [selected |-> m, status |-> "idle", loads |-> FALSE,
                 params |-> [n \in Models |-> [tokens |-> MinTokens, context |-> MinContext]]]
    /\ list = [served EXCEPT !.status = "none"]
    /\ chosen = m
    /\ fetch = [NoFetch EXCEPT !.at = "asked"] /\ poll = FALSE
    /\ request = [r \in Requests |-> NoRequest]
    /\ window = NoWindow /\ late = FALSE /\ clicks = 0

-----------------------------------------------------------------------------
(* The list and its poll. *)

Fetching == fetch.at \in {"asked", "answered"}

\* Faulty variant: nobody asks again.
FetchForgotten == fetch' = fetch /\ late' = late

\* The list is asked for, unless an answer is awaited.
Fetch ==
  /\ fetch' = IF Fetching THEN fetch ELSE [NoFetch EXCEPT !.at = "asked"]
  /\ late' = Fetching

FetchServed ==
  /\ fetch.at = "asked"
  /\ fetch' = [at |-> "answered", answer |-> [served EXCEPT !.loads = FALSE]]
  /\ UNCHANGED <<served, list, chosen, poll, request, window, late, clicks>>

\* Faulty variant: the poll is set by the list before this one.
PollsBefore(answer) == list.status = "loading"

\* Whether the page asks again in a while.
Polls(answer) == answer.status = "loading"

\* The list chooses the model again, even over a choice made since it was asked for.
FetchDone ==
  /\ fetch.at = "answered"
  /\ list' = fetch.answer /\ chosen' = fetch.answer.selected
  /\ poll' = Polls(fetch.answer)
  /\ fetch' = NoFetch
  /\ UNCHANGED <<served, request, window, late, clicks>>

\* A request that fails sets no new timer.
FetchFails ==
  /\ Fetching
  /\ fetch' = [NoFetch EXCEPT !.at = "failed"] /\ late' = TRUE
  /\ UNCHANGED <<served, list, chosen, poll, request, window, clicks>>

PollFires ==
  /\ poll /\ poll' = FALSE
  /\ IF Fetching THEN UNCHANGED <<fetch, late>> ELSE Fetch
  /\ UNCHANGED <<served, list, chosen, request, window, clicks>>

\* The loader sets the status at each of its stages, also after an unload.
Loads ==
  /\ served.loads /\ served.status # "loading"
  /\ served' = [served EXCEPT !.status = "loading"]
  /\ UNCHANGED <<list, chosen, fetch, poll, request, window, late, clicks>>

LoadingEnds ==
  /\ served.loads
  /\ \E status \in {"ready", "error"} :
       served' = [served EXCEPT !.status = status, !.loads = FALSE]
  /\ UNCHANGED <<list, chosen, fetch, poll, request, window, late, clicks>>

-----------------------------------------------------------------------------
(* Requests. *)

AskFor(r, kind, model, params) ==
  /\ request[r].at = "idle"
  /\ request' = [request EXCEPT ![r] = [at |-> "asked", kind |-> kind, model |-> model,
                                        params |-> params]]

\* Parameters after an update, which names those that change.
Updated(params, new) ==
  [tokens  |-> IF new.tokens = Blank THEN params.tokens ELSE new.tokens,
   context |-> IF new.context = Blank THEN params.context ELSE new.context]

\* What the backend keeps of the parameters of m: tokens within the context,
\* the context within what the model has.
Normalized(m, params) ==
  LET context == Clamp(params.context, MinContext, MaxContext[m])
  IN [tokens  |-> Clamp(params.tokens, MinTokens, Clamp(context, MinTokens, TokensLimit)),
      context |-> context]

\* A load is left to the loader that runs, which never comes to it (see ModelLoader).
LoadAsked(m) ==
  [served EXCEPT !.selected = m, !.loads = TRUE,
                 !.status = IF served.loads THEN @ ELSE "loading"]

\* What each request does to the backend; a delete removes files only.
Performed(q) ==
  CASE q.kind = "select" -> [served EXCEPT !.selected = q.model]
    [] q.kind = "load"   -> LoadAsked(q.model)
    [] q.kind = "unload" -> [served EXCEPT !.status = "idle"]
    [] q.kind = "params" -> 
         [served EXCEPT !.params[q.model] = Normalized(q.model, Updated(@, q.params))]
    [] OTHER             -> served

RequestServed ==
  \E r \in Requests :
    /\ request[r].at = "asked"
    /\ \E outcome \in {"served", "refused", "lost"} :
         /\ served' = IF outcome = "refused" THEN served ELSE Performed(request[r])
         /\ request' = [request EXCEPT ![r].at = outcome]
    /\ UNCHANGED <<list, chosen, fetch, poll, window, late, clicks>>

\* A selected or loaded model is the client's choice at once.
Chosen(q) == IF q.kind \in {"select", "load"} THEN q.model ELSE chosen

\* Then the list is asked for; a saved window closes whichever window is open.
RequestDone ==
  \E r \in Requests :
    /\ request[r].at = "served"
    /\ chosen' = Chosen(request[r])
    /\ window' = IF request[r].kind = "params" THEN NoWindow ELSE window
    /\ request' = [request EXCEPT ![r] = NoRequest]
    /\ Fetch
    /\ UNCHANGED <<served, list, poll, clicks>>

RequestFails ==
  \E r \in Requests :
    /\ request[r].at \in {"refused", "lost"}
    /\ window' = IF request[r].kind = "params" THEN [window EXCEPT !.saving = FALSE] ELSE window
    /\ late' = (late \/ request[r].at = "lost")
    /\ request' = [request EXCEPT ![r] = NoRequest]
    /\ UNCHANGED <<served, list, chosen, fetch, poll, clicks>>

-----------------------------------------------------------------------------
(* The window of the parameters. *)

ContextMax(m) == MaxContext[m]
TokensMax(m) == Clamp(ContextMax(m), MinTokens, TokensLimit)

\* How many tokens the window allows for what its context field says.
TokensCap(w) ==
  Clamp(Clamp(Number(w.context), MinContext, ContextMax(w.model)), MinTokens, TokensMax(w.model))
Capped(w) == [w EXCEPT !.tokens = Clamp(Number(@), MinTokens, TokensCap(w))]

OpenWindow ==
  \E m \in Models :
    window' = Capped([model |-> m, saving |-> window.saving,
                      tokens |-> Clamp(list.params[m].tokens, MinTokens, TokensMax(m)),
                      context |-> Clamp(list.params[m].context, MinContext, ContextMax(m))])

CloseWindow == window.model # "none" /\ window' = [NoWindow EXCEPT !.saving = window.saving]

\* Faulty variant: only the context is followed by the tokens.
EntersUncapped(field, v) ==
  window' = IF field = "context" THEN Capped([window EXCEPT !.context = v])
                                 ELSE [window EXCEPT !.tokens = v]

\* Every keystroke in either field brings the tokens under the cap.
Enters(field, v) == window' = Capped([window EXCEPT ![field] = v])

Types == window.model # "none" /\ \E v \in Typed \cup {Blank}, field \in {"tokens", "context"} :
           Enters(field, v)

TakesPreset ==
  /\ window.model # "none"
  /\ \E preset \in Presets :
       window' = Capped([window EXCEPT
                   !.tokens = Clamp(preset.tokens, MinTokens, TokensMax(window.model)),
                   !.context = Clamp(preset.context, MinContext, ContextMax(window.model))])

\* What a save sends: the fields that are not blank.
ToSave(w) ==
  LET context == Clamp(w.context, MinContext, ContextMax(w.model))
      limit == IF w.context = Blank THEN TokensMax(w.model)
               ELSE Clamp(context, MinTokens, TokensMax(w.model))
  IN [tokens  |-> IF w.tokens = Blank THEN Blank ELSE Clamp(w.tokens, MinTokens, limit),
      context |-> IF w.context = Blank THEN Blank ELSE context]

SaveWindow(r) ==
  /\ window.model # "none" /\ ~window.saving
  /\ AskFor(r, "params", window.model, ToSave(window))
  /\ window' = [window EXCEPT !.saving = TRUE]

\* The buttons of the cards, and the button that asks for the list.
Clicks ==
  /\ clicks + 2 <= MaxClicks /\ clicks' = clicks + 2
  /\ \/ /\ list.status # "none"
        /\ \E r \in Requests :
             \/ \E m \in Models, kind \in {"select", "load"} :
                  AskFor(r, kind, m, Unset) /\ UNCHANGED window
             \/ \E kind \in {"unload", "delete"} :
                  AskFor(r, kind, list.selected, Unset) /\ UNCHANGED window
             \/ SaveWindow(r)
        /\ UNCHANGED <<fetch, late>>
     \/ Fetch /\ ~Fetching /\ UNCHANGED <<window, request>>
  /\ UNCHANGED <<served, list, chosen, poll>>

EditsWindow ==
  /\ list.status # "none"
  /\ clicks < MaxClicks /\ clicks' = clicks + 1
  /\ OpenWindow \/ CloseWindow \/ Types \/ TakesPreset
  /\ UNCHANGED <<served, list, chosen, fetch, poll, request, late>>

ModelsNext ==
  \/ FetchServed \/ FetchDone \/ FetchFails \/ PollFires \/ Loads \/ LoadingEnds
  \/ RequestServed \/ RequestDone \/ RequestFails \/ Clicks \/ EditsWindow

\* Requests are answered or fail, timers fire, and a model ends loading.
ModelsFairness == /\ WF_modelVars(FetchServed \/ FetchDone) /\ WF_modelVars(PollFires)
                  /\ WF_modelVars(LoadingEnds) /\ WF_modelVars(RequestServed)
                  /\ WF_modelVars(RequestDone \/ RequestFails)

ModelsSpec == ModelsInit /\ [][ModelsNext]_modelVars /\ ModelsFairness

-----------------------------------------------------------------------------
ModelsQuiet == ~Fetching /\ \A r \in Requests : request[r].at = "idle"

\* At rest the client's model is the one the backend has selected, unless a
\* request for the list was dropped or failed, or an answer lost, since the
\* last began: a list asked for before a choice and answered after it may
\* undo the choice, and only the next list puts it right.
SelectedIsServed == ModelsQuiet /\ ~late => chosen = served.selected

\* The backend keeps exactly what a window saves, and never cuts it: with a
\* blank field filled in by the backend, a preset, or a window opened on an
\* older list, what the window says is what answers are then made with.
SavedAsSent ==
  [][\A r \in Requests :
       request[r].at = "asked" /\ request[r].kind = "params" /\ request'[r].at \in {"served", "lost"}
       => LET sent == request[r].params
              kept == served'.params[request[r].model]
          IN /\ sent.tokens # Blank => kept.tokens = sent.tokens
             /\ sent.context # Blank => kept.context = sent.context]_modelVars

\* A page that shows a model being loaded stops doing so once it is loaded,
\* unless a request for the list failed: no reload the page drops or makes
\* in between leaves it without a timer.
BannerClears == (list.status = "loading") ~> (list.status # "loading" \/ fetch.at = "failed")
=============================================================================
