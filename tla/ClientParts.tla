------------------------------ MODULE ClientParts ------------------------------
(***************************************************************************)
(* Five parts of the web client, each for itself: the page of the plugins, *)
(* the page of the models, the settings with their session panel, the      *)
(* start of the client and the compression of a history.  They have little *)
(* in common in the code (the configuration of the client, which the start *)
(* may change before the settings are there to be used), and nothing here: *)
(* a behaviour is one of one part, and the others stay where they begin.   *)
(***************************************************************************)
EXTENDS PluginsPage, ModelsPage, ServerPanel, AppStart, Compression

CONSTANT Parts   \* the parts whose behaviours are explored

VARIABLE part

partsVars == <<part, pluginVars, modelVars, panelVars, startVars, compressionVars>>

\* A part that is not explored begins in one of its initial states.
PartsInit ==
  /\ part \in Parts
  /\ PluginsInit
  /\ ModelsInit /\ (part # "models" => chosen = CHOOSE m \in Models : TRUE)
  /\ PanelInit /\ (part # "settings" => config.mode = "local")
  /\ IF part = "start" THEN StartInit
     ELSE /\ backend = [port \in Ports |-> [state |-> "none", remote |-> FALSE]]
          /\ launcher = "starting" /\ told = Default /\ desktop = TRUE /\ local = TRUE
          /\ url = Default /\ ping = NoPing /\ recovered = FALSE /\ outcome = "onboarding"
          /\ settled = FALSE /\ timeUp = FALSE
  /\ IF part = "compression" THEN CompressionInit
     ELSE /\ history = <<>> /\ offer = None /\ plan = <<>>
          /\ count = CHOOSE c \in Counts : TRUE

PartsNext ==
  /\ part' = part
  /\ \/ /\ part = "plugins" /\ PluginsNext
        /\ UNCHANGED <<modelVars, panelVars, startVars, compressionVars>>
     \/ /\ part = "models" /\ ModelsNext
        /\ UNCHANGED <<pluginVars, panelVars, startVars, compressionVars>>
     \/ /\ part = "settings" /\ PanelNext
        /\ UNCHANGED <<pluginVars, modelVars, startVars, compressionVars>>
     \/ /\ part = "start" /\ StartNext
        /\ UNCHANGED <<pluginVars, modelVars, panelVars, compressionVars>>
     \/ /\ part = "compression" /\ Choose
        /\ UNCHANGED <<pluginVars, modelVars, panelVars, startVars>>

\* The fairness of the models, the panel and the start, each while it is explored.
PartsFairness ==
  /\ WF_modelVars(part = "models" /\ (FetchServed \/ FetchDone))
  /\ WF_modelVars(part = "models" /\ PollFires)
  /\ WF_modelVars(part = "models" /\ LoadingEnds)
  /\ WF_modelVars(part = "models" /\ RequestServed)
  /\ WF_modelVars(part = "models" /\ (RequestDone \/ RequestFails))
  /\ WF_panelVars(part = "settings" /\ RefreshStep)
  /\ WF_startVars(part = "start" /\ StartClient)
  /\ WF_startVars(part = "start" /\ TimePasses)

PartsSpec == PartsInit /\ [][PartsNext]_partsVars /\ PartsFairness
=============================================================================
