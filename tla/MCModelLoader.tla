---------------------------- MODULE MCModelLoader ----------------------------
(* Instances of ModelLoader for TLC.                                         *)
EXTENDS ModelLoader, TLC

CONSTANTS m1, r1, r2

(* One client manages models while the other one chats.                      *)
ManagerAndChat == r1 :> {"select", "load", "unload"} @@ r2 :> {"chat"}

(* Both clients chat, and one of them unloads the model.                     *)
ChatAndUnload == r1 :> {"chat"} @@ r2 :> {"chat", "unload"}

(* Loader threads do the same.                                               *)
Symmetry == Permutations(Loaders)

(* Bound: two threads exist at a time only while one model is all there is.  *)
LoadersShareModel ==
  (\A l \in Loaders : pc[l] # "free") =>
    /\ selected = m1
    /\ {weights, loadedId} \subseteq {m1, None}
    /\ \A t \in Threads : target[t] # None => target[t].model \in {m1, None}
================================================================================
