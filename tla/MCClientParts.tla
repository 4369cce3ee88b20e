----------------------------- MODULE MCClientParts -----------------------------
EXTENDS ClientParts

CONSTANTS p, m1, m2, admin, bob

AllParts == {"plugins", "models", "settings", "start", "compression"}

(* Two models, of which one allows fewer tokens than TokensLimit. *)
MaxContextC == m1 :> 4 @@ m2 :> 8
PresetsC == {[tokens |-> 6, context |-> 12]}

LinesC == <<3, 1>>
HistoriesC == UNION {{[i \in 1..n |-> Entry(i, roles[i])] : roles \in [1..n -> Roles]} :
                       n \in 2..6}
CountsC == [window : {4, 8}, entry : {2}, summary : {1, 3}]
=============================================================================
