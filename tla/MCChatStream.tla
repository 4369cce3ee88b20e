----------------------------- MODULE MCChatStream -----------------------------
(* Instances of ChatStream for TLC.                                          *)
EXTENDS ChatStream, TLC

(* Every turn may be a retry of another one.                                 *)
Retried == [t \in Turns |-> "same"]

(* Turns differ in nothing but their names.                                  *)
Symmetry == Permutations(Turns)
================================================================================
