----------------------------- MODULE MCGeneration -----------------------------
(* Instances of Generation for TLC.                                          *)
EXTENDS Generation, TLC

CONSTANTS s1, s2, t1

(* Two streams and a title generation.                                       *)
TwoStreams == s1 :> "stream" @@ s2 :> "stream" @@ t1 :> "title"
================================================================================
