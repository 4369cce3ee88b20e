----------------------------- MODULE Compression ------------------------------
(***************************************************************************)
(* The choice of a compressed history, on its own: a history, the tail for *)
(* which the model's summary came, and a way to count tokens are given.    *)
(***************************************************************************)
EXTENDS HistoryCompression

CONSTANTS Histories,  \* histories to compress
          Counts      \* ways to count tokens: see Used

ASSUME CompressionAssumption ==
  /\ Histories \subseteq Seq(Entries)
  /\ Counts \subseteq [window : Nat, entry : Nat, summary : Nat]

VARIABLES history, offer, count, plan

compressionVars == <<history, offer, count, plan>>

CompressionInit ==
  /\ history \in Histories
  /\ offer \in Offers(history)
  /\ count \in Counts
  /\ plan = <<>>

Choose ==
  /\ plan = <<>>
  /\ plan' = Compressed(count, history, offer, Used(count, history))
  /\ UNCHANGED <<history, offer, count>>

CompressionSpec == CompressionInit /\ [][Choose]_compressionVars

-----------------------------------------------------------------------------
\* What is taken instead of the history fits if any candidate does, and then no
\* gentler one fits; else it is the least of them.  It is always less than the
\* history (compressHistory).
ChoosesBest ==
  LET cands == Candidates(history, offer)
      fitting == {i \in DOMAIN cands : Fits(count, cands[i])}
      least == {i \in DOMAIN cands : \A j \in DOMAIN cands :
                  Used(count, cands[i]) <= Used(count, cands[j])}
  IN plan # <<>> =>
       /\ Used(count, plan) < Used(count, history)
       /\ plan = cands[IF fitting # {} THEN Min(fitting) ELSE Min(least)]

\* A compressed history keeps all the system's entries, in their order, and either
\* ends as the history does or is, after them, just the last message of the user: what
\* was answered to that message is left out then.  Nothing is in it that was not in the
\* history but summaries (buildHistoryCandidate).
KeepsTheFrame ==
  plan # <<>> =>
    /\ OfRole(plan, "system") = OfRole(history, "system")
    /\ \/ Last(plan) = Last(history)
       \/ Dialog(plan) = LastOf(OfRole(history, "user"))
    /\ \A i \in DOMAIN plan : \/ plan[i] \in Range(history)
                              \/ plan[i].role = "assistant" /\ plan[i].id = None
=============================================================================
