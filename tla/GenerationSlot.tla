---------------------------- MODULE GenerationSlot ----------------------------
(***************************************************************************)
(* What the engine promises about the one model it has: generations take    *)
(* turns, a stop concerns the generation whose turn it is and no other, and  *)
(* the outcome of a call is settled once.                                   *)
(***************************************************************************)
CONSTANTS Calls, None

VARIABLES
  holder,    \* the call that is generating
  asked,     \* it was asked to stop since its turn began
  outcome    \* how a call ended

vars == <<holder, asked, outcome>>

Init ==
  /\ holder = None
  /\ asked = FALSE
  /\ outcome = [c \in Calls |-> "open"]

Acquire(c) ==
  /\ holder = None
  /\ outcome[c] = "open"
  /\ holder' = c
  /\ asked' = FALSE
  /\ UNCHANGED outcome

Ask ==
  /\ holder # None
  /\ asked' = TRUE
  /\ UNCHANGED <<holder, outcome>>

(* The turn ends: the call goes on later, or has ended.  Only a call that was *)
(* asked to stop may end as stopped.                                         *)
Release(c) ==
  /\ holder = c
  /\ holder' = None
  /\ asked' = FALSE
  /\ \E o \in {"open", "done", "failed"} \cup {s \in {"stopped"} : asked} :
       outcome' = [outcome EXCEPT ![c] = o]

(* A call ends between its turns.                                            *)
Settle(c) ==
  /\ holder # c
  /\ outcome[c] = "open"
  /\ \E o \in {"done", "failed"} : outcome' = [outcome EXCEPT ![c] = o]
  /\ UNCHANGED <<holder, asked>>

Next == Ask \/ \E c \in Calls : Acquire(c) \/ Release(c) \/ Settle(c)

Spec == Init /\ [][Next]_vars
================================================================================
