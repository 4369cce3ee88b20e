------------------------ MODULE BackendLauncher_proofs ------------------------
(***************************************************************************)
(* The shell owns every backend it has spawned, for any number of ports,     *)
(* processes, retries and changes around it.                                *)
(***************************************************************************)
EXTENDS BackendLauncher, TLAPS

(* The polls are counted below the deadline.                                *)
PollInv == pc = "alive" => polls < MaxPolls

(* The thread holds a process between its spawn and store_child only, and then *)
(* nothing else is stored; otherwise a child is stored from there to the end.  *)
HandInv ==
  /\ hand # NoProc => pc = "store" /\ procs[hand].port = port
  /\ child # NoProc => pc \in {"stored", "await", "alive", "stop", "done"}

(* Where the stored child listens, if it does.                               *)
PortInv ==
  child # NoProc =>
    /\ pc \in {"stored", "await", "alive"} => procs[child].port = port
    /\ startup.status = "ready" => procs[child].port = startup.port

(* Ready and error are last words; error is only said without a child.        *)
StatusInv ==
  /\ startup.status = "ready" => pc = "done"
  /\ startup.status = "error" => pc = "done" /\ child = NoProc

IInv == TypeOK /\ PollInv /\ NoLostBackend /\ HandInv /\ PortInv /\ StatusInv

--------------------------------------------------------------------------------
(* Types                                                                    *)

LEMMA InitIInv == Init => IInv
  BY LauncherAssumption DEF Init, IInv, TypeOK, PollInv, NoLostBackend, Alive, HandInv, PortInv,
     StatusInv, Port, DefaultPort, NoPort, Stages

(* A step keeps the types.                                                  *)
LEMMA TypeStep ==
  ASSUME TypeOK, PollInv, [Next]_vars
  PROVE  TypeOK' /\ PollInv'
  <1> USE LauncherAssumption DEF TypeOK, PollInv, Stages, Port, DefaultPort, NoPort, pickVars
  <1>1. CASE Begin
    BY <1>1 DEF Begin, Report
  <1>2. CASE CheckRunning
    BY <1>2 DEF CheckRunning, Report, Finish, Reaped, Running
  <1>3. CASE GiveUp
    BY <1>3 DEF GiveUp, Report, Finish
  <1>4. CASE Try
    BY <1>4 DEF Try
  <1>5. CASE PickProbe
    BY <1>5 DEF PickProbe, Report, Finish
  <1>6. CASE PickRecheck
    BY <1>6 DEF PickRecheck, Report, Finish
  <1>7. CASE PickBind
    BY <1>7 DEF PickBind
  <1>8. CASE PickEnd
    BY <1>8 DEF PickEnd, Report, Finish
  <1>9. CASE Select
    BY <1>9 DEF Select, Report
  <1>10. CASE Spawn
    BY <1>10 DEF Spawn, Reaped, Running
  <1>11. CASE SpawnFails
    BY <1>11 DEF SpawnFails, Report, Finish, Reaped, Running
  <1>12. CASE StoreChild
    BY <1>12 DEF StoreChild, KillChild
  <1>13. CASE AwaitBegin
    BY <1>13 DEF AwaitBegin, Report
  <1>14. CASE AwaitProbe
    BY <1>14 DEF AwaitProbe, Report, Finish
  <1>15. CASE AwaitAlive
    BY <1>15 DEF AwaitAlive, Reaped, Running
  <1>16. CASE AwaitTimeout
    BY <1>16 DEF AwaitTimeout
  <1>17. CASE StopChild
    BY <1>17 DEF StopChild, KillChild
  <1>18. CASE StopReport
    BY <1>18 DEF StopReport, Report
  <1>19. CASE Retry
    <2>1. /\ port \in Port /\ pc = "retry"
          /\ pc' \in {"try", "done"}
          /\ attempted' \subseteq Port
      BY <1>19 DEF Retry, Report, Finish
    <2>2. startup' \in [status : {"idle", "starting", "ready", "stopped", "error"}, port : Port]
      <3>1. startup' = [status |-> "starting", port |-> port]
              \/ startup' = [status |-> "error", port |-> port]
        BY <1>19 DEF Retry, Report, Finish
      <3> QED
        BY <2>1, <3>1
    <2>3. pc' \in Stages /\ pc' # "alive" /\ pc' # "pick"
      BY <2>1
    <2>4. UNCHANGED <<child, procs, others, changes, port, spare, polls, hand, shell>>
      BY <1>19 DEF Retry
    <2> QED
      BY <2>1, <2>2, <2>3, <2>4
  <1>20. CASE CloseWindow
    BY <1>20 DEF CloseWindow
  <1>21. CASE ShellKill
    BY <1>21 DEF ShellKill, KillChild
  <1>22. CASE ShellReport
    <2>1. shell.at \in {"CloseRequested", "Destroyed", "ExitRequested", "Exit"}
      BY <1>22 DEF ShellReport
    <2>2. NextEvent[shell.at] \in {"Destroyed", "ExitRequested", "Exit", "gone"}
      BY <2>1 DEF NextEvent
    <2>3. startup' = [status |-> "stopped", port |-> startup.port]
          /\ shell' = [at |-> NextEvent[shell.at], half |-> FALSE]
      BY <1>22 DEF ShellReport, Report
    <2>4. UNCHANGED <<child, procs, others, changes, pc, pickVars, hand>>
      BY <1>22 DEF ShellReport
    <2> QED
      BY <2>2, <2>3, <2>4
  <1>23. CASE Query
    BY <1>23 DEF Query, Reaped
  <1>24. CASE \E q \in Proc : Boot(q)
    BY <1>24 DEF Boot
  <1>25. CASE \E q \in Proc : Die(q)
    <2>1. PICK q \in Proc : Die(q)
      BY <1>25
    <2>2. procs' \in [Proc -> [state : {"unborn", "booting", "healthy", "exited"},
                               port : Port \cup {NoPort}]]
      BY <2>1 DEF Die
    <2> QED
      BY <2>1, <2>2 DEF Die
  <1>26. CASE \E p \in Port : OthersChange(p)
    <2>1. PICK p \in Port : OthersChange(p)
      BY <1>26
    <2>2. changes' \in 0 .. MaxChanges
      BY <2>1 DEF OthersChange
    <2>3. others' \in [Port -> {"nobody", "ancia", "service"}]
      BY <2>1 DEF OthersChange
    <2> QED
      BY <2>1, <2>2, <2>3 DEF OthersChange
  <1>27. CASE UNCHANGED vars
    BY <1>27 DEF vars
  <1> QED
    BY <1>1, <1>2, <1>3, <1>4, <1>5, <1>6, <1>7, <1>8, <1>9, <1>10, <1>11, <1>12, <1>13,
       <1>14, <1>15, <1>16, <1>17, <1>18, <1>19, <1>20, <1>21, <1>22, <1>23, <1>24, <1>25,
       <1>26, <1>27 DEF Next, Startup

--------------------------------------------------------------------------------
(* Ownership of processes                                                   *)

(* A step keeps the ownership of processes.                                  *)
LEMMA OwnerStep ==
  ASSUME IInv, TypeOK', [Next]_vars
  PROVE  NoLostBackend' /\ HandInv' /\ PortInv' /\ StatusInv'
  <1> USE LauncherAssumption DEF IInv, TypeOK, NoLostBackend, Alive, HandInv, PortInv, StatusInv,
                                 Stages, DefaultPort, pickVars
  <1>1. CASE Begin
    BY <1>1 DEF Begin, Report
  <1>2. CASE CheckRunning
    BY <1>2 DEF CheckRunning, Report, Finish, Reaped, Running
  <1>3. CASE GiveUp
    BY <1>3 DEF GiveUp, Report, Finish
  <1>4. CASE Try
    BY <1>4 DEF Try
  <1>5. CASE PickProbe
    BY <1>5 DEF PickProbe, Report, Finish
  <1>6. CASE PickRecheck
    BY <1>6 DEF PickRecheck, Report, Finish
  <1>7. CASE PickBind
    BY <1>7 DEF PickBind
  <1>8. CASE PickEnd
    BY <1>8 DEF PickEnd, Report, Finish
  <1>9. CASE Select
    BY <1>9 DEF Select, Report
  <1>10. CASE Spawn
    BY <1>10 DEF Spawn, Reaped, Running
  <1>11. CASE SpawnFails
    BY <1>11 DEF SpawnFails, Report, Finish, Reaped, Running
  <1>12. CASE StoreChild
    BY <1>12 DEF StoreChild, KillChild
  <1>13. CASE AwaitBegin
    BY <1>13 DEF AwaitBegin, Report
  <1>14. CASE AwaitProbe
    BY <1>14 DEF AwaitProbe, Report, Finish
  <1>15. CASE AwaitAlive
    BY <1>15 DEF AwaitAlive, Reaped, Running
  <1>16. CASE AwaitTimeout
    BY <1>16 DEF AwaitTimeout
  <1>17. CASE StopChild
    BY <1>17 DEF StopChild, KillChild
  <1>18. CASE StopReport
    BY <1>18 DEF StopReport, Report
  <1>19. CASE Retry
    BY <1>19 DEF Retry, Report, Finish
  <1>20. CASE CloseWindow
    BY <1>20 DEF CloseWindow
  <1>21. CASE ShellKill
    BY <1>21 DEF ShellKill, KillChild
  <1>22. CASE ShellReport
    BY <1>22 DEF ShellReport, Report
  <1>23. CASE Query
    BY <1>23 DEF Query, Reaped
  <1>24. CASE \E q \in Proc : Boot(q)
    BY <1>24 DEF Boot
  <1>25. CASE \E q \in Proc : Die(q)
    BY <1>25 DEF Die
  <1>26. CASE \E p \in Port : OthersChange(p)
    BY <1>26 DEF OthersChange
  <1>27. CASE UNCHANGED vars
    BY <1>27 DEF vars
  <1> QED
    BY <1>1, <1>2, <1>3, <1>4, <1>5, <1>6, <1>7, <1>8, <1>9, <1>10, <1>11, <1>12, <1>13,
       <1>14, <1>15, <1>16, <1>17, <1>18, <1>19, <1>20, <1>21, <1>22, <1>23, <1>24, <1>25,
       <1>26, <1>27 DEF Next, Startup

(* The invariant holds of every reachable state.                             *)
LEMMA Invariance == Spec => []IInv
  <1>1. IInv /\ [Next]_vars => IInv'
    BY TypeStep, OwnerStep DEF IInv
  <1> QED
    BY <1>1, InitIInv, PTL DEF Spec

--------------------------------------------------------------------------------
(* TypeOK                                                                   *)
THEOREM TypeCorrect == Spec => []TypeOK
  BY Invariance, PTL DEF IInv

(* NoLostBackend: every live backend is within the reach of the next stop(), or *)
(* in the hands of the startup thread.                                       *)
THEOREM BackendsAreOwned == Spec => []NoLostBackend
  BY Invariance, PTL DEF IInv

(* AtMostOneBackend: no retry, kill or exit leads to a second backend.        *)
THEOREM OneBackend == Spec => []AtMostOneBackend
  <1>1. IInv => AtMostOneBackend
    BY LauncherAssumption DEF IInv, TypeOK, NoLostBackend, HandInv, AtMostOneBackend, Alive
  <1> QED
    BY <1>1, Invariance, PTL

(* ReadyIsOwnBackend: the frontend is told the port of the backend that the shell *)
(* would stop, if there is one.                                              *)
THEOREM ReadyNamesOwnBackend == Spec => []ReadyIsOwnBackend
  <1>1. IInv => ReadyIsOwnBackend
    BY LauncherAssumption DEF IInv, PortInv, ReadyIsOwnBackend
  <1> QED
    BY <1>1, Invariance, PTL

(* FailureIsClean: a start which ends with an error has left nothing running.  *)
THEOREM FailuresAreClean == Spec => []FailureIsClean
  <1>1. IInv => FailureIsClean
    BY LauncherAssumption DEF IInv, TypeOK, NoLostBackend, HandInv, StatusInv, FailureIsClean, Alive
  <1> QED
    BY <1>1, Invariance, PTL
================================================================================
