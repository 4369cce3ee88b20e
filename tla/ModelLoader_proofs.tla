-------------------------- MODULE ModelLoader_proofs --------------------------
(***************************************************************************)
(* Theorems of ModelLoader for every catalog, every number of request       *)
(* threads and every number of loader threads, whatever routes they serve.   *)
(***************************************************************************)
EXTENDS ModelLoader, TLAPS

(* The steps of Next, flattened for the case distinctions below.             *)
LEMMA NextCases ==
  ASSUME [Next]_vars
  PROVE  \/ \E t \in Threads : StartRead(t)
         \/ \E t \in Threads : StartQueued(t)
         \/ \E t \in Threads, l \in Loaders : StartNew(t, l)
         \/ \E t \in Threads : StartBoot(t)
         \/ \E l \in Loaders : LoadProgress(l)
         \/ \E l \in Loaders : LoadCheck(l)
         \/ \E l \in Loaders : LoadChoose(l)
         \/ \E l \in Loaders : VisionFails(l)
         \/ \E l \in Loaders : LoadInstall(l)
         \/ \E l \in Loaders : LoadPublish(l)
         \/ \E l \in Loaders : LoadReady(l)
         \/ \E l \in Loaders : LoadFail(l)
         \/ \E l \in Loaders : LoadFinish(l)
         \/ \E r \in Requests : SelectModel(r)
         \/ \E r \in Requests : LoadRoute(r)
         \/ \E r \in Requests : ChatBegin(r)
         \/ \E r \in Requests : ChatLook(r)
         \/ \E r \in Requests : ChatLooked(r)
         \/ \E r \in Requests : ChatTimeout(r)
         \/ \E r \in Requests : ChatComplete(r)
         \/ \E r \in Requests : GenerateBegin(r)
         \/ \E r \in Requests : GenerateEnd(r)
         \/ \E r \in Requests : UnloadBegin(r)
         \/ \E r \in Requests : UnloadWeights(r)
         \/ \E r \in Requests : UnloadForget(r)
         \/ \E r \in Requests : UnloadReport(r)
         \/ UNCHANGED vars
  BY DEF Next, Start, Load, Arrive, Chat, Unload

(* Initially nothing is resident, nothing runs and nothing is claimed.       *)
LEMMA InitIInv == Init => IInv
  <1> SUFFICES ASSUME Init PROVE IInv
    OBVIOUS
  <1> USE LoaderAssumption DEF Init
  <1>1. TypeOK
    BY DEF TypeOK, LoaderStages, RequestStages, Threads, LoadStages, UnloadStages
  <1>2. HoldsOK
    BY DEF HoldsOK, LoadStages, Threads
  <1>3. LoadingIsOwned /\ GeneratorHasModel
    BY DEF LoadingIsOwned, GeneratorHasModel
  <1>4. SnapshotInv
    BY DEF SnapshotInv, LoneWriter, Writing, LoadStages, UnloadStages, Threads
  <1> QED
    BY <1>1, <1>2, <1>3, <1>4 DEF IInv

(* Types are kept by every step.                                            *)
LEMMA TypeStep ==
  ASSUME TypeOK, HoldsOK, [Next]_vars
  PROVE  TypeOK'
  <1> USE LoaderAssumption DEF TypeOK, Threads, LoadStages, UnloadStages, StartStages,
             LoaderStages, RequestStages, Intents, Targets, Chats, Prefers
  <1>1. ASSUME NEW t \in Threads, StartRead(t)
        PROVE  TypeOK'
    BY <1>1 DEF StartRead, Goto, engineVars, requestVars, Resolved
  <1>2. ASSUME NEW t \in Threads, StartQueued(t)
        PROVE  TypeOK'
    BY <1>2 DEF StartQueued, Goto, AfterStart, Dies, requestVars, HoldsOK
  <1>3. ASSUME NEW t \in Threads, NEW l \in Loaders, StartNew(t, l)
        PROVE  TypeOK'
    BY <1>3 DEF StartNew, NewWriter, requestVars
  <1>4. ASSUME NEW t \in Threads, StartBoot(t)
        PROVE  TypeOK'
    BY <1>4 DEF StartBoot, AfterStart, Dies, requestVars
  <1>5. ASSUME NEW l \in Loaders, LoadCheck(l)
        PROVE  TypeOK'
    BY <1>5 DEF LoadCheck, Goto, requestVars
  <1>6. ASSUME NEW l \in Loaders, LoadProgress(l)
        PROVE  TypeOK'
    BY <1>6 DEF LoadProgress, requestVars
  <1>7. ASSUME NEW l \in Loaders, LoadChoose(l)
        PROVE  TypeOK'
    BY <1>7 DEF LoadChoose, Goto, engineVars, requestVars
  <1>8. ASSUME NEW l \in Loaders, VisionFails(l)
        PROVE  TypeOK'
    BY <1>8 DEF VisionFails, Goto, requestVars
  <1>9. ASSUME NEW l \in Loaders, LoadInstall(l)
        PROVE  TypeOK'
    BY <1>9 DEF LoadInstall, Goto, requestVars, HoldsOK
  <1>10. ASSUME NEW l \in Loaders, LoadPublish(l)
        PROVE  TypeOK'
    BY <1>10 DEF LoadPublish, Goto, requestVars, HoldsOK
  <1>11. ASSUME NEW l \in Loaders, LoadReady(l)
        PROVE  TypeOK'
    BY <1>11 DEF LoadReady, Goto, requestVars
  <1>12. ASSUME NEW l \in Loaders, LoadFail(l)
        PROVE  TypeOK'
    BY <1>12 DEF LoadFail, Goto, requestVars
  <1>13. ASSUME NEW l \in Loaders, LoadFinish(l)
        PROVE  TypeOK'
    BY <1>13 DEF LoadFinish, Goto, Intent, Dies, requestVars
  <1>14. ASSUME NEW r \in Requests, SelectModel(r)
        PROVE  TypeOK'
    BY <1>14 DEF SelectModel, requestVars
  <1>15. ASSUME NEW r \in Requests, LoadRoute(r)
        PROVE  TypeOK'
    BY <1>15 DEF LoadRoute, Goto, Intent, requestVars
  <1>16. ASSUME NEW r \in Requests, ChatBegin(r)
        PROVE  TypeOK'
    BY <1>16 DEF ChatBegin, Goto, Intent, engineVars
  <1>17. ASSUME NEW r \in Requests, ChatLook(r)
        PROVE  TypeOK'
    BY <1>17 DEF ChatLook, Goto, engineVars
  <1>18. ASSUME NEW r \in Requests, ChatLooked(r)
        PROVE  TypeOK'
    BY <1>18 DEF ChatLooked, Goto, LeaveWait, engineVars
  <1>19. ASSUME NEW r \in Requests, ChatTimeout(r)
        PROVE  TypeOK'
    BY <1>19 DEF ChatTimeout, LeaveWait, Goto, engineVars
  <1>20. ASSUME NEW r \in Requests, ChatComplete(r)
        PROVE  TypeOK'
    BY <1>20 DEF ChatComplete, Goto, engineVars, requestVars
  <1>21. ASSUME NEW r \in Requests, GenerateBegin(r)
        PROVE  TypeOK'
    BY <1>21 DEF GenerateBegin, Goto, requestVars
  <1>22. ASSUME NEW r \in Requests, GenerateEnd(r)
        PROVE  TypeOK'
    BY <1>22 DEF GenerateEnd, Goto, requestVars
  <1>23. ASSUME NEW r \in Requests, UnloadBegin(r)
        PROVE  TypeOK'
    BY <1>23 DEF UnloadBegin, Goto, NewWriter, engineVars, requestVars
  <1>24. ASSUME NEW r \in Requests, UnloadWeights(r)
        PROVE  TypeOK'
    BY <1>24 DEF UnloadWeights, Goto, requestVars
  <1>25. ASSUME NEW r \in Requests, UnloadForget(r)
        PROVE  TypeOK'
    BY <1>25 DEF UnloadForget, Goto, requestVars
  <1>26. ASSUME NEW r \in Requests, UnloadReport(r)
        PROVE  TypeOK'
    BY <1>26 DEF UnloadReport, Goto, requestVars
  <1>27. CASE UNCHANGED vars
    BY <1>27 DEF vars, engineVars, requestVars
  <1> QED
    BY <1>1, <1>2, <1>3, <1>4, <1>5, <1>6, <1>7, <1>8, <1>9, <1>10, <1>11, <1>12, <1>13, <1>14,
       <1>15, <1>16, <1>17, <1>18, <1>19, <1>20, <1>21, <1>22, <1>23, <1>24, <1>25, <1>26, <1>27,
       NextCases

(* Each thread keeps what its stage needs.  A Thread object that has not yet *)
(* been started belongs to the one starter that created it.                  *)
LEMMA HoldsStep ==
  ASSUME TypeOK, HoldsOK, [Next]_vars
  PROVE  HoldsOK'
  <1> USE LoaderAssumption DEF HoldsOK, Threads, LoadStages
  <1>1. ASSUME NEW t \in Threads, StartRead(t)
        PROVE  HoldsOK'
    BY <1>1 DEF StartRead, Goto, engineVars, requestVars, Resolved, TypeOK, Intents, Targets, Prefers
  <1>2. ASSUME NEW t \in Threads, StartQueued(t)
        PROVE  HoldsOK'
    BY <1>2 DEF StartQueued, Goto, AfterStart, Dies, requestVars, TypeOK
  <1>3. ASSUME NEW t \in Threads, NEW l \in Loaders, StartNew(t, l)
        PROVE  HoldsOK'
    BY <1>3 DEF StartNew, NewWriter, requestVars, TypeOK
  <1>4. ASSUME NEW t \in Threads, StartBoot(t)
        PROVE  HoldsOK'
    BY <1>4 DEF StartBoot, AfterStart, Dies, requestVars, TypeOK
  <1>5. ASSUME NEW l \in Loaders, LoadCheck(l)
        PROVE  HoldsOK'
    BY <1>5 DEF LoadCheck, Goto, requestVars, TypeOK
  <1>6. ASSUME NEW l \in Loaders, LoadProgress(l)
        PROVE  HoldsOK'
    BY <1>6 DEF LoadProgress, requestVars, TypeOK
  <1>7. ASSUME NEW l \in Loaders, LoadChoose(l)
        PROVE  HoldsOK'
    BY <1>7 DEF LoadChoose, Goto, engineVars, requestVars, TypeOK
  <1>8. ASSUME NEW l \in Loaders, VisionFails(l)
        PROVE  HoldsOK'
    BY <1>8 DEF VisionFails, Goto, requestVars, TypeOK
  <1>9. ASSUME NEW l \in Loaders, LoadInstall(l)
        PROVE  HoldsOK'
    BY <1>9 DEF LoadInstall, Goto, requestVars, TypeOK
  <1>10. ASSUME NEW l \in Loaders, LoadPublish(l)
        PROVE  HoldsOK'
    BY <1>10 DEF LoadPublish, Goto, requestVars, TypeOK
  <1>11. ASSUME NEW l \in Loaders, LoadReady(l)
        PROVE  HoldsOK'
    BY <1>11 DEF LoadReady, Goto, requestVars, TypeOK
  <1>12. ASSUME NEW l \in Loaders, LoadFail(l)
        PROVE  HoldsOK'
    BY <1>12 DEF LoadFail, Goto, requestVars, TypeOK
  <1>13. ASSUME NEW l \in Loaders, LoadFinish(l)
        PROVE  HoldsOK'
    <2>1. CASE pending \notin {None, target[l]}
      <3>1. pending \in Targets /\ pending.prefer \in Prefers
        BY <2>1 DEF TypeOK, Targets
      <3>2. target' = [target EXCEPT ![l] = Intent(pending.prefer)]
        BY <1>13, <2>1 DEF LoadFinish
      <3>3. Intent(pending.prefer) \in Intents
        BY <3>1 DEF Intent, Intents
      <3> QED
        BY <1>13, <2>1, <3>2, <3>3 DEF LoadFinish, Goto, TypeOK
    <2>2. CASE pending \in {None, target[l]}
      BY <1>13, <2>2 DEF LoadFinish, Goto, Dies, TypeOK
    <2> QED
      BY <2>1, <2>2
  <1>14. ASSUME NEW r \in Requests, SelectModel(r)
        PROVE  HoldsOK'
    BY <1>14 DEF SelectModel, requestVars, TypeOK
  <1>15. ASSUME NEW r \in Requests, LoadRoute(r)
        PROVE  HoldsOK'
    BY <1>15 DEF LoadRoute, Goto, Intent, requestVars, TypeOK, Intents, Targets, Prefers
  <1>16. ASSUME NEW r \in Requests, ChatBegin(r)
        PROVE  HoldsOK'
    BY <1>16 DEF ChatBegin, Goto, Intent, engineVars, TypeOK, Intents, Targets, Prefers
  <1>17. ASSUME NEW r \in Requests, ChatLook(r)
        PROVE  HoldsOK'
    BY <1>17 DEF ChatLook, Goto, engineVars, TypeOK
  <1>18. ASSUME NEW r \in Requests, ChatLooked(r)
        PROVE  HoldsOK'
    BY <1>18 DEF ChatLooked, Goto, LeaveWait, engineVars, TypeOK
  <1>19. ASSUME NEW r \in Requests, ChatTimeout(r)
        PROVE  HoldsOK'
    BY <1>19 DEF ChatTimeout, LeaveWait, Goto, engineVars, TypeOK
  <1>20. ASSUME NEW r \in Requests, ChatComplete(r)
        PROVE  HoldsOK'
    BY <1>20 DEF ChatComplete, Goto, engineVars, requestVars, TypeOK
  <1>21. ASSUME NEW r \in Requests, GenerateBegin(r)
        PROVE  HoldsOK'
    BY <1>21 DEF GenerateBegin, Goto, requestVars, TypeOK
  <1>22. ASSUME NEW r \in Requests, GenerateEnd(r)
        PROVE  HoldsOK'
    BY <1>22 DEF GenerateEnd, Goto, requestVars, TypeOK
  <1>23. ASSUME NEW r \in Requests, UnloadBegin(r)
        PROVE  HoldsOK'
    BY <1>23 DEF UnloadBegin, Goto, NewWriter, engineVars, requestVars, TypeOK
  <1>24. ASSUME NEW r \in Requests, UnloadWeights(r)
        PROVE  HoldsOK'
    BY <1>24 DEF UnloadWeights, Goto, requestVars, TypeOK
  <1>25. ASSUME NEW r \in Requests, UnloadForget(r)
        PROVE  HoldsOK'
    BY <1>25 DEF UnloadForget, Goto, requestVars, TypeOK
  <1>26. ASSUME NEW r \in Requests, UnloadReport(r)
        PROVE  HoldsOK'
    BY <1>26 DEF UnloadReport, Goto, requestVars, TypeOK
  <1>27. CASE UNCHANGED vars
    BY <1>27 DEF vars, engineVars, requestVars
  <1> QED
    BY <1>1, <1>2, <1>3, <1>4, <1>5, <1>6, <1>7, <1>8, <1>9, <1>10, <1>11, <1>12, <1>13, <1>14,
       <1>15, <1>16, <1>17, <1>18, <1>19, <1>20, <1>21, <1>22, <1>23, <1>24, <1>25, <1>26, <1>27,
       NextCases

(* A step that leaves the status at "loading" leaves a loader that owns it.   *)
LEMMA LoadingStep ==
  ASSUME TypeOK, HoldsOK, LoadingIsOwned, [Next]_vars
  PROVE  LoadingIsOwned'
  <1> USE LoaderAssumption DEF LoadingIsOwned, LoadStages, TypeOK, Threads
  <1>1. ASSUME NEW t \in Threads, StartRead(t)
        PROVE  LoadingIsOwned'
    BY <1>1 DEF StartRead, Goto, engineVars, requestVars, Resolved
  <1>2. ASSUME NEW t \in Threads, StartQueued(t)
        PROVE  LoadingIsOwned'
    BY <1>2 DEF StartQueued, Goto, AfterStart, Dies, requestVars
  <1>3. ASSUME NEW t \in Threads, NEW l \in Loaders, StartNew(t, l)
        PROVE  LoadingIsOwned'
    BY <1>3 DEF StartNew, NewWriter, requestVars
  <1>4. ASSUME NEW t \in Threads, StartBoot(t)
        PROVE  LoadingIsOwned'
    BY <1>4 DEF StartBoot, AfterStart, Dies, requestVars, HoldsOK
  <1>5. ASSUME NEW l \in Loaders, LoadCheck(l)
        PROVE  LoadingIsOwned'
    BY <1>5 DEF LoadCheck, Goto, requestVars
  <1>6. ASSUME NEW l \in Loaders, LoadProgress(l)
        PROVE  LoadingIsOwned'
    BY <1>6 DEF LoadProgress, requestVars
  <1>7. ASSUME NEW l \in Loaders, LoadChoose(l)
        PROVE  LoadingIsOwned'
    BY <1>7 DEF LoadChoose, Goto, engineVars, requestVars
  <1>8. ASSUME NEW l \in Loaders, VisionFails(l)
        PROVE  LoadingIsOwned'
    BY <1>8 DEF VisionFails, Goto, requestVars
  <1>9. ASSUME NEW l \in Loaders, LoadInstall(l)
        PROVE  LoadingIsOwned'
    BY <1>9 DEF LoadInstall, Goto, requestVars
  <1>10. ASSUME NEW l \in Loaders, LoadPublish(l)
        PROVE  LoadingIsOwned'
    BY <1>10 DEF LoadPublish, Goto, requestVars
  <1>11. ASSUME NEW l \in Loaders, LoadReady(l)
        PROVE  LoadingIsOwned'
    BY <1>11 DEF LoadReady, Goto, requestVars
  <1>12. ASSUME NEW l \in Loaders, LoadFail(l)
        PROVE  LoadingIsOwned'
    BY <1>12 DEF LoadFail, Goto, requestVars
  <1>13. ASSUME NEW l \in Loaders, LoadFinish(l)
        PROVE  LoadingIsOwned'
    BY <1>13 DEF LoadFinish, Goto, Intent, Dies, requestVars
  <1>14. ASSUME NEW r \in Requests, SelectModel(r)
        PROVE  LoadingIsOwned'
    BY <1>14 DEF SelectModel, requestVars
  <1>15. ASSUME NEW r \in Requests, LoadRoute(r)
        PROVE  LoadingIsOwned'
    BY <1>15 DEF LoadRoute, Goto, Intent, requestVars
  <1>16. ASSUME NEW r \in Requests, ChatBegin(r)
        PROVE  LoadingIsOwned'
    BY <1>16 DEF ChatBegin, Goto, Intent, engineVars
  <1>17. ASSUME NEW r \in Requests, ChatLook(r)
        PROVE  LoadingIsOwned'
    BY <1>17 DEF ChatLook, Goto, engineVars
  <1>18. ASSUME NEW r \in Requests, ChatLooked(r)
        PROVE  LoadingIsOwned'
    BY <1>18 DEF ChatLooked, Goto, LeaveWait, engineVars
  <1>19. ASSUME NEW r \in Requests, ChatTimeout(r)
        PROVE  LoadingIsOwned'
    BY <1>19 DEF ChatTimeout, LeaveWait, Goto, engineVars
  <1>20. ASSUME NEW r \in Requests, ChatComplete(r)
        PROVE  LoadingIsOwned'
    BY <1>20 DEF ChatComplete, Goto, engineVars, requestVars
  <1>21. ASSUME NEW r \in Requests, GenerateBegin(r)
        PROVE  LoadingIsOwned'
    BY <1>21 DEF GenerateBegin, Goto, requestVars
  <1>22. ASSUME NEW r \in Requests, GenerateEnd(r)
        PROVE  LoadingIsOwned'
    BY <1>22 DEF GenerateEnd, Goto, requestVars
  <1>23. ASSUME NEW r \in Requests, UnloadBegin(r)
        PROVE  LoadingIsOwned'
    BY <1>23 DEF UnloadBegin, Goto, NewWriter, engineVars, requestVars
  <1>24. ASSUME NEW r \in Requests, UnloadWeights(r)
        PROVE  LoadingIsOwned'
    BY <1>24 DEF UnloadWeights, Goto, requestVars
  <1>25. ASSUME NEW r \in Requests, UnloadForget(r)
        PROVE  LoadingIsOwned'
    BY <1>25 DEF UnloadForget, Goto, requestVars
  <1>26. ASSUME NEW r \in Requests, UnloadReport(r)
        PROVE  LoadingIsOwned'
    BY <1>26 DEF UnloadReport, Goto, requestVars
  <1>27. CASE UNCHANGED vars
    BY <1>27 DEF vars, engineVars, requestVars
  <1> QED
    BY <1>1, <1>2, <1>3, <1>4, <1>5, <1>6, <1>7, <1>8, <1>9, <1>10, <1>11, <1>12, <1>13, <1>14,
       <1>15, <1>16, <1>17, <1>18, <1>19, <1>20, <1>21, <1>22, <1>23, <1>24, <1>25, <1>26, <1>27,
       NextCases

(* The generation lock protects the model of the generation that holds it.  *)
LEMMA GeneratorStep ==
  ASSUME TypeOK, HoldsOK, GeneratorHasModel, [Next]_vars
  PROVE  GeneratorHasModel'
  <1> USE LoaderAssumption DEF GeneratorHasModel
  <1>1. ASSUME NEW t \in Threads, StartRead(t)
        PROVE  GeneratorHasModel'
    BY <1>1 DEF StartRead, Goto, engineVars, requestVars, Resolved
  <1>2. ASSUME NEW t \in Threads, StartQueued(t)
        PROVE  GeneratorHasModel'
    BY <1>2 DEF StartQueued, Goto, AfterStart, Dies, requestVars
  <1>3. ASSUME NEW t \in Threads, NEW l \in Loaders, StartNew(t, l)
        PROVE  GeneratorHasModel'
    BY <1>3 DEF StartNew, NewWriter, requestVars
  <1>4. ASSUME NEW t \in Threads, StartBoot(t)
        PROVE  GeneratorHasModel'
    BY <1>4 DEF StartBoot, AfterStart, Dies, requestVars
  <1>5. ASSUME NEW l \in Loaders, LoadCheck(l)
        PROVE  GeneratorHasModel'
    BY <1>5 DEF LoadCheck, Goto, requestVars
  <1>6. ASSUME NEW l \in Loaders, LoadProgress(l)
        PROVE  GeneratorHasModel'
    BY <1>6 DEF LoadProgress, requestVars
  <1>7. ASSUME NEW l \in Loaders, LoadChoose(l)
        PROVE  GeneratorHasModel'
    BY <1>7 DEF LoadChoose, Goto, engineVars, requestVars
  <1>8. ASSUME NEW l \in Loaders, VisionFails(l)
        PROVE  GeneratorHasModel'
    BY <1>8 DEF VisionFails, Goto, requestVars
  <1>9. ASSUME NEW l \in Loaders, LoadInstall(l)
        PROVE  GeneratorHasModel'
    BY <1>9 DEF LoadInstall, Goto, requestVars, TypeOK, HoldsOK, Targets, LoadStages
  <1>10. ASSUME NEW l \in Loaders, LoadPublish(l)
        PROVE  GeneratorHasModel'
    BY <1>10 DEF LoadPublish, Goto, requestVars
  <1>11. ASSUME NEW l \in Loaders, LoadReady(l)
        PROVE  GeneratorHasModel'
    BY <1>11 DEF LoadReady, Goto, requestVars
  <1>12. ASSUME NEW l \in Loaders, LoadFail(l)
        PROVE  GeneratorHasModel'
    BY <1>12 DEF LoadFail, Goto, requestVars
  <1>13. ASSUME NEW l \in Loaders, LoadFinish(l)
        PROVE  GeneratorHasModel'
    BY <1>13 DEF LoadFinish, Goto, Intent, Dies, requestVars
  <1>14. ASSUME NEW r \in Requests, SelectModel(r)
        PROVE  GeneratorHasModel'
    BY <1>14 DEF SelectModel, requestVars
  <1>15. ASSUME NEW r \in Requests, LoadRoute(r)
        PROVE  GeneratorHasModel'
    BY <1>15 DEF LoadRoute, Goto, Intent, requestVars
  <1>16. ASSUME NEW r \in Requests, ChatBegin(r)
        PROVE  GeneratorHasModel'
    BY <1>16 DEF ChatBegin, Goto, Intent, engineVars
  <1>17. ASSUME NEW r \in Requests, ChatLook(r)
        PROVE  GeneratorHasModel'
    BY <1>17 DEF ChatLook, Goto, engineVars
  <1>18. ASSUME NEW r \in Requests, ChatLooked(r)
        PROVE  GeneratorHasModel'
    BY <1>18 DEF ChatLooked, Goto, LeaveWait, engineVars
  <1>19. ASSUME NEW r \in Requests, ChatTimeout(r)
        PROVE  GeneratorHasModel'
    BY <1>19 DEF ChatTimeout, LeaveWait, Goto, engineVars
  <1>20. ASSUME NEW r \in Requests, ChatComplete(r)
        PROVE  GeneratorHasModel'
    BY <1>20 DEF ChatComplete, Goto, engineVars, requestVars
  <1>21. ASSUME NEW r \in Requests, GenerateBegin(r)
        PROVE  GeneratorHasModel'
    BY <1>21 DEF GenerateBegin, Goto, requestVars
  <1>22. ASSUME NEW r \in Requests, GenerateEnd(r)
        PROVE  GeneratorHasModel'
    BY <1>22 DEF GenerateEnd, Goto, requestVars
  <1>23. ASSUME NEW r \in Requests, UnloadBegin(r)
        PROVE  GeneratorHasModel'
    BY <1>23 DEF UnloadBegin, Goto, NewWriter, engineVars, requestVars
  <1>24. ASSUME NEW r \in Requests, UnloadWeights(r)
        PROVE  GeneratorHasModel'
    BY <1>24 DEF UnloadWeights, Goto, requestVars
  <1>25. ASSUME NEW r \in Requests, UnloadForget(r)
        PROVE  GeneratorHasModel'
    BY <1>25 DEF UnloadForget, Goto, requestVars
  <1>26. ASSUME NEW r \in Requests, UnloadReport(r)
        PROVE  GeneratorHasModel'
    BY <1>26 DEF UnloadReport, Goto, requestVars
  <1>27. CASE UNCHANGED vars
    BY <1>27 DEF vars, engineVars, requestVars
  <1> QED
    BY <1>1, <1>2, <1>3, <1>4, <1>5, <1>6, <1>7, <1>8, <1>9, <1>10, <1>11, <1>12, <1>13, <1>14,
       <1>15, <1>16, <1>17, <1>18, <1>19, <1>20, <1>21, <1>22, <1>23, <1>24, <1>25, <1>26, <1>27,
       NextCases

(* A writer that has the runtime to itself leaves a truthful snapshot; one    *)
(* that meets another writer is marked by raced.                             *)
LEMMA SnapshotStep ==
  ASSUME TypeOK, HoldsOK, SnapshotInv, [Next]_vars
  PROVE  SnapshotInv'
  <1> USE LoaderAssumption DEF TypeOK, SnapshotInv, LoneWriter, Writing, LoadStages, UnloadStages,
             Threads
  <1>1. ASSUME NEW t \in Threads, StartRead(t)
        PROVE  SnapshotInv'
    BY <1>1 DEF StartRead, Goto, engineVars, requestVars, Resolved
  <1>2. ASSUME NEW t \in Threads, StartQueued(t)
        PROVE  SnapshotInv'
    BY <1>2 DEF StartQueued, Goto, AfterStart, Dies, requestVars
  <1>3. ASSUME NEW t \in Threads, NEW l \in Loaders, StartNew(t, l)
        PROVE  SnapshotInv'
    BY <1>3 DEF StartNew, NewWriter, requestVars, Quiet
  <1>4. ASSUME NEW t \in Threads, StartBoot(t)
        PROVE  SnapshotInv'
    BY <1>4 DEF StartBoot, AfterStart, Dies, requestVars, HoldsOK
  <1>5. ASSUME NEW l \in Loaders, LoadCheck(l)
        PROVE  SnapshotInv'
    BY <1>5 DEF LoadCheck, Goto, requestVars
  <1>6. ASSUME NEW l \in Loaders, LoadProgress(l)
        PROVE  SnapshotInv'
    BY <1>6 DEF LoadProgress, requestVars
  <1>7. ASSUME NEW l \in Loaders, LoadChoose(l)
        PROVE  SnapshotInv'
    BY <1>7 DEF LoadChoose, Goto, engineVars, requestVars
  <1>8. ASSUME NEW l \in Loaders, VisionFails(l)
        PROVE  SnapshotInv'
    BY <1>8 DEF VisionFails, Goto, requestVars
  <1>9. ASSUME NEW l \in Loaders, LoadInstall(l)
        PROVE  SnapshotInv'
    BY <1>9 DEF LoadInstall, Goto, requestVars, HoldsOK, Targets
  <1>10. ASSUME NEW l \in Loaders, LoadPublish(l)
        PROVE  SnapshotInv'
    BY <1>10 DEF LoadPublish, Goto, requestVars, HoldsOK, Targets
  <1>11. ASSUME NEW l \in Loaders, LoadReady(l)
        PROVE  SnapshotInv'
    BY <1>11 DEF LoadReady, Goto, requestVars, HoldsOK, Targets
  <1>12. ASSUME NEW l \in Loaders, LoadFail(l)
        PROVE  SnapshotInv'
    BY <1>12 DEF LoadFail, Goto, requestVars
  <1>13. ASSUME NEW l \in Loaders, LoadFinish(l)
        PROVE  SnapshotInv'
    BY <1>13 DEF LoadFinish, Goto, Intent, Dies, requestVars
  <1>14. ASSUME NEW r \in Requests, SelectModel(r)
        PROVE  SnapshotInv'
    BY <1>14 DEF SelectModel, requestVars
  <1>15. ASSUME NEW r \in Requests, LoadRoute(r)
        PROVE  SnapshotInv'
    BY <1>15 DEF LoadRoute, Goto, Intent, requestVars
  <1>16. ASSUME NEW r \in Requests, ChatBegin(r)
        PROVE  SnapshotInv'
    BY <1>16 DEF ChatBegin, Goto, Intent, engineVars
  <1>17. ASSUME NEW r \in Requests, ChatLook(r)
        PROVE  SnapshotInv'
    BY <1>17 DEF ChatLook, Goto, engineVars
  <1>18. ASSUME NEW r \in Requests, ChatLooked(r)
        PROVE  SnapshotInv'
    BY <1>18 DEF ChatLooked, Goto, LeaveWait, engineVars
  <1>19. ASSUME NEW r \in Requests, ChatTimeout(r)
        PROVE  SnapshotInv'
    BY <1>19 DEF ChatTimeout, LeaveWait, Goto, engineVars
  <1>20. ASSUME NEW r \in Requests, ChatComplete(r)
        PROVE  SnapshotInv'
    BY <1>20 DEF ChatComplete, Goto, engineVars, requestVars
  <1>21. ASSUME NEW r \in Requests, GenerateBegin(r)
        PROVE  SnapshotInv'
    BY <1>21 DEF GenerateBegin, Goto, requestVars
  <1>22. ASSUME NEW r \in Requests, GenerateEnd(r)
        PROVE  SnapshotInv'
    BY <1>22 DEF GenerateEnd, Goto, requestVars
  <1>23. ASSUME NEW r \in Requests, UnloadBegin(r)
        PROVE  SnapshotInv'
    BY <1>23 DEF UnloadBegin, Goto, NewWriter, engineVars, requestVars, Quiet
  <1>24. ASSUME NEW r \in Requests, UnloadWeights(r)
        PROVE  SnapshotInv'
    BY <1>24 DEF UnloadWeights, Goto, requestVars
  <1>25. ASSUME NEW r \in Requests, UnloadForget(r)
        PROVE  SnapshotInv'
    BY <1>25 DEF UnloadForget, Goto, requestVars
  <1>26. ASSUME NEW r \in Requests, UnloadReport(r)
        PROVE  SnapshotInv'
    BY <1>26 DEF UnloadReport, Goto, requestVars
  <1>27. CASE UNCHANGED vars
    BY <1>27 DEF vars, engineVars, requestVars
  <1> QED
    BY <1>1, <1>2, <1>3, <1>4, <1>5, <1>6, <1>7, <1>8, <1>9, <1>10, <1>11, <1>12, <1>13, <1>14,
       <1>15, <1>16, <1>17, <1>18, <1>19, <1>20, <1>21, <1>22, <1>23, <1>24, <1>25, <1>26, <1>27,
       NextCases

LEMMA IInvInductive == IInv /\ [Next]_vars => IInv'
  BY TypeStep, HoldsStep, LoadingStep, GeneratorStep, SnapshotStep DEF IInv

LEMMA IInvAlways == Spec => []IInv
  <1>1. Init => IInv
    BY InitIInv
  <1>2. IInv /\ [Next]_vars => IInv'
    BY IInvInductive
  <1> QED
    BY <1>1, <1>2, PTL DEF Spec

--------------------------------------------------------------------------------
(* Every variable always holds a value of its type.                          *)
THEOREM TypeCorrect == Spec => []TypeOK
  <1>1. IInv => TypeOK
    BY DEF IInv
  <1> QED
    BY <1>1, IInvAlways, PTL

(* After any load or unload that met no other one, "ready" and "idle" are     *)
(* the truth about the resident weights, even if the loads before it          *)
(* overlapped.                                                               *)
THEOREM SnapshotIsTruthful == Spec => []SnapshotTruthful
  <1>1. IInv => SnapshotTruthful
    BY DEF IInv, SnapshotInv, SnapshotTruthful, Quiet
  <1> QED
    BY <1>1, IInvAlways, PTL

(* "loading" is never left behind by loads and unloads that overlap.          *)
THEOREM LoadingEnds == Spec => []NoPhantomLoading
  <1>1. IInv => NoPhantomLoading
    BY DEF IInv, LoadingIsOwned, NoPhantomLoading, Quiet, Writing, Threads
  <1> QED
    BY <1>1, IInvAlways, PTL

(* The check of _model at the start of a generation is good until its end.   *)
THEOREM GenerationHasModel == Spec => []GeneratorHasModel
  <1>1. IInv => GeneratorHasModel
    BY DEF IInv
  <1> QED
    BY <1>1, IInvAlways, PTL

(* No step of a load or an unload changes the model of a running generation.  *)
THEOREM GenerationKeepsModel == Spec => NoSwapWhileGenerating
  <1>1. [Next]_vars => [generator # None => UNCHANGED <<weights, kind>>]_vars
    <2> SUFFICES ASSUME [Next]_vars PROVE generator # None => UNCHANGED <<weights, kind>>
      OBVIOUS
    <2>1. ASSUME NEW t \in Threads, StartRead(t)
          PROVE  generator # None => UNCHANGED <<weights, kind>>
      BY <2>1 DEF StartRead, Goto, engineVars, requestVars, Resolved
    <2>2. ASSUME NEW t \in Threads, StartQueued(t)
          PROVE  generator # None => UNCHANGED <<weights, kind>>
      BY <2>2 DEF StartQueued, Goto, AfterStart, Dies, requestVars
    <2>3. ASSUME NEW t \in Threads, NEW l \in Loaders, StartNew(t, l)
          PROVE  generator # None => UNCHANGED <<weights, kind>>
      BY <2>3 DEF StartNew, NewWriter, requestVars
    <2>4. ASSUME NEW t \in Threads, StartBoot(t)
          PROVE  generator # None => UNCHANGED <<weights, kind>>
      BY <2>4 DEF StartBoot, AfterStart, Dies, requestVars
    <2>5. ASSUME NEW l \in Loaders, LoadCheck(l)
          PROVE  generator # None => UNCHANGED <<weights, kind>>
      BY <2>5 DEF LoadCheck, Goto, requestVars
    <2>6. ASSUME NEW l \in Loaders, LoadProgress(l)
          PROVE  generator # None => UNCHANGED <<weights, kind>>
      BY <2>6 DEF LoadProgress, requestVars
    <2>7. ASSUME NEW l \in Loaders, LoadChoose(l)
          PROVE  generator # None => UNCHANGED <<weights, kind>>
      BY <2>7 DEF LoadChoose, Goto, engineVars, requestVars
    <2>8. ASSUME NEW l \in Loaders, VisionFails(l)
          PROVE  generator # None => UNCHANGED <<weights, kind>>
      BY <2>8 DEF VisionFails, Goto, requestVars
    <2>9. ASSUME NEW l \in Loaders, LoadInstall(l)
          PROVE  generator # None => UNCHANGED <<weights, kind>>
      BY <2>9 DEF LoadInstall, Goto, requestVars
    <2>10. ASSUME NEW l \in Loaders, LoadPublish(l)
          PROVE  generator # None => UNCHANGED <<weights, kind>>
      BY <2>10 DEF LoadPublish, Goto, requestVars
    <2>11. ASSUME NEW l \in Loaders, LoadReady(l)
          PROVE  generator # None => UNCHANGED <<weights, kind>>
      BY <2>11 DEF LoadReady, Goto, requestVars
    <2>12. ASSUME NEW l \in Loaders, LoadFail(l)
          PROVE  generator # None => UNCHANGED <<weights, kind>>
      BY <2>12 DEF LoadFail, Goto, requestVars
    <2>13. ASSUME NEW l \in Loaders, LoadFinish(l)
          PROVE  generator # None => UNCHANGED <<weights, kind>>
      BY <2>13 DEF LoadFinish, Goto, Intent, Dies, requestVars
    <2>14. ASSUME NEW r \in Requests, SelectModel(r)
          PROVE  generator # None => UNCHANGED <<weights, kind>>
      BY <2>14 DEF SelectModel, requestVars
    <2>15. ASSUME NEW r \in Requests, LoadRoute(r)
          PROVE  generator # None => UNCHANGED <<weights, kind>>
      BY <2>15 DEF LoadRoute, Goto, Intent, requestVars
    <2>16. ASSUME NEW r \in Requests, ChatBegin(r)
          PROVE  generator # None => UNCHANGED <<weights, kind>>
      BY <2>16 DEF ChatBegin, Goto, Intent, engineVars
    <2>17. ASSUME NEW r \in Requests, ChatLook(r)
          PROVE  generator # None => UNCHANGED <<weights, kind>>
      BY <2>17 DEF ChatLook, Goto, engineVars
    <2>18. ASSUME NEW r \in Requests, ChatLooked(r)
          PROVE  generator # None => UNCHANGED <<weights, kind>>
      BY <2>18 DEF ChatLooked, Goto, LeaveWait, engineVars
    <2>19. ASSUME NEW r \in Requests, ChatTimeout(r)
          PROVE  generator # None => UNCHANGED <<weights, kind>>
      BY <2>19 DEF ChatTimeout, LeaveWait, Goto, engineVars
    <2>20. ASSUME NEW r \in Requests, ChatComplete(r)
          PROVE  generator # None => UNCHANGED <<weights, kind>>
      BY <2>20 DEF ChatComplete, Goto, engineVars, requestVars
    <2>21. ASSUME NEW r \in Requests, GenerateBegin(r)
          PROVE  generator # None => UNCHANGED <<weights, kind>>
      BY <2>21 DEF GenerateBegin, Goto, requestVars
    <2>22. ASSUME NEW r \in Requests, GenerateEnd(r)
          PROVE  generator # None => UNCHANGED <<weights, kind>>
      BY <2>22 DEF GenerateEnd, Goto, requestVars
    <2>23. ASSUME NEW r \in Requests, UnloadBegin(r)
          PROVE  generator # None => UNCHANGED <<weights, kind>>
      BY <2>23 DEF UnloadBegin, Goto, NewWriter, engineVars, requestVars
    <2>24. ASSUME NEW r \in Requests, UnloadWeights(r)
          PROVE  generator # None => UNCHANGED <<weights, kind>>
      BY <2>24 DEF UnloadWeights, Goto, requestVars
    <2>25. ASSUME NEW r \in Requests, UnloadForget(r)
          PROVE  generator # None => UNCHANGED <<weights, kind>>
      BY <2>25 DEF UnloadForget, Goto, requestVars
    <2>26. ASSUME NEW r \in Requests, UnloadReport(r)
          PROVE  generator # None => UNCHANGED <<weights, kind>>
      BY <2>26 DEF UnloadReport, Goto, requestVars
    <2>27. CASE UNCHANGED vars
      BY <2>27 DEF vars, engineVars, requestVars
    <2> QED
      BY <2>1, <2>2, <2>3, <2>4, <2>5, <2>6, <2>7, <2>8, <2>9, <2>10, <2>11, <2>12, <2>13, <2>14,
         <2>15, <2>16, <2>17, <2>18, <2>19, <2>20, <2>21, <2>22, <2>23, <2>24, <2>25, <2>26, <2>27,
         NextCases
  <1> QED
    BY <1>1, PTL DEF Spec, NoSwapWhileGenerating
================================================================================
