-------------------------- MODULE Generation_proofs --------------------------
(***************************************************************************)
(* Theorems of Generation for every set of calls, every mix of their kinds   *)
(* and every number of rounds and of calls per round.                       *)
(***************************************************************************)
EXTENDS Generation, TLAPS

(* The steps of Next, flattened for the case distinctions below.             *)
LEMMA NextCases ==
  ASSUME [Next]_vars
  PROVE  \/ UserStop
         \/ \E c \in Calls : CallStart(c)
         \/ \E c \in Calls : StreamOpen(c)
         \/ \E c \in Calls : StreamStart(c)
         \/ \E c \in Calls : StreamRefused(c)
         \/ \E c \in Calls : GenerateBegin(c)
         \/ \E c \in Calls : GenerateStopped(c)
         \/ \E c \in Calls : GenerateFailed(c)
         \/ \E c \in Calls : GenerateAnswer(c)
         \/ \E c \in Calls : GenerateToolCalls(c)
         \/ \E c \in Calls : GenerateAutoInvoke(c)
         \/ \E c \in Calls : RunTool(c)
         \/ \E c \in Calls : PrepareEnds(c)
         \/ \E c \in Calls : StreamEnd(c)
         \/ \E c \in Calls : StreamLeft(c)
         \/ \E c \in Calls : StreamCleanup(c)
         \/ UNCHANGED vars
  BY DEF Next, Generate, Stream

(* A product grows with its first factor.                                    *)
LEMMA ProductGrows ==
  ASSUME NEW a \in Nat, NEW b \in Nat, NEW m \in Nat, a <= b
  PROVE  a * m <= b * m /\ (a + 1) * m = a * m + m
  <1>1. (b - a) * m >= 0 /\ b - a \in Nat
    OBVIOUS
  <1>2. b * m = a * m + (b - a) * m
    OBVIOUS
  <1>3. (b - a) * m \in Int /\ a * m \in Int /\ b * m \in Int
    OBVIOUS
  <1>4. (a + 1) * m = a * m + m
    OBVIOUS
  <1> QED
    BY <1>1, <1>2, <1>3, <1>4

(* Initially the lock is free and nothing has run.                           *)
LEMMA InitIInv == Init => IInv
  <1> SUFFICES ASSUME Init PROVE IInv
    OBVIOUS
  <1> USE GenerationAssumption DEF Init
  <1>1. TypeOK
    <2>1. 0 \in 0..MaxRounds /\ 0 \in 0..MaxCalls
      OBVIOUS
    <2> QED
      BY <2>1 DEF TypeOK
  <1>2. LockInv /\ OutcomeInv /\ ConsumerInv
    BY DEF LockInv, OutcomeInv, ConsumerInv
  <1>3. BudgetInv
    <2>1. 0 * MaxCalls = 0 /\ 0 < MaxRounds
      OBVIOUS
    <2>2. \A c \in Calls : worker[c] = "off" /\ ran[c] = 0 /\ round[c] = 0
      OBVIOUS
    <2>3. ASSUME NEW c \in Calls
          PROVE  ran[c] <= round[c] * MaxCalls
      <3>1. round[c] * MaxCalls = 0 * MaxCalls
        BY <2>2
      <3> QED
        BY <2>1, <2>2, <3>1
    <2> QED
      BY <2>1, <2>2, <2>3 DEF BudgetInv
  <1> QED
    BY <1>1, <1>2, <1>3 DEF IInv

(* Types are kept by every step. *)
LEMMA TypeStep ==
  ASSUME TypeOK, BudgetInv, [Next]_vars
  PROVE  TypeOK'
  <1> USE GenerationAssumption DEF TypeOK
  <1>1. CASE UserStop
    BY <1>1 DEF UserStop, RequestStop, workerVars, streamVars
  <1>2. ASSUME NEW c \in Calls, CallStart(c)
        PROVE  TypeOK'
    BY <1>2 DEF CallStart, Goto, workerVars, streamVars
  <1>3. ASSUME NEW c \in Calls, StreamOpen(c)
        PROVE  TypeOK'
    BY <1>3 DEF StreamOpen, workerVars, streamVars
  <1>4. ASSUME NEW c \in Calls, StreamStart(c)
        PROVE  TypeOK'
    BY <1>4 DEF StreamStart, Goto, workerVars, streamVars
  <1>5. ASSUME NEW c \in Calls, StreamRefused(c)
        PROVE  TypeOK'
    BY <1>5 DEF StreamRefused, workerVars, streamVars
  <1>6. ASSUME NEW c \in Calls, GenerateBegin(c)
        PROVE  TypeOK'
    BY <1>6 DEF GenerateBegin, Goto, workerVars, streamVars
  <1>7. ASSUME NEW c \in Calls, GenerateStopped(c)
        PROVE  TypeOK'
    BY <1>7 DEF GenerateStopped, Finish, Goto, workerVars, streamVars
  <1>8. ASSUME NEW c \in Calls, GenerateFailed(c)
        PROVE  TypeOK'
    BY <1>8 DEF GenerateFailed, Finish, Goto, workerVars, streamVars
  <1>9. ASSUME NEW c \in Calls, GenerateAnswer(c)
        PROVE  TypeOK'
    BY <1>9 DEF GenerateAnswer, Finish, Goto, workerVars, streamVars
  <1>10. ASSUME NEW c \in Calls, GenerateToolCalls(c)
        PROVE  TypeOK'
    BY <1>10 DEF GenerateToolCalls, Goto, workerVars, streamVars
  <1>11. ASSUME NEW c \in Calls, GenerateAutoInvoke(c)
        PROVE  TypeOK'
    BY <1>11 DEF GenerateAutoInvoke, Goto, workerVars, streamVars
  <1>12. ASSUME NEW c \in Calls, RunTool(c)
        PROVE  TypeOK'
    <2>1. round[c] < MaxRounds /\ calls[c] >= 1
      BY <1>12 DEF RunTool, BudgetInv
    <2>2. calls' \in [Calls -> 0..MaxCalls] /\ ran' \in [Calls -> Nat]
      BY <1>12, <2>1 DEF RunTool
    <2>3. /\ round' \in [Calls -> 0..MaxRounds]
          /\ worker' \in [Calls -> {"off", "queued", "generating", "tools", "finished"}]
          /\ outcome' \in [Calls -> {"open", "done", "stopped", "failed"}]
      BY <1>12, <2>1 DEF RunTool, Goto, Finish
    <2> QED
      BY <1>12, <2>2, <2>3 DEF RunTool, streamVars
  <1>13. ASSUME NEW c \in Calls, PrepareEnds(c)
        PROVE  TypeOK'
    BY <1>13 DEF PrepareEnds, Finish, Goto, workerVars, streamVars
  <1>14. ASSUME NEW c \in Calls, StreamEnd(c)
        PROVE  TypeOK'
    BY <1>14 DEF StreamEnd, workerVars, streamVars
  <1>15. ASSUME NEW c \in Calls, StreamLeft(c)
        PROVE  TypeOK'
    BY <1>15 DEF StreamLeft, workerVars, streamVars
  <1>16. ASSUME NEW c \in Calls, StreamCleanup(c)
        PROVE  TypeOK'
    BY <1>16 DEF StreamCleanup, RequestStop, workerVars, streamVars
  <1>17. CASE UNCHANGED vars
    BY <1>17 DEF vars, workerVars, streamVars
  <1> QED
    BY NextCases, <1>1, <1>2, <1>3, <1>4, <1>5, <1>6, <1>7, <1>8, <1>9, <1>10, <1>11, <1>12, <1>13, <1>14, <1>15, <1>16, <1>17

(* The lock follows the generating call. *)
LEMMA LockStep ==
  ASSUME TypeOK, LockInv, ConsumerInv, [Next]_vars
  PROVE  LockInv'
  <1> USE GenerationAssumption DEF TypeOK, LockInv, ConsumerInv
  <1>1. CASE UserStop
    BY <1>1 DEF UserStop, RequestStop, workerVars, streamVars
  <1>2. ASSUME NEW c \in Calls, CallStart(c)
        PROVE  LockInv'
    BY <1>2 DEF CallStart, Goto, workerVars, streamVars
  <1>3. ASSUME NEW c \in Calls, StreamOpen(c)
        PROVE  LockInv'
    BY <1>3 DEF StreamOpen, workerVars, streamVars
  <1>4. ASSUME NEW c \in Calls, StreamStart(c)
        PROVE  LockInv'
    BY <1>4 DEF StreamStart, Goto, workerVars, streamVars
  <1>5. ASSUME NEW c \in Calls, StreamRefused(c)
        PROVE  LockInv'
    BY <1>5 DEF StreamRefused, workerVars, streamVars
  <1>6. ASSUME NEW c \in Calls, GenerateBegin(c)
        PROVE  LockInv'
    BY <1>6 DEF GenerateBegin, Goto, workerVars, streamVars
  <1>7. ASSUME NEW c \in Calls, GenerateStopped(c)
        PROVE  LockInv'
    BY <1>7 DEF GenerateStopped, Finish, Goto, workerVars, streamVars
  <1>8. ASSUME NEW c \in Calls, GenerateFailed(c)
        PROVE  LockInv'
    BY <1>8 DEF GenerateFailed, Finish, Goto, workerVars, streamVars
  <1>9. ASSUME NEW c \in Calls, GenerateAnswer(c)
        PROVE  LockInv'
    BY <1>9 DEF GenerateAnswer, Finish, Goto, workerVars, streamVars
  <1>10. ASSUME NEW c \in Calls, GenerateToolCalls(c)
        PROVE  LockInv'
    BY <1>10 DEF GenerateToolCalls, Goto, workerVars, streamVars
  <1>11. ASSUME NEW c \in Calls, GenerateAutoInvoke(c)
        PROVE  LockInv'
    BY <1>11 DEF GenerateAutoInvoke, Goto, workerVars, streamVars
  <1>12. ASSUME NEW c \in Calls, RunTool(c)
        PROVE  LockInv'
    BY <1>12 DEF RunTool, Goto, Finish, workerVars, streamVars
  <1>13. ASSUME NEW c \in Calls, PrepareEnds(c)
        PROVE  LockInv'
    BY <1>13 DEF PrepareEnds, Finish, Goto, workerVars, streamVars
  <1>14. ASSUME NEW c \in Calls, StreamEnd(c)
        PROVE  LockInv'
    BY <1>14 DEF StreamEnd, workerVars, streamVars
  <1>15. ASSUME NEW c \in Calls, StreamLeft(c)
        PROVE  LockInv'
    BY <1>15 DEF StreamLeft, workerVars, streamVars
  <1>16. ASSUME NEW c \in Calls, StreamCleanup(c)
        PROVE  LockInv'
    BY <1>16 DEF StreamCleanup, RequestStop, workerVars, streamVars
  <1>17. CASE UNCHANGED vars
    BY <1>17 DEF vars, workerVars, streamVars
  <1> QED
    BY NextCases, <1>1, <1>2, <1>3, <1>4, <1>5, <1>6, <1>7, <1>8, <1>9, <1>10, <1>11, <1>12, <1>13, <1>14, <1>15, <1>16, <1>17

(* Only a finishing worker settles an outcome. *)
LEMMA OutcomeStep ==
  ASSUME TypeOK, OutcomeInv, ConsumerInv, [Next]_vars
  PROVE  OutcomeInv'
  <1> USE GenerationAssumption DEF TypeOK, OutcomeInv, ConsumerInv
  <1>1. CASE UserStop
    BY <1>1 DEF UserStop, RequestStop, workerVars, streamVars
  <1>2. ASSUME NEW c \in Calls, CallStart(c)
        PROVE  OutcomeInv'
    BY <1>2 DEF CallStart, Goto, workerVars, streamVars
  <1>3. ASSUME NEW c \in Calls, StreamOpen(c)
        PROVE  OutcomeInv'
    BY <1>3 DEF StreamOpen, workerVars, streamVars
  <1>4. ASSUME NEW c \in Calls, StreamStart(c)
        PROVE  OutcomeInv'
    BY <1>4 DEF StreamStart, Goto, workerVars, streamVars
  <1>5. ASSUME NEW c \in Calls, StreamRefused(c)
        PROVE  OutcomeInv'
    BY <1>5 DEF StreamRefused, workerVars, streamVars
  <1>6. ASSUME NEW c \in Calls, GenerateBegin(c)
        PROVE  OutcomeInv'
    BY <1>6 DEF GenerateBegin, Goto, workerVars, streamVars
  <1>7. ASSUME NEW c \in Calls, GenerateStopped(c)
        PROVE  OutcomeInv'
    BY <1>7 DEF GenerateStopped, Finish, Goto, workerVars, streamVars
  <1>8. ASSUME NEW c \in Calls, GenerateFailed(c)
        PROVE  OutcomeInv'
    BY <1>8 DEF GenerateFailed, Finish, Goto, workerVars, streamVars
  <1>9. ASSUME NEW c \in Calls, GenerateAnswer(c)
        PROVE  OutcomeInv'
    BY <1>9 DEF GenerateAnswer, Finish, Goto, workerVars, streamVars
  <1>10. ASSUME NEW c \in Calls, GenerateToolCalls(c)
        PROVE  OutcomeInv'
    BY <1>10 DEF GenerateToolCalls, Goto, workerVars, streamVars
  <1>11. ASSUME NEW c \in Calls, GenerateAutoInvoke(c)
        PROVE  OutcomeInv'
    BY <1>11 DEF GenerateAutoInvoke, Goto, workerVars, streamVars
  <1>12. ASSUME NEW c \in Calls, RunTool(c)
        PROVE  OutcomeInv'
    BY <1>12 DEF RunTool, Goto, Finish, workerVars, streamVars
  <1>13. ASSUME NEW c \in Calls, PrepareEnds(c)
        PROVE  OutcomeInv'
    BY <1>13 DEF PrepareEnds, Finish, Goto, workerVars, streamVars
  <1>14. ASSUME NEW c \in Calls, StreamEnd(c)
        PROVE  OutcomeInv'
    BY <1>14 DEF StreamEnd, workerVars, streamVars
  <1>15. ASSUME NEW c \in Calls, StreamLeft(c)
        PROVE  OutcomeInv'
    BY <1>15 DEF StreamLeft, workerVars, streamVars
  <1>16. ASSUME NEW c \in Calls, StreamCleanup(c)
        PROVE  OutcomeInv'
    BY <1>16 DEF StreamCleanup, RequestStop, workerVars, streamVars
  <1>17. CASE UNCHANGED vars
    BY <1>17 DEF vars, workerVars, streamVars
  <1> QED
    BY NextCases, <1>1, <1>2, <1>3, <1>4, <1>5, <1>6, <1>7, <1>8, <1>9, <1>10, <1>11, <1>12, <1>13, <1>14, <1>15, <1>16, <1>17

(* Only a waiting stream starts a worker. *)
LEMMA ConsumerStep ==
  ASSUME TypeOK, ConsumerInv, [Next]_vars
  PROVE  ConsumerInv'
  <1> USE GenerationAssumption DEF TypeOK, ConsumerInv
  <1>1. CASE UserStop
    BY <1>1 DEF UserStop, RequestStop, workerVars, streamVars
  <1>2. ASSUME NEW c \in Calls, CallStart(c)
        PROVE  ConsumerInv'
    BY <1>2 DEF CallStart, Goto, workerVars, streamVars
  <1>3. ASSUME NEW c \in Calls, StreamOpen(c)
        PROVE  ConsumerInv'
    BY <1>3 DEF StreamOpen, workerVars, streamVars
  <1>4. ASSUME NEW c \in Calls, StreamStart(c)
        PROVE  ConsumerInv'
    BY <1>4 DEF StreamStart, Goto, workerVars, streamVars
  <1>5. ASSUME NEW c \in Calls, StreamRefused(c)
        PROVE  ConsumerInv'
    BY <1>5 DEF StreamRefused, workerVars, streamVars
  <1>6. ASSUME NEW c \in Calls, GenerateBegin(c)
        PROVE  ConsumerInv'
    BY <1>6 DEF GenerateBegin, Goto, workerVars, streamVars
  <1>7. ASSUME NEW c \in Calls, GenerateStopped(c)
        PROVE  ConsumerInv'
    BY <1>7 DEF GenerateStopped, Finish, Goto, workerVars, streamVars
  <1>8. ASSUME NEW c \in Calls, GenerateFailed(c)
        PROVE  ConsumerInv'
    BY <1>8 DEF GenerateFailed, Finish, Goto, workerVars, streamVars
  <1>9. ASSUME NEW c \in Calls, GenerateAnswer(c)
        PROVE  ConsumerInv'
    BY <1>9 DEF GenerateAnswer, Finish, Goto, workerVars, streamVars
  <1>10. ASSUME NEW c \in Calls, GenerateToolCalls(c)
        PROVE  ConsumerInv'
    BY <1>10 DEF GenerateToolCalls, Goto, workerVars, streamVars
  <1>11. ASSUME NEW c \in Calls, GenerateAutoInvoke(c)
        PROVE  ConsumerInv'
    BY <1>11 DEF GenerateAutoInvoke, Goto, workerVars, streamVars
  <1>12. ASSUME NEW c \in Calls, RunTool(c)
        PROVE  ConsumerInv'
    BY <1>12 DEF RunTool, Goto, Finish, workerVars, streamVars
  <1>13. ASSUME NEW c \in Calls, PrepareEnds(c)
        PROVE  ConsumerInv'
    BY <1>13 DEF PrepareEnds, Finish, Goto, workerVars, streamVars
  <1>14. ASSUME NEW c \in Calls, StreamEnd(c)
        PROVE  ConsumerInv'
    BY <1>14 DEF StreamEnd, workerVars, streamVars
  <1>15. ASSUME NEW c \in Calls, StreamLeft(c)
        PROVE  ConsumerInv'
    BY <1>15 DEF StreamLeft, workerVars, streamVars
  <1>16. ASSUME NEW c \in Calls, StreamCleanup(c)
        PROVE  ConsumerInv'
    BY <1>16 DEF StreamCleanup, RequestStop, workerVars, streamVars
  <1>17. CASE UNCHANGED vars
    BY <1>17 DEF vars, workerVars, streamVars
  <1> QED
    BY NextCases, <1>1, <1>2, <1>3, <1>4, <1>5, <1>6, <1>7, <1>8, <1>9, <1>10, <1>11, <1>12, <1>13, <1>14, <1>15, <1>16, <1>17

(* The budget of tool calls is kept. *)
LEMMA BudgetStep ==
  ASSUME TypeOK, ConsumerInv, BudgetInv, [Next]_vars
  PROVE  BudgetInv'
  <1> USE GenerationAssumption DEF TypeOK, ConsumerInv, BudgetInv
  <1>1. CASE UserStop
    BY <1>1 DEF UserStop, RequestStop, workerVars, streamVars
  <1>2. ASSUME NEW c \in Calls, CallStart(c)
        PROVE  BudgetInv'
    BY <1>2 DEF CallStart, Goto, workerVars, streamVars
  <1>3. ASSUME NEW c \in Calls, StreamOpen(c)
        PROVE  BudgetInv'
    BY <1>3 DEF StreamOpen, workerVars, streamVars
  <1>4. ASSUME NEW c \in Calls, StreamStart(c)
        PROVE  BudgetInv'
    BY <1>4 DEF StreamStart, Goto, workerVars, streamVars
  <1>5. ASSUME NEW c \in Calls, StreamRefused(c)
        PROVE  BudgetInv'
    BY <1>5 DEF StreamRefused, workerVars, streamVars
  <1>6. ASSUME NEW c \in Calls, GenerateBegin(c)
        PROVE  BudgetInv'
    BY <1>6 DEF GenerateBegin, Goto, workerVars, streamVars
  <1>7. ASSUME NEW c \in Calls, GenerateStopped(c)
        PROVE  BudgetInv'
    BY <1>7 DEF GenerateStopped, Finish, Goto, workerVars, streamVars
  <1>8. ASSUME NEW c \in Calls, GenerateFailed(c)
        PROVE  BudgetInv'
    BY <1>8 DEF GenerateFailed, Finish, Goto, workerVars, streamVars
  <1>9. ASSUME NEW c \in Calls, GenerateAnswer(c)
        PROVE  BudgetInv'
    BY <1>9 DEF GenerateAnswer, Finish, Goto, workerVars, streamVars
  <1>10. ASSUME NEW c \in Calls, GenerateToolCalls(c)
        PROVE  BudgetInv'
    BY <1>10 DEF GenerateToolCalls, Goto, workerVars, streamVars
  <1>11. ASSUME NEW c \in Calls, GenerateAutoInvoke(c)
        PROVE  BudgetInv'
    BY <1>11 DEF GenerateAutoInvoke, Goto, workerVars, streamVars
  <1>12. ASSUME NEW c \in Calls, RunTool(c)
        PROVE  BudgetInv'
    BY <1>12 DEF RunTool, Goto, Finish, workerVars, streamVars
  <1>13. ASSUME NEW c \in Calls, PrepareEnds(c)
        PROVE  BudgetInv'
    BY <1>13 DEF PrepareEnds, Finish, Goto, workerVars, streamVars
  <1>14. ASSUME NEW c \in Calls, StreamEnd(c)
        PROVE  BudgetInv'
    BY <1>14 DEF StreamEnd, workerVars, streamVars
  <1>15. ASSUME NEW c \in Calls, StreamLeft(c)
        PROVE  BudgetInv'
    BY <1>15 DEF StreamLeft, workerVars, streamVars
  <1>16. ASSUME NEW c \in Calls, StreamCleanup(c)
        PROVE  BudgetInv'
    BY <1>16 DEF StreamCleanup, RequestStop, workerVars, streamVars
  <1>17. CASE UNCHANGED vars
    BY <1>17 DEF vars, workerVars, streamVars
  <1> QED
    BY NextCases, <1>1, <1>2, <1>3, <1>4, <1>5, <1>6, <1>7, <1>8, <1>9, <1>10, <1>11, <1>12, <1>13, <1>14, <1>15, <1>16, <1>17

(* The invariant is inductive.                                               *)
LEMMA IInvInductive == IInv /\ [Next]_vars => IInv'
  BY TypeStep, LockStep, OutcomeStep, ConsumerStep, BudgetStep DEF IInv

LEMMA IInvAlways == Spec => []IInv
  BY InitIInv, IInvInductive, PTL DEF Spec

(* Type correctness: every variable keeps the kind of value that the code     *)
(* gives it.                                                                 *)
THEOREM TypeCorrect == Spec => []TypeOK
  <1>1. IInv => TypeOK
    BY DEF IInv
  <1> QED
    BY <1>1, IInvAlways, PTL

(* No call runs more than MAX_TOOL_CALL_ROUNDS times MAX_TOOL_CALLS_PER_ROUND *)
(* tools, whatever the model replies.                                        *)
THEOREM ToolsAreBounded == Spec => []ToolsBounded
  <1>1. ASSUME IInv, NEW c \in Calls
        PROVE  ran[c] <= MaxRounds * MaxCalls
    <2> USE GenerationAssumption DEF IInv, TypeOK, BudgetInv
    <2>1. CASE worker[c] = "tools"
      <3>1. round[c] + 1 \in Nat /\ round[c] + 1 <= MaxRounds
        BY <1>1, <2>1
      <3>2. (round[c] + 1) * MaxCalls <= MaxRounds * MaxCalls
        BY <1>1, <3>1, ProductGrows
      <3>3. ran[c] <= (round[c] + 1) * MaxCalls
        BY <1>1, <2>1
      <3> QED
        BY <1>1, <3>1, <3>2, <3>3
    <2>2. CASE worker[c] # "tools"
      <3>1. round[c] * MaxCalls <= MaxRounds * MaxCalls
        <4>1. round[c] \in Nat /\ round[c] <= MaxRounds
          BY <1>1
        <4> QED
          BY <4>1, ProductGrows
      <3> QED
        BY <1>1, <3>1, <2>2
    <2> QED
      BY <2>1, <2>2
  <1>2. IInv => ToolsBounded
    BY <1>1 DEF ToolsBounded
  <1> QED
    BY <1>2, IInvAlways, PTL

(* Every step of the engine is a step of the slot, or none at all.           *)
LEMMA SlotStep ==
  ASSUME IInv, [Next]_vars
  PROVE  [Slot!Next]_(Slot!vars)
  <1> USE GenerationAssumption DEF IInv, TypeOK, LockInv, OutcomeInv, ConsumerInv, Slot!vars
  <1>1. CASE UserStop
    BY <1>1 DEF UserStop, RequestStop, workerVars, streamVars, Slot!Next, Slot!Ask
  <1>2. ASSUME NEW c \in Calls, CallStart(c)
        PROVE  [Slot!Next]_(Slot!vars)
    BY <1>2 DEF CallStart, Goto, workerVars, streamVars
  <1>3. ASSUME NEW c \in Calls, StreamOpen(c)
        PROVE  [Slot!Next]_(Slot!vars)
    BY <1>3 DEF StreamOpen, workerVars, streamVars
  <1>4. ASSUME NEW c \in Calls, StreamStart(c)
        PROVE  [Slot!Next]_(Slot!vars)
    BY <1>4 DEF StreamStart, Goto, workerVars, streamVars
  <1>5. ASSUME NEW c \in Calls, StreamRefused(c)
        PROVE  [Slot!Next]_(Slot!vars)
    BY <1>5 DEF StreamRefused, workerVars, streamVars
  <1>6. ASSUME NEW c \in Calls, GenerateBegin(c)
        PROVE  [Slot!Next]_(Slot!vars)
    <2>1. Slot!Acquire(c)
      BY <1>6 DEF GenerateBegin, Goto, workerVars, streamVars, Slot!Acquire
    <2> QED
      BY <2>1 DEF Slot!Next
  <1>7. ASSUME NEW c \in Calls, GenerateStopped(c)
        PROVE  [Slot!Next]_(Slot!vars)
    <2>1. "stopped" \in {"open", "done", "failed"} \cup {s \in {"stopped"} : stop /\ lock # None}
      BY <1>7 DEF GenerateStopped
    <2>2. /\ lock = c /\ lock' = None
          /\ outcome' = [outcome EXCEPT ![c] = "stopped"]
      BY <1>7 DEF GenerateStopped, Finish
    <2>3. Slot!Release(c)
      BY <2>1, <2>2 DEF Slot!Release
    <2> QED
      BY <2>3 DEF Slot!Next
  <1>8. ASSUME NEW c \in Calls, GenerateFailed(c)
        PROVE  [Slot!Next]_(Slot!vars)
    <2>1. Slot!Release(c)
      BY <1>8 DEF GenerateFailed, Goto, Finish, workerVars, streamVars, Slot!Release
    <2> QED
      BY <2>1 DEF Slot!Next
  <1>9. ASSUME NEW c \in Calls, GenerateAnswer(c)
        PROVE  [Slot!Next]_(Slot!vars)
    <2>1. Slot!Release(c)
      BY <1>9 DEF GenerateAnswer, Goto, Finish, workerVars, streamVars, Slot!Release
    <2> QED
      BY <2>1 DEF Slot!Next
  <1>10. ASSUME NEW c \in Calls, GenerateToolCalls(c)
        PROVE  [Slot!Next]_(Slot!vars)
    <2>1. Slot!Release(c)
      BY <1>10 DEF GenerateToolCalls, Goto, workerVars, streamVars, Slot!Release
    <2> QED
      BY <2>1 DEF Slot!Next
  <1>11. ASSUME NEW c \in Calls, GenerateAutoInvoke(c)
        PROVE  [Slot!Next]_(Slot!vars)
    <2>1. Slot!Release(c)
      BY <1>11 DEF GenerateAutoInvoke, Goto, workerVars, streamVars, Slot!Release
    <2> QED
      BY <2>1 DEF Slot!Next
  <1>12. ASSUME NEW c \in Calls, RunTool(c)
        PROVE  [Slot!Next]_(Slot!vars)
    <2>1. CASE outcome' = outcome
      BY <1>12, <2>1 DEF RunTool, Goto, Finish, workerVars, streamVars
    <2>2. CASE outcome' # outcome
      <3>1. Slot!Settle(c)
        BY <1>12, <2>2 DEF RunTool, Goto, Finish, workerVars, streamVars, Slot!Settle
      <3> QED
        BY <3>1 DEF Slot!Next
    <2> QED
      BY <2>1, <2>2
  <1>13. ASSUME NEW c \in Calls, PrepareEnds(c)
        PROVE  [Slot!Next]_(Slot!vars)
    <2>1. Slot!Settle(c)
      BY <1>13 DEF PrepareEnds, Goto, Finish, workerVars, streamVars, Slot!Settle
    <2> QED
      BY <2>1 DEF Slot!Next
  <1>14. ASSUME NEW c \in Calls, StreamEnd(c)
        PROVE  [Slot!Next]_(Slot!vars)
    BY <1>14 DEF StreamEnd, workerVars, streamVars
  <1>15. ASSUME NEW c \in Calls, StreamLeft(c)
        PROVE  [Slot!Next]_(Slot!vars)
    BY <1>15 DEF StreamLeft, workerVars, streamVars
  <1>16. ASSUME NEW c \in Calls, StreamCleanup(c)
        PROVE  [Slot!Next]_(Slot!vars)
    BY <1>16 DEF StreamCleanup, RequestStop, Slot!Next, Slot!Ask, workerVars, streamVars
  <1>17. CASE UNCHANGED vars
    BY <1>17 DEF vars, workerVars, streamVars
  <1> QED
    BY NextCases, <1>1, <1>2, <1>3, <1>4, <1>5, <1>6, <1>7, <1>8, <1>9, <1>10, <1>11, <1>12, <1>13, <1>14, <1>15, <1>16, <1>17

(* Stops do not leak between generations: the lock and the one shared event   *)
(* implement a slot in which a stop concerns the present turn only.          *)
THEOREM StopsDoNotLeak == Spec => ImplementsSlot
  <1>1. Init => Slot!Init
    BY GenerationAssumption DEF Init, Slot!Init
  <1>2. IInv /\ [Next]_vars => [Slot!Next]_(Slot!vars)
    BY SlotStep
  <1> QED
    BY <1>1, <1>2, IInvAlways, PTL DEF Spec, ImplementsSlot, Slot!Spec
================================================================================
