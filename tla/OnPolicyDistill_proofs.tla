------------------------ MODULE OnPolicyDistill_proofs ------------------------
(***************************************************************************)
(* Theorems about the on-policy distillation trainer, for every scheduler, *)
(* number of batches, steps, failures and restarts.                        *)
(*                                                                         *)
(* The types need that fit() is still short of its last step while it runs *)
(* (Running).  That a batch meets its own knowledge needs that the buffer  *)
(* belongs to the result fit() is about to receive whenever that result    *)
(* has knowledge at all (BufferMatches), and that neither the history nor  *)
(* the one in the checkpoint holds a mismatch.                             *)
(* How old a batch can be, and which batches a restart can lose, depends   *)
(* on where the driver is in the generator: the pipeline invariants say    *)
(* for every operation of the two schedulers' loops and epilogues what the *)
(* generation, the call and the result in flight may be (PipelineInv), and *)
(* the history and its copy in the checkpoint keep the bound               *)
(* (HistoryInv).                                                           *)
(***************************************************************************)
EXTENDS OnPolicyDistill, FiniteSetTheorems, TLAPS

USE DEF NoGeneration, NoCall, NoCheckpoint

Running == driver = "running" => global_steps <= TotalSteps /\ saved.step < TotalSteps
TypeInv == TypeOK /\ Running

LEMMA ConstantTypes ==
  /\ EpochLength \in Nat /\ EpochLength > 0
  /\ Epochs \in Nat /\ Epochs > 0
  /\ TotalSteps \in Nat /\ TotalSteps > 0
  /\ SaveFreq \in Nat /\ MaxFailures \in Nat /\ MaxCrashes \in Nat
<1>1. EpochLength \in Nat \ {0} /\ Epochs \in Nat \ {0} /\ TotalSteps \in Nat \ {0}
  BY DistillAssumption
<1>2. SaveFreq \in Nat /\ MaxFailures \in Nat /\ MaxCrashes \in Nat
  BY DistillAssumption
<1> QED BY <1>1, <1>2

(* The loop bodies are made of the five operations. *)
LEMMA IterationsTyped ==
  \A s \in Schedulers, k \in Nat :
    Iteration(s, k) \in Seq(Operations) /\ Epilogue(s) \in Seq(Operations)
<1> SUFFICES ASSUME NEW s \in Schedulers, NEW k \in Nat
             PROVE  Iteration(s, k) \in Seq(Operations) /\ Epilogue(s) \in Seq(Operations)
  OBVIOUS
<1> USE DEF Operations
<1>1. OneStepOff(k) \in Seq(Operations)
  <2>1. /\ <<"sync", "gen", "ask">> \in Seq(Operations) /\ <<>> \in Seq(Operations)
        /\ <<"gen", "get", "yield", "ask">> \in Seq(Operations)
        /\ <<"sync", "gen", "get", "yield", "ask">> \in Seq(Operations)
    OBVIOUS
  <2>2. \A x, y \in Seq(Operations) : x \o y \in Seq(Operations)
    OBVIOUS
  <2> DEFINE x == IF k = 0 THEN <<"sync", "gen", "ask">> ELSE <<>>
             y == IF k = 1 THEN <<"gen", "get", "yield", "ask">>
                  ELSE <<"sync", "gen", "get", "yield", "ask">>
  <2>3. x \in Seq(Operations) /\ y \in Seq(Operations)
    BY <2>1
  <2>4. OneStepOff(k) = x \o y
    BY Zenon DEF OneStepOff
  <2> HIDE DEF x, y
  <2> QED BY <2>2, <2>3, <2>4
<1>2. TwoStepOff(k) \in Seq(Operations)
  <2>1. /\ <<"sync", "gen">> \in Seq(Operations) /\ <<"ask", "gen">> \in Seq(Operations)
        /\ <<"get", "ask", "gen", "yield">> \in Seq(Operations)
        /\ <<"get", "ask", "sync", "gen", "yield">> \in Seq(Operations)
    OBVIOUS
  <2> QED BY <2>1 DEF TwoStepOff
<1>3. Epilogue(s) \in Seq(Operations)
  <2>1. /\ <<"get", "yield">> \in Seq(Operations)
        /\ <<"get", "ask", "yield", "get", "yield">> \in Seq(Operations)
    OBVIOUS
  <2> QED BY <2>1 DEF Epilogue
<1> QED BY <1>1, <1>2, <1>3 DEF Iteration

LEMMA BatchesLeftNat == \A p \in 0..EpochLength : BatchesLeft(p) \in Nat
<1>1. EpochLength * Epochs >= EpochLength /\ EpochLength * Epochs \in Nat
  BY ConstantTypes
<1> QED BY <1>1, ConstantTypes DEF BatchesLeft

LEMMA InitTyped == Init => TypeInv
<1> SUFFICES ASSUME Init PROVE TypeOK /\ Running
  BY DEF TypeInv
<1>1. 0 \in 0..EpochLength /\ BatchesLeft(0) \in Nat
  BY BatchesLeftNat, ConstantTypes
<1>2. steps \in Seq(Operations) /\ consumed \in Seq(Consumption)
  BY DEF Init
<1>3. saved \in [step : 0..TotalSteps, version : Nat, read : Nat,
                position : 0..EpochLength, consumed : Seq(Consumption)]
  BY <1>1, <1>2, ConstantTypes DEF Init
<1>4. rollout_future \in [batch : Nat, version : Nat, done : BOOLEAN]
  BY DEF Init
<1>5. teacher_future \in Call /\ result \in Call
  BY DEF Init, Call
<1>6. TypeOK
  <2>1. /\ driver \in {"running", "returned", "raised"} /\ scheduler \in Schedulers
        /\ i \in Nat /\ drained \in BOOLEAN /\ read \in Nat /\ padded \in Nat
        /\ actor_version \in Nat /\ rollout_version \in Nat
    BY DEF Init
  <2>2. /\ position \in 0..EpochLength /\ left \in Nat
        /\ global_steps \in 1..(TotalSteps + 1)
        /\ failures \in 0..MaxFailures /\ crashes \in 0..MaxCrashes
    BY <1>1, ConstantTypes DEF Init
  <2> QED BY <1>2, <1>3, <1>4, <1>5, <2>1, <2>2 DEF TypeOK
<1>7. Running
  BY ConstantTypes DEF Init, Running
<1> QED BY <1>6, <1>7

LEMMA StepTyped == TypeInv /\ [Next]_vars => TypeInv'
<1> SUFFICES ASSUME TypeOK, Running, [Next]_vars PROVE TypeOK' /\ Running'
  BY DEF TypeInv
<1> USE ConstantTypes DEF Operations
<1>1. CASE NextBatch
  <2>1. steps' \in Seq(Operations)
    BY <1>1, IterationsTyped DEF NextBatch, TypeOK
  <2>2. position' \in 0..EpochLength /\ left' \in Nat /\ read' \in Nat /\ i' \in Nat
    BY <1>1 DEF NextBatch, TypeOK
  <2> QED BY <1>1, <2>1, <2>2 DEF NextBatch, TypeOK, Running
<1>2. CASE LoopEnds
  BY <1>2, IterationsTyped DEF LoopEnds, TypeOK, Running, Call
<1>3. CASE SyncRolloutWeights
  BY <1>3 DEF SyncRolloutWeights, AtOp, dataloader, TypeOK, Running
<1>4. CASE StartGeneration
  BY <1>4 DEF StartGeneration, AtOp, dataloader, TypeOK, Running
<1>5. CASE AskTeacher
  BY <1>5 DEF AskTeacher, AtOp, dataloader, TypeOK, Running, Call
<1>6. CASE GetResult
  BY <1>6 DEF GetResult, AtOp, dataloader, TypeOK, Running, Call
<1>7. CASE SchedulerRaises
  BY <1>7 DEF SchedulerRaises, pipeline, dataloader, TypeOK, Running
<1>8. ASSUME NEW v \in Nat, NEW b \in BOOLEAN, AtOp("yield"),
             EndStep(v, Append(consumed, Entry(b)))
      PROVE  TypeOK' /\ Running'
  <2>1. Append(consumed, Entry(b)) \in Seq(Consumption)
    <3>1. result.batch \in Nat /\ actor_version - result.version \in Int
      BY SMTT(60) DEF TypeOK, Call
    <3>2. (IF b THEN padded ELSE 0) \in Nat
      BY DEF TypeOK
    <3>3. Entry(b) \in Consumption
      BY <3>1, <3>2, Zenon DEF Entry, Consumption
    <3> QED BY <3>3 DEF TypeOK
  <2>2. global_steps \in 1..TotalSteps
    BY <1>8 DEF TypeOK, Running, AtOp
  <2>3. saved' \in [step : 0..TotalSteps, version : Nat, read : Nat,
                    position : 0..EpochLength, consumed : Seq(Consumption)]
    BY <1>8, <2>1, <2>2 DEF EndStep, Checkpoint, TypeOK
  <2>4. steps' \in Seq(Operations)
    BY <1>8 DEF EndStep, AtOp, TypeOK
  <2>5. TypeOK'
    <3>1. /\ driver' \in {"running", "returned", "raised"} /\ actor_version' \in Nat
          /\ consumed' \in Seq(Consumption) /\ global_steps' \in 1..(TotalSteps + 1)
      BY <1>8, <2>1, <2>2 DEF EndStep, TypeOK
    <3>2. UNCHANGED <<scheduler, i, drained, read, position, left, rollout_future,
                      teacher_future, result, padded, rollout_version, failures, crashes>>
      BY <1>8 DEF EndStep, dataloader
    <3>. QED BY <2>3, <2>4, <3>1, <3>2 DEF TypeOK
  <2>6. Running'
    <3>1. CASE IsLastStep(global_steps)
      BY <3>1, <1>8 DEF EndStep, Running
    <3>2. CASE ~IsLastStep(global_steps)
      <4>1. global_steps \in Nat /\ global_steps < TotalSteps
        BY <3>2, <2>2, ConstantTypes DEF IsLastStep
      <4>2. global_steps' <= TotalSteps
        BY <4>1, <1>8, ConstantTypes DEF EndStep
      <4>3. saved'.step < TotalSteps
        <5>1. saved.step < TotalSteps
          BY <1>8 DEF AtOp, Running
        <5>2. saved' = saved \/ saved'.step = global_steps
          BY <1>8 DEF EndStep, Checkpoint
        <5> QED BY <4>1, <5>1, <5>2
      <4> QED BY <4>2, <4>3 DEF Running
    <3> QED BY <3>1, <3>2
  <2> QED BY <2>5, <2>6
<1>9. CASE Train
  <2>1. actor_version + 1 \in Nat
    BY DEF TypeOK
  <2> QED BY <1>8, <1>9, <2>1 DEF Train
<1>10. CASE Skip
  <2>1. actor_version \in Nat
    BY DEF TypeOK
  <2> QED BY <1>8, <1>10, <2>1 DEF Skip
<1>11. CASE GenerationDone
  BY <1>11 DEF GenerationDone, dataloader, TypeOK, Running
<1>12. CASE TeacherAnswers
  BY <1>12 DEF TeacherAnswers, dataloader, TypeOK, Running, Call
<1>13. CASE TeacherFails
  <2>1. failures' \in 0..MaxFailures
    <3>1. failures \in Nat /\ failures < MaxFailures /\ failures' = failures + 1
      BY <1>13 DEF TeacherFails, TypeOK
    <3> QED BY <3>1
  <2>2. teacher_future' \in Call
    BY <1>13 DEF TeacherFails, TypeOK, Call
  <2> QED BY <1>13, <2>1, <2>2 DEF TeacherFails, dataloader, TypeOK, Running
<1>14. CASE Restart
  <2>1. saved.position \in 0..EpochLength /\ saved.step \in 0..(TotalSteps - 1)
    <3>1. driver = "running" BY <1>14 DEF Restart
    <3>2. saved.position \in 0..EpochLength /\ saved.step \in 0..TotalSteps BY DEF TypeOK
    <3>3. saved.step < TotalSteps BY <3>1 DEF Running
    <3>. QED BY <3>2, <3>3
  <2>2. left' \in Nat /\ global_steps' \in 1..TotalSteps
    <3>1. left' = BatchesLeft(saved.position) /\ global_steps' = saved.step + 1
      BY <1>14 DEF Restart
    <3>2. BatchesLeft(saved.position) \in Nat BY <2>1, BatchesLeftNat
    <3>3. saved.step + 1 \in 1..TotalSteps BY <2>1
    <3>. QED BY <3>1, <3>2, <3>3
  <2>3. teacher_future' \in Call /\ result' \in Call /\ steps' \in Seq(Operations)
        /\ rollout_future' \in [batch : Nat, version : Nat, done : BOOLEAN]
    BY <1>14 DEF Restart, Call
  <2>4. /\ read' \in Nat /\ position' \in 0..EpochLength /\ actor_version' \in Nat
        /\ consumed' \in Seq(Consumption) /\ crashes' \in 0..MaxCrashes
    BY <1>14 DEF Restart, TypeOK
  <2>5. /\ i' \in Nat /\ drained' \in BOOLEAN /\ padded' \in Nat /\ rollout_version' \in Nat
        /\ UNCHANGED <<driver, scheduler, saved, failures>>
    BY <1>14 DEF Restart
  <2>6. TypeOK'
    <3>1. /\ driver' \in {"running", "returned", "raised"} /\ scheduler' \in Schedulers
          /\ failures' \in 0..MaxFailures
          /\ saved' \in [step : 0..TotalSteps, version : Nat, read : Nat,
                        position : 0..EpochLength, consumed : Seq(Consumption)]
      BY <2>5 DEF TypeOK
    <3>2. global_steps' \in 1..(TotalSteps + 1)
      BY <2>2
    <3> QED BY <2>2, <2>3, <2>4, <2>5, <3>1, <3>2 DEF TypeOK
  <2>7. Running'
    <3>1. global_steps' <= TotalSteps
      BY <2>2
    <3>2. saved'.step < TotalSteps
      BY <2>1, <2>5
    <3> QED BY <3>1, <3>2 DEF Running
  <2> QED BY <2>6, <2>7
<1>15. CASE Stopped \/ UNCHANGED vars
  BY <1>15 DEF Stopped, vars, pipeline, dataloader, TypeOK, Running
<1> QED
  BY <1>1, <1>2, <1>3, <1>4, <1>5, <1>6, <1>7, <1>9, <1>10, <1>11, <1>12, <1>13, <1>14, <1>15
  DEF Next, Driver

(* Every variable keeps its type, and the steps counted by fit() and by    *)
(* the checkpoints stay within total_training_steps, across restarts.      *)
THEOREM TypeCorrect == Spec => []TypeOK
<1>1. TypeInv => TypeOK
  BY DEF TypeInv
<1> QED BY InitTyped, StepTyped, <1>1, PTL DEF Spec

-------------------------------------------------------------------------------
Matches(h) == \A k \in DOMAIN h : h[k].trained => h[k].knowledge = h[k].batch
BufferMatches == result.answer = "ok" => padded = result.batch
HistoryMatches == Matches(consumed) /\ Matches(saved.consumed)
KnowledgeInv == BufferMatches /\ HistoryMatches

LEMMA MatchesAppend ==
  ASSUME NEW h \in Seq(Consumption), NEW e \in Consumption, Matches(h),
         e.trained => e.knowledge = e.batch
  PROVE  Matches(Append(h, e))
<1> SUFFICES ASSUME NEW k \in DOMAIN Append(h, e), Append(h, e)[k].trained
             PROVE  Append(h, e)[k].knowledge = Append(h, e)[k].batch
  BY DEF Matches
<1>1. k \in 1..(Len(h) + 1)
  OBVIOUS
<1>2. CASE k = Len(h) + 1
  BY <1>2
<1>3. CASE k \in 1..Len(h)
  BY <1>3 DEF Matches
<1> QED BY <1>1, <1>2, <1>3

LEMMA VersionsTyped ==
  TypeOK => /\ actor_version \in Nat /\ rollout_version \in Nat
            /\ rollout_future.version \in Nat /\ teacher_future.version \in Nat
            /\ result.version \in Nat
BY DEF TypeOK, Call

LEMMA EntryTyped ==
  ASSUME TypeOK, NEW b \in BOOLEAN
  PROVE  /\ Entry(b) \in Consumption
         /\ Entry(b).batch = result.batch
         /\ Entry(b).age = actor_version - result.version
<1>1. result.batch \in Nat /\ actor_version - result.version \in Int
  <2>1. result \in Call /\ actor_version \in Nat BY DEF TypeOK
  <2>2. result.batch \in Nat /\ result.version \in Nat BY <2>1 DEF Call
  <2>. QED BY <2>1, <2>2
<1>2. (IF b THEN padded ELSE 0) \in Nat
  BY DEF TypeOK
<1>3. Entry(b) \in Consumption
  BY <1>1, <1>2, Zenon DEF Entry, Consumption
<1>4. Entry(b).batch = result.batch /\ Entry(b).age = actor_version - result.version
  BY Zenon DEF Entry
<1> QED BY <1>3, <1>4

(* fit() only adds entries that match when the buffer does. *)
LEMMA EntryMatches ==
  ASSUME TypeOK, BufferMatches, NEW b \in BOOLEAN, b => result.answer = "ok"
  PROVE  Entry(b).trained => Entry(b).knowledge = Entry(b).batch
<1>1. Entry(b).trained = b /\ Entry(b).batch = result.batch
      /\ Entry(b).knowledge = IF b THEN padded ELSE 0
  BY Zenon DEF Entry
<1> QED BY <1>1 DEF BufferMatches

LEMMA StepKeepsKnowledge == TypeInv /\ KnowledgeInv /\ [Next]_vars => KnowledgeInv'
<1> SUFFICES ASSUME TypeOK, KnowledgeInv, [Next]_vars PROVE KnowledgeInv'
  BY DEF TypeInv
<1>1. CASE GetResult
  <2>1. BufferMatches'
    BY <1>1 DEF GetResult, BufferMatches
  <2>2. HistoryMatches'
    BY <1>1 DEF GetResult, HistoryMatches, KnowledgeInv
  <2> QED BY <2>1, <2>2 DEF KnowledgeInv
<1>2. ASSUME NEW v, NEW b \in BOOLEAN, b => result.answer = "ok",
             EndStep(v, Append(consumed, Entry(b)))
      PROVE  KnowledgeInv'
  <2>1. Matches(Append(consumed, Entry(b)))
    BY <1>2, EntryTyped, EntryMatches, MatchesAppend DEF KnowledgeInv, HistoryMatches, TypeOK
  <2>2. BufferMatches'
    BY <1>2 DEF EndStep, BufferMatches, KnowledgeInv
  <2>3. consumed' = Append(consumed, Entry(b))
        /\ (saved'.consumed = Append(consumed, Entry(b)) \/ saved' = saved)
    BY <1>2 DEF EndStep, Checkpoint
  <2>4. HistoryMatches'
    BY <2>1, <2>3 DEF HistoryMatches, KnowledgeInv
  <2> QED BY <2>2, <2>4 DEF KnowledgeInv
<1>3. CASE Train
  BY <1>2, <1>3 DEF Train
<1>4. CASE Skip
  BY <1>2, <1>4 DEF Skip
<1>5. CASE Restart
  BY <1>5 DEF Restart, KnowledgeInv, BufferMatches, HistoryMatches
<1>6. CASE NextBatch \/ LoopEnds \/ SyncRolloutWeights \/ StartGeneration \/ AskTeacher
           \/ SchedulerRaises
  BY <1>6 DEF NextBatch, LoopEnds, SyncRolloutWeights, StartGeneration, AskTeacher,
     SchedulerRaises, pipeline, KnowledgeInv, BufferMatches, HistoryMatches
<1>7. CASE GenerationDone \/ TeacherAnswers \/ TeacherFails
  BY <1>7 DEF GenerationDone, TeacherAnswers, TeacherFails,
     KnowledgeInv, BufferMatches, HistoryMatches
<1>8. CASE Stopped \/ UNCHANGED vars
  BY <1>8 DEF Stopped, vars, pipeline, KnowledgeInv, BufferMatches, HistoryMatches
<1> QED
  BY <1>1, <1>3, <1>4, <1>5, <1>6, <1>7, <1>8 DEF Next, Driver

(* No batch is ever trained with the teacher's knowledge of another one,   *)
(* although all calls unpack into one buffer: not in this life of the job  *)
(* and not in those before the last checkpoint.                            *)
THEOREM KnowledgeIsOwn == Spec => []OwnKnowledge
<1>1. Init => KnowledgeInv
  BY DEF Init, KnowledgeInv, BufferMatches, HistoryMatches, Matches
<1>2. KnowledgeInv => OwnKnowledge
  BY DEF KnowledgeInv, HistoryMatches, Matches, OwnKnowledge
<1> QED BY <1>1, <1>2, InitTyped, StepTyped, StepKeepsKnowledge, PTL DEF Spec

-------------------------------------------------------------------------------
(* fit() only returns in the step that saves, and nothing happens after.   *)
LEMMA StepKeepsLastWeights ==
  TypeInv /\ LastWeightsSaved /\ [Next]_vars => LastWeightsSaved'
<1> SUFFICES ASSUME TypeOK, Running, LastWeightsSaved, [Next]_vars,
                    driver' = "returned", SaveFreq > 0
             PROVE  saved'.version = actor_version' /\ saved'.step = TotalSteps
  BY DEF TypeInv, LastWeightsSaved
<1>1. ASSUME NEW v, NEW h, AtOp("yield"), EndStep(v, h)
      PROVE  saved'.version = actor_version' /\ saved'.step = TotalSteps
  <2>1. IsLastStep(global_steps) /\ global_steps <= TotalSteps
    BY <1>1 DEF EndStep, AtOp, Running
  <2>2. global_steps = TotalSteps /\ SaveDue(global_steps)
    BY <2>1, ConstantTypes DEF IsLastStep, SaveDue, TypeOK
  <2> QED BY <1>1, <2>2 DEF EndStep, Checkpoint
<1>2. CASE Train
  BY <1>1, <1>2 DEF Train
<1>3. CASE Skip
  BY <1>1, <1>3 DEF Skip
<1>4. CASE NextBatch \/ LoopEnds \/ SyncRolloutWeights \/ StartGeneration \/ AskTeacher
           \/ GetResult \/ SchedulerRaises \/ GenerationDone \/ TeacherAnswers
           \/ TeacherFails \/ Restart
  BY <1>4 DEF NextBatch, LoopEnds, SyncRolloutWeights, StartGeneration, AskTeacher, GetResult,
     SchedulerRaises, GenerationDone, TeacherAnswers, TeacherFails, Restart, AtOp
<1>5. CASE Stopped \/ UNCHANGED vars
  BY <1>5 DEF Stopped, vars, LastWeightsSaved
<1> QED
  BY <1>2, <1>3, <1>4, <1>5 DEF Next, Driver

(* A run that has returned has its last weights in the last checkpoint,    *)
(* whether the last batch was trained or skipped.                          *)
THEOREM LastWeightsAreSaved == Spec => []LastWeightsSaved
<1>1. Init => LastWeightsSaved
  BY DEF Init, LastWeightsSaved
<1> QED BY <1>1, InitTyped, StepTyped, StepKeepsLastWeights, PTL DEF Spec

-------------------------------------------------------------------------------
(* Where the driver is in the generator, and what is in flight there: the  *)
(* ages of the generation, of the call and of the result that the rest of  *)
(* the iteration still uses and, of the double buffer, their batches.      *)
Recent(version, updates) == version >= actor_version - updates

(* one_step_off_scheduler: a batch waits for one update, or for two when   *)
(* it is generated in the iteration that does not synchronise.             *)
OneStart == i = 0 /\ teacher_future = NoCall /\ steps \in {<<>>, <<"get", "yield">>}
OneFirstSync == i = 1 /\ steps = <<"sync", "gen", "ask", "sync", "gen", "get", "yield", "ask">>
OneFirstGen ==
  /\ i = 1 /\ steps = <<"gen", "ask", "sync", "gen", "get", "yield", "ask">>
  /\ Recent(rollout_version, 0)
OneFirstAsk ==
  /\ i = 1 /\ steps = <<"ask", "sync", "gen", "get", "yield", "ask">>
  /\ Recent(rollout_future.version, 0)
OneTop ==
  /\ i >= 1 /\ steps = <<>> /\ ~drained
  /\ Recent(teacher_future.version, 2)
  /\ i = 1 => Recent(rollout_version, 1)
OneSync ==
  /\ i >= 1 /\ steps = <<"sync", "gen", "get", "yield", "ask">>
  /\ Recent(teacher_future.version, 2)
OneGen ==
  /\ i >= 1 /\ steps = <<"gen", "get", "yield", "ask">>
  /\ Recent(teacher_future.version, 2)
  /\ Recent(rollout_version, 1) /\ (i = 1 => Recent(rollout_version, 0))
OneGet ==
  /\ i >= 1 /\ steps = <<"get", "yield", "ask">>
  /\ Recent(teacher_future.version, 2) /\ Recent(rollout_future.version, 1)
  /\ i = 1 => Recent(rollout_version, 0)
OneYield ==
  /\ i >= 1 /\ steps = <<"yield", "ask">>
  /\ Recent(result.version, 2) /\ Recent(rollout_future.version, 1)
  /\ i = 1 => Recent(rollout_version, 0)
OneAsk ==
  /\ i >= 1 /\ steps = <<"ask">>
  /\ Recent(rollout_future.version, 2)
  /\ i = 1 => Recent(rollout_version, 1)
OneLastGet ==
  i >= 1 /\ drained /\ steps = <<"get", "yield">> /\ Recent(teacher_future.version, 2)
OneLastYield == i >= 1 /\ drained /\ steps = <<"yield">> /\ Recent(result.version, 2)
OneEnd == i >= 1 /\ steps = <<>> /\ drained

OneStepPipeline ==
  \/ OneStart \/ OneFirstSync \/ OneFirstGen \/ OneFirstAsk
  \/ OneTop \/ OneSync \/ OneGen \/ OneGet \/ OneYield \/ OneAsk
  \/ OneLastGet \/ OneLastYield \/ OneEnd

(* Generations and calls end without changing what they are about; an      *)
(* error and a finished run leave the pipeline as it is.                   *)
Quiet == GenerationDone \/ TeacherAnswers \/ TeacherFails \/ SchedulerRaises \/ Stopped

LEMMA QuietKeeps ==
  ASSUME TypeOK, Quiet
  PROVE  /\ rollout_future'.version = rollout_future.version
         /\ rollout_future'.batch = rollout_future.batch
         /\ teacher_future'.version = teacher_future.version
         /\ teacher_future'.batch = teacher_future.batch
         /\ teacher_future = NoCall => teacher_future' = NoCall
         /\ UNCHANGED <<scheduler, i, steps, drained, result, read, actor_version,
                       rollout_version, saved, consumed, crashes>>
<1>1. CASE GenerationDone
  BY <1>1 DEF GenerationDone, dataloader, TypeOK
<1>2. CASE TeacherAnswers
  BY <1>2 DEF TeacherAnswers, dataloader, TypeOK, Call
<1>3. CASE TeacherFails
  BY <1>3 DEF TeacherFails, dataloader, TypeOK, Call
<1>4. CASE SchedulerRaises \/ Stopped
  BY <1>4 DEF SchedulerRaises, Stopped, pipeline, dataloader, vars
<1> QED BY <1>1, <1>2, <1>3, <1>4 DEF Quiet

LEMMA OneStepAt ==
  ASSUME OneStepPipeline
  PROVE  /\ AtOp("sync") => OneFirstSync \/ OneSync
         /\ AtOp("gen") => OneFirstGen \/ OneGen
         /\ AtOp("ask") => OneFirstAsk \/ OneAsk
         /\ AtOp("get") => OneGet \/ OneLastGet \/ (OneStart /\ steps # <<>>)
         /\ AtOp("yield") => OneYield \/ OneLastYield
         /\ steps = <<>> /\ ~drained => OneStart \/ OneTop
BY DEF AtOp, OneStepPipeline, OneStart, OneFirstSync, OneFirstGen, OneFirstAsk, OneTop,
   OneSync, OneGen, OneGet, OneYield, OneAsk, OneLastGet, OneLastYield, OneEnd

LEMMA OneStepKept ==
  ASSUME TypeOK, scheduler = "one_step_off", OneStepPipeline, Next
  PROVE  OneStepPipeline'
<1>1. CASE NextBatch
  <2>1. CASE OneStart
    <3>1. Iteration(scheduler, i) = <<"sync", "gen", "ask">> \o <<"sync", "gen", "get", "yield", "ask">>
      BY <2>1 DEF Iteration, OneStepOff, OneStart
    <3>2. OneFirstSync'
      BY <1>1, <2>1, <3>1 DEF NextBatch, OneStart, OneFirstSync
    <3> QED BY <3>2 DEF OneStepPipeline
  <2>2. CASE OneTop
    <3>1. CASE i = 1
      <4>1. OneGen'
        BY <1>1, <2>2, <3>1 DEF NextBatch, OneTop, OneGen, Iteration, OneStepOff, Recent
      <4> QED BY <4>1 DEF OneStepPipeline
    <3>2. CASE i # 1
      <4>1. i \in Nat /\ i > 1 /\ i # 0
        BY <2>2, <3>2 DEF OneTop, TypeOK
      <4>2. Iteration(scheduler, i) = <<>> \o <<"sync", "gen", "get", "yield", "ask">>
        BY <2>2, <3>2, <4>1, Zenon DEF Iteration, OneStepOff
      <4>3. steps' = <<"sync", "gen", "get", "yield", "ask">>
        BY <1>1, <4>2 DEF NextBatch
      <4>4. OneSync'
        BY <1>1, <2>2, <4>1, <4>3 DEF NextBatch, OneTop, OneSync, Recent
      <4> QED BY <4>4 DEF OneStepPipeline
    <3> QED BY <3>1, <3>2
  <2> QED BY <1>1, <2>1, <2>2, OneStepAt DEF NextBatch
<1>2. CASE LoopEnds
  <2>1. OneStart => OneStart'
    BY <1>2 DEF LoopEnds, OneStart, Epilogue
  <2>2. OneTop => OneLastGet'
    BY <1>2 DEF LoopEnds, OneTop, OneLastGet, Epilogue, Recent
  <2> QED BY <1>2, <2>1, <2>2, OneStepAt DEF LoopEnds, OneStepPipeline
<1>3. CASE SyncRolloutWeights
  <2>1. OneFirstSync => OneFirstGen'
    BY <1>3 DEF SyncRolloutWeights, OneFirstSync, OneFirstGen, Recent, TypeOK
  <2>2. OneSync => OneGen'
    BY <1>3 DEF SyncRolloutWeights, OneSync, OneGen, Recent, TypeOK
  <2> QED BY <1>3, <2>1, <2>2, OneStepAt DEF SyncRolloutWeights, OneStepPipeline
<1>4. CASE StartGeneration
  <2>1. OneFirstGen => OneFirstAsk'
    BY <1>4 DEF StartGeneration, OneFirstGen, OneFirstAsk, Recent
  <2>2. OneGen => OneGet'
    BY <1>4 DEF StartGeneration, OneGen, OneGet, Recent
  <2> QED BY <1>4, <2>1, <2>2, OneStepAt DEF StartGeneration, OneStepPipeline
<1>5. CASE AskTeacher
  <2>1. OneFirstAsk => OneSync'
    BY <1>5, SMTT(60) DEF AskTeacher, OneFirstAsk, OneSync, Recent, TypeOK
  <2>2. OneAsk => OneTop' \/ OneEnd'
    BY <1>5 DEF AskTeacher, OneAsk, OneTop, OneEnd, Recent, TypeOK
  <2> QED BY <1>5, <2>1, <2>2, OneStepAt DEF AskTeacher, OneStepPipeline
<1>6. CASE GetResult
  <2>1. OneGet => OneYield'
    BY <1>6 DEF GetResult, OneGet, OneYield, Recent
  <2>2. OneLastGet => OneLastYield'
    BY <1>6 DEF GetResult, OneLastGet, OneLastYield, Recent
  <2>3. ~OneStart
    BY <1>6 DEF GetResult, OneStart
  <2> QED BY <1>6, <2>1, <2>2, <2>3, OneStepAt DEF GetResult, OneStepPipeline
<1>7. CASE Train \/ Skip
  <2>1. /\ actor_version' = actor_version \/ actor_version' = actor_version + 1
        /\ AtOp("yield") /\ steps' = Tail(steps)
    BY <1>7 DEF Train, Skip, EndStep
  <2>2. UNCHANGED <<scheduler, i, drained, rollout_future, teacher_future, result, rollout_version>>
    BY <1>7 DEF Train, Skip, EndStep
  <2>3. actor_version \in Nat /\ rollout_version \in Nat /\ rollout_future.version \in Nat
    BY DEF TypeOK
  <2>4. \A v \in Nat : /\ Recent(v, 1) => v >= actor_version' - 2
                      /\ Recent(v, 0) => v >= actor_version' - 1
    BY <2>1, <2>3 DEF Recent
  <2>5. OneYield => OneAsk'
    BY <2>1, <2>2, <2>3, <2>4 DEF OneYield, OneAsk, Recent
  <2>6. OneLastYield => OneEnd'
    BY <2>1, <2>2 DEF OneLastYield, OneEnd
  <2> QED BY <2>1, <2>5, <2>6, OneStepAt DEF OneStepPipeline
<1>8. CASE Quiet
  BY <1>8, QuietKeeps
  DEF Recent, OneStepPipeline, OneStart, OneFirstSync, OneFirstGen, OneFirstAsk, OneTop,
      OneSync, OneGen, OneGet, OneYield, OneAsk, OneLastGet, OneLastYield, OneEnd
<1>9. CASE Restart
  BY <1>9 DEF Restart, OneStepPipeline, OneStart
<1> QED
  BY <1>1, <1>2, <1>3, <1>4, <1>5, <1>6, <1>7, <1>8, <1>9 DEF Next, Driver, Quiet

-------------------------------------------------------------------------------
(* two_step_off_scheduler: besides the ages, the batches.  Of the batches  *)
(* read, n are in flight; every restart lost two at most.                  *)
LastBatch(h) == IF h = <<>> THEN 0 ELSE h[Len(h)].batch
InFlight(n) ==
  /\ LastBatch(consumed) <= read - n
  /\ read - n <= Len(consumed) + 2 * crashes

Generated(batch, updates) ==
  rollout_future.batch = batch /\ Recent(rollout_future.version, updates)
Asked(batch, updates) ==
  teacher_future.batch = batch /\ Recent(teacher_future.version, updates)
Received(batch, updates) ==
  result.batch = batch /\ Recent(result.version, updates)

TwoStart ==
  /\ i = 0 /\ teacher_future = NoCall /\ InFlight(0)
  /\ steps \in {<<>>, <<"get", "ask", "yield", "get", "yield">>}
TwoFirstSync == i = 1 /\ teacher_future = NoCall /\ InFlight(1) /\ steps = <<"sync", "gen">>
TwoFirstGen ==
  /\ i = 1 /\ teacher_future = NoCall /\ InFlight(1) /\ steps = <<"gen">>
  /\ Recent(rollout_version, 0)
TwoFirstTop ==
  /\ i = 1 /\ teacher_future = NoCall /\ InFlight(1)
  /\ \/ steps = <<>> /\ Recent(rollout_version, 0) /\ Generated(read, 0)
     \/ steps = <<"get", "ask", "yield", "get", "yield">>
TwoSecondAsk ==
  /\ i = 2 /\ InFlight(2) /\ ~drained /\ steps = <<"ask", "gen">>
  /\ Recent(rollout_version, 0) /\ Generated(read - 1, 0)
TwoSecondGen ==
  /\ i = 2 /\ InFlight(2) /\ ~drained /\ steps = <<"gen">>
  /\ Recent(rollout_version, 0) /\ Asked(read - 1, 0)
TwoTop ==
  /\ i >= 2 /\ InFlight(2) /\ steps = <<>> /\ ~drained
  /\ Asked(read - 1, 2) /\ Generated(read, 1)
  /\ i = 2 => Recent(rollout_version, 0)
TwoGet ==
  /\ i >= 3 /\ InFlight(3) /\ ~drained
  /\ \/ steps = <<"get", "ask", "sync", "gen", "yield">>
     \/ steps = <<"get", "ask", "gen", "yield">> /\ Recent(rollout_version, 0)
  /\ Asked(read - 2, 2) /\ Generated(read - 1, 1)
TwoAsk ==
  /\ i >= 3 /\ InFlight(3) /\ ~drained
  /\ \/ steps = <<"ask", "sync", "gen", "yield">>
     \/ steps = <<"ask", "gen", "yield">> /\ Recent(rollout_version, 0)
  /\ Received(read - 2, 2) /\ Generated(read - 1, 1)
TwoSync ==
  /\ i >= 3 /\ InFlight(3) /\ ~drained /\ steps = <<"sync", "gen", "yield">>
  /\ Received(read - 2, 2) /\ Asked(read - 1, 1)
TwoGen ==
  /\ i >= 3 /\ InFlight(3) /\ ~drained /\ steps = <<"gen", "yield">>
  /\ Received(read - 2, 2) /\ Asked(read - 1, 1) /\ Recent(rollout_version, 0)
TwoYield ==
  /\ i >= 3 /\ InFlight(3) /\ ~drained /\ steps = <<"yield">>
  /\ Received(read - 2, 2) /\ Asked(read - 1, 1) /\ Generated(read, 0)
TwoDrainGet ==
  /\ i >= 2 /\ InFlight(2) /\ drained /\ steps = <<"get", "ask", "yield", "get", "yield">>
  /\ Asked(read - 1, 2) /\ Generated(read, 1)
TwoDrainAsk ==
  /\ i >= 2 /\ InFlight(2) /\ drained /\ steps = <<"ask", "yield", "get", "yield">>
  /\ Received(read - 1, 2) /\ Generated(read, 1)
TwoDrainYield ==
  /\ i >= 2 /\ InFlight(2) /\ drained /\ steps = <<"yield", "get", "yield">>
  /\ Received(read - 1, 2) /\ Asked(read, 1)
TwoLastGet == i >= 2 /\ InFlight(1) /\ drained /\ steps = <<"get", "yield">> /\ Asked(read, 2)
TwoLastYield == i >= 2 /\ InFlight(1) /\ drained /\ steps = <<"yield">> /\ Received(read, 2)
TwoEnd == i >= 2 /\ InFlight(0) /\ drained /\ steps = <<>>

TwoStepPipeline ==
  \/ TwoStart \/ TwoFirstSync \/ TwoFirstGen \/ TwoFirstTop \/ TwoSecondAsk \/ TwoSecondGen
  \/ TwoTop \/ TwoGet \/ TwoAsk \/ TwoSync \/ TwoGen \/ TwoYield
  \/ TwoDrainGet \/ TwoDrainAsk \/ TwoDrainYield \/ TwoLastGet \/ TwoLastYield \/ TwoEnd

(* The batches of a history are numbered from 1 and only ever go up.  Its  *)
(* own facts are the same for the history in the checkpoint, of which the  *)
(* next restart loses what was in flight.                                  *)
Rising(h) == \A k \in DOMAIN h :
  h[k].batch >= 1 /\ \A l \in DOMAIN h : k < l => h[k].batch < h[l].batch
SavedInFlight ==
  /\ LastBatch(saved.consumed) <= saved.read
  /\ saved.read <= Len(saved.consumed) + 2 * (crashes + 1)

LEMMA TwoStepAt ==
  ASSUME TwoStepPipeline
  PROVE  /\ AtOp("sync") => TwoFirstSync \/ TwoSync
         /\ AtOp("gen") => TwoFirstGen \/ TwoSecondGen \/ TwoGen
         /\ AtOp("ask") => TwoSecondAsk \/ TwoAsk \/ TwoDrainAsk
         /\ AtOp("get") => \/ TwoGet \/ TwoDrainGet \/ TwoLastGet
                           \/ (TwoStart \/ TwoFirstTop) /\ teacher_future = NoCall
         /\ AtOp("yield") => TwoYield \/ TwoDrainYield \/ TwoLastYield
         /\ steps = <<>> /\ ~drained => TwoStart \/ TwoFirstTop \/ TwoTop
<1>1. AtOp("sync") => TwoFirstSync \/ TwoSync
  BY DEF AtOp, TwoStepPipeline, TwoStart, TwoFirstSync, TwoFirstGen, TwoFirstTop, TwoSecondAsk,
     TwoSecondGen, TwoTop, TwoGet, TwoAsk, TwoSync, TwoGen, TwoYield, TwoDrainGet,
     TwoDrainAsk, TwoDrainYield, TwoLastGet, TwoLastYield, TwoEnd
<1>2. AtOp("gen") => TwoFirstGen \/ TwoSecondGen \/ TwoGen
  BY DEF AtOp, TwoStepPipeline, TwoStart, TwoFirstSync, TwoFirstGen, TwoFirstTop, TwoSecondAsk,
     TwoSecondGen, TwoTop, TwoGet, TwoAsk, TwoSync, TwoGen, TwoYield, TwoDrainGet,
     TwoDrainAsk, TwoDrainYield, TwoLastGet, TwoLastYield, TwoEnd
<1>3. AtOp("ask") => TwoSecondAsk \/ TwoAsk \/ TwoDrainAsk
  BY DEF AtOp, TwoStepPipeline, TwoStart, TwoFirstSync, TwoFirstGen, TwoFirstTop, TwoSecondAsk,
     TwoSecondGen, TwoTop, TwoGet, TwoAsk, TwoSync, TwoGen, TwoYield, TwoDrainGet,
     TwoDrainAsk, TwoDrainYield, TwoLastGet, TwoLastYield, TwoEnd
<1>4. AtOp("get") => \/ TwoGet \/ TwoDrainGet \/ TwoLastGet
                     \/ (TwoStart \/ TwoFirstTop) /\ teacher_future = NoCall
  BY DEF AtOp, TwoStepPipeline, TwoStart, TwoFirstSync, TwoFirstGen, TwoFirstTop, TwoSecondAsk,
     TwoSecondGen, TwoTop, TwoGet, TwoAsk, TwoSync, TwoGen, TwoYield, TwoDrainGet,
     TwoDrainAsk, TwoDrainYield, TwoLastGet, TwoLastYield, TwoEnd
<1>5. AtOp("yield") => TwoYield \/ TwoDrainYield \/ TwoLastYield
  BY DEF AtOp, TwoStepPipeline, TwoStart, TwoFirstSync, TwoFirstGen, TwoFirstTop, TwoSecondAsk,
     TwoSecondGen, TwoTop, TwoGet, TwoAsk, TwoSync, TwoGen, TwoYield, TwoDrainGet,
     TwoDrainAsk, TwoDrainYield, TwoLastGet, TwoLastYield, TwoEnd
<1>6. steps = <<>> /\ ~drained => TwoStart \/ TwoFirstTop \/ TwoTop
  BY DEF TwoStepPipeline, TwoStart, TwoFirstSync, TwoFirstGen, TwoFirstTop, TwoSecondAsk,
     TwoSecondGen, TwoTop, TwoGet, TwoAsk, TwoSync, TwoGen, TwoYield, TwoDrainGet,
     TwoDrainAsk, TwoDrainYield, TwoLastGet, TwoLastYield, TwoEnd
<1> QED BY <1>1, <1>2, <1>3, <1>4, <1>5, <1>6

(* Reading a batch puts one more in flight. *)
LEMMA ReadInFlight ==
  ASSUME TypeOK, NEW n \in Nat, InFlight(n), read' = read + 1,
         consumed' = consumed, crashes' = crashes
  PROVE  InFlight(n + 1)'
BY DEF InFlight, TypeOK

(* The batch fit() takes, trained or skipped, is the oldest in flight.     *)
LEMMA TakeInFlight ==
  ASSUME TypeOK, NEW n \in Nat, InFlight(n + 1), result.batch = read - n,
         NEW e \in Consumption, e.batch = result.batch,
         consumed' = Append(consumed, e), read' = read, crashes' = crashes
  PROVE  InFlight(n)'
<1>1. consumed \in Seq(Consumption) /\ Len(consumed) \in Nat /\ read \in Nat /\ crashes \in Nat
  BY DEF TypeOK
<1>2. /\ Len(consumed') = Len(consumed) + 1 /\ consumed' # <<>>
      /\ consumed'[Len(consumed')] = e
  BY <1>1
<1>3. LastBatch(consumed)' = read - n
  BY <1>2 DEF LastBatch
<1>4. read - (n + 1) <= Len(consumed) + 2 * crashes
  BY DEF InFlight
<1> QED BY <1>1, <1>2, <1>3, <1>4 DEF InFlight

LEMMA TwoStepKept ==
  ASSUME TypeOK, scheduler = "two_step_off", TwoStepPipeline, SavedInFlight, Next
  PROVE  TwoStepPipeline'
<1>1. CASE NextBatch
  <2>1. \A n \in Nat : InFlight(n) => InFlight(n + 1)'
    BY <1>1, ReadInFlight DEF NextBatch
  <2>2. /\ InFlight(0) => InFlight(1)'
        /\ InFlight(1) => InFlight(2)'
        /\ InFlight(2) => InFlight(3)'
    BY <2>1
  <2>3. TwoStart => TwoFirstSync'
    <3>1. TwoStart => steps' = <<"sync", "gen">> /\ i' = 1
      BY <1>1 DEF NextBatch, TwoStart, Iteration, TwoStepOff
    <3> QED BY <1>1, <2>2, <3>1 DEF NextBatch, TwoStart, TwoFirstSync
  <2>4. TwoFirstTop => TwoSecondAsk'
    BY <1>1, <2>2
    DEF NextBatch, TwoFirstTop, TwoSecondAsk, Iteration, TwoStepOff, Recent, Generated, TypeOK
  <2>5. TwoTop => TwoGet'
    <3>1. /\ i' = i + 1 /\ read' = read + 1 /\ steps' = Iteration(scheduler, i)
          /\ UNCHANGED <<drained, rollout_future, teacher_future, actor_version, rollout_version>>
      BY <1>1 DEF NextBatch
    <3>2. i \in Nat /\ read \in Nat
      BY DEF TypeOK
    <3>3. /\ Asked(read - 1, 2) => Asked(read - 2, 2)'
          /\ Generated(read, 1) => Generated(read - 1, 1)'
          /\ Recent(rollout_version, 0) => Recent(rollout_version, 0)'
      BY <3>1, <3>2 DEF Recent, Generated, Asked
    <3>4. CASE i = 2
      <4>1. steps' = <<"get", "ask", "gen", "yield">>
        BY <3>1, <3>4 DEF Iteration, TwoStepOff
      <4> QED BY <2>2, <3>1, <3>3, <3>4, <4>1 DEF TwoTop, TwoGet
    <3>5. CASE i # 2
      <4>1. TwoTop => i' >= 3 /\ steps' = <<"get", "ask", "sync", "gen", "yield">>
        BY <3>1, <3>2, <3>5 DEF TwoTop, Iteration, TwoStepOff
      <4> QED BY <2>2, <3>1, <3>3, <4>1 DEF TwoTop, TwoGet
    <3> QED BY <3>4, <3>5
  <2> QED BY <1>1, <2>3, <2>4, <2>5, TwoStepAt DEF NextBatch, TwoStepPipeline
<1>2. CASE LoopEnds
  <2>1. UNCHANGED <<i, read, rollout_future, teacher_future, actor_version, consumed, crashes>>
    BY <1>2 DEF LoopEnds
  <2>2. drained' /\ steps' = <<"get", "ask", "yield", "get", "yield">>
    BY <1>2 DEF LoopEnds, Epilogue
  <2>3. TwoStart => TwoStart'
    BY <2>1, <2>2 DEF TwoStart, InFlight
  <2>4. TwoFirstTop => TwoFirstTop'
    BY <2>1, <2>2 DEF TwoFirstTop, InFlight
  <2>5. TwoTop => TwoDrainGet'
    BY <2>1, <2>2 DEF TwoTop, TwoDrainGet, InFlight, Recent, Generated, Asked
  <2> QED BY <1>2, <2>3, <2>4, <2>5, TwoStepAt DEF LoopEnds, TwoStepPipeline
<1>3. CASE SyncRolloutWeights
  <2>1. UNCHANGED <<i, drained, read, teacher_future, result, actor_version, consumed, crashes>>
    BY <1>3 DEF SyncRolloutWeights, dataloader
  <2>2. steps' = Tail(steps) /\ Recent(rollout_version, 0)'
    BY <1>3 DEF SyncRolloutWeights, Recent, TypeOK
  <2>3. TwoFirstSync => TwoFirstGen'
    BY <2>1, <2>2 DEF TwoFirstSync, TwoFirstGen, InFlight
  <2>4. TwoSync => TwoGen'
    BY <2>1, <2>2 DEF TwoSync, TwoGen, InFlight, Received, Asked, Recent
  <2> QED BY <1>3, <2>3, <2>4, TwoStepAt DEF SyncRolloutWeights, TwoStepPipeline
<1>4. CASE StartGeneration
  <2>1. UNCHANGED <<i, drained, read, teacher_future, result, actor_version, rollout_version,
                    consumed, crashes>>
    BY <1>4 DEF StartGeneration, dataloader
  <2>2. steps' = Tail(steps) /\ (Recent(rollout_version, 0) => Generated(read, 0)')
    BY <1>4, <2>1 DEF StartGeneration, Generated, Recent
  <2>6. /\ Generated(read, 0)' => Generated(read, 1)'
        /\ Asked(read - 1, 0)' => Asked(read - 1, 2)'
    <3>1. rollout_future'.version \in Nat /\ teacher_future'.version \in Nat
          /\ actor_version' \in Nat
      BY <1>4, VersionsTyped DEF StartGeneration
    <3> QED BY <3>1 DEF Generated, Asked, Recent
  <2>3. TwoFirstGen => TwoFirstTop'
    BY <2>1, <2>2 DEF TwoFirstGen, TwoFirstTop, InFlight, Recent
  <2>4. TwoSecondGen => TwoTop'
    BY <2>1, <2>2, <2>6 DEF TwoSecondGen, TwoTop, InFlight, Asked, Recent
  <2>5. TwoGen => TwoYield'
    BY <2>1, <2>2 DEF TwoGen, TwoYield, InFlight, Recent, Asked, Received
  <2> QED BY <1>4, <2>3, <2>4, <2>5, TwoStepAt DEF StartGeneration, TwoStepPipeline
<1>5. CASE AskTeacher
  <2>1. UNCHANGED <<i, drained, read, rollout_future, result, actor_version, rollout_version,
                    consumed, crashes>>
    BY <1>5 DEF AskTeacher, dataloader
  <2>2. /\ steps' = Tail(steps)
        /\ teacher_future'.batch = rollout_future.batch
        /\ teacher_future'.version = rollout_future.version
    BY <1>5 DEF AskTeacher
  <2>3. TwoSecondAsk => TwoSecondGen'
    BY <2>1, <2>2 DEF TwoSecondAsk, TwoSecondGen, InFlight, Recent, Generated, Asked
  <2>4. TwoAsk => TwoSync' \/ TwoGen'
    <3>1. CASE steps = <<"ask", "sync", "gen", "yield">>
      BY <2>1, <2>2, <3>1 DEF TwoAsk, TwoSync, InFlight, Recent, Generated, Asked, Received
    <3>2. CASE steps = <<"ask", "gen", "yield">>
      BY <2>1, <2>2, <3>2 DEF TwoAsk, TwoGen, InFlight, Recent, Generated, Asked, Received
    <3> QED BY <3>1, <3>2 DEF TwoAsk
  <2>5. TwoDrainAsk => TwoDrainYield'
    BY <2>1, <2>2 DEF TwoDrainAsk, TwoDrainYield, InFlight, Recent, Generated, Asked, Received
  <2> QED BY <1>5, <2>3, <2>4, <2>5, TwoStepAt DEF AskTeacher, TwoStepPipeline
<1>6. CASE GetResult
  <2>1. UNCHANGED <<i, drained, read, rollout_future, teacher_future, actor_version,
                    rollout_version, consumed, crashes>>
    BY <1>6 DEF GetResult, dataloader
  <2>2. steps' = Tail(steps) /\ result' = teacher_future /\ teacher_future # NoCall
    BY <1>6 DEF GetResult
  <2>3. TwoGet => TwoAsk'
    <3>1. CASE steps = <<"get", "ask", "sync", "gen", "yield">>
      BY <2>1, <2>2, <3>1 DEF TwoGet, TwoAsk, InFlight, Recent, Generated, Asked, Received
    <3>2. CASE steps = <<"get", "ask", "gen", "yield">>
      BY <2>1, <2>2, <3>2 DEF TwoGet, TwoAsk, InFlight, Recent, Generated, Asked, Received
    <3> QED BY <3>1, <3>2 DEF TwoGet
  <2>4. TwoDrainGet => TwoDrainAsk'
    BY <2>1, <2>2 DEF TwoDrainGet, TwoDrainAsk, InFlight, Recent, Generated, Asked, Received
  <2>5. TwoLastGet => TwoLastYield'
    BY <2>1, <2>2 DEF TwoLastGet, TwoLastYield, InFlight, Recent, Asked, Received
  <2> QED BY <1>6, <2>2, <2>3, <2>4, <2>5, TwoStepAt DEF GetResult, TwoStepPipeline
<1>7. CASE Train \/ Skip
  <2>1. PICK b \in BOOLEAN : consumed' = Append(consumed, Entry(b))
    BY <1>7 DEF Train, Skip, EndStep
  <2>2. Entry(b) \in Consumption /\ Entry(b).batch = result.batch
    BY EntryTyped
  <2>3. /\ actor_version' = actor_version \/ actor_version' = actor_version + 1
        /\ AtOp("yield") /\ steps' = Tail(steps)
        /\ UNCHANGED <<i, drained, read, rollout_future, teacher_future, result,
                       rollout_version, crashes>>
    BY <1>7 DEF Train, Skip, EndStep, dataloader
  <2>4. \A n \in Nat : InFlight(n + 1) /\ result.batch = read - n => InFlight(n)'
    BY <2>1, <2>2, <2>3, TakeInFlight
  <2>5. \A v, m \in Nat : v >= actor_version - m => v >= actor_version' - (m + 1)
    BY <2>3, VersionsTyped
  <2>6. TwoYield => TwoTop'
    <3>1. TwoYield => InFlight(2)'
      BY <2>4 DEF TwoYield, Received
    <3>2. /\ Asked(read - 1, 1) => Asked(read - 1, 2)'
          /\ Generated(read, 0) => Generated(read, 1)'
      BY <2>3, <2>5, VersionsTyped DEF Asked, Generated, Recent
    <3>3. i \in Nat
      BY DEF TypeOK
    <3>4. i >= 3 => i' >= 2 /\ i' # 2
      BY <2>3, <3>3
    <3>5. TwoYield => steps' = <<>>
      BY <2>3 DEF TwoYield
    <3> QED BY <2>3, <3>1, <3>2, <3>4, <3>5 DEF TwoYield, TwoTop
  <2>7. TwoDrainYield => TwoLastGet'
    <3>1. TwoDrainYield => InFlight(1)'
      BY <2>4 DEF TwoDrainYield, Received
    <3>2. Asked(read, 1) => Asked(read, 2)'
      BY <2>3, <2>5, VersionsTyped DEF Asked, Recent
    <3> QED BY <2>3, <3>1, <3>2 DEF TwoDrainYield, TwoLastGet
  <2>8. TwoLastYield => TwoEnd'
    <3>1. TwoLastYield => InFlight(0)'
      BY <2>4 DEF TwoLastYield, Received, TypeOK
    <3> QED BY <2>3, <3>1 DEF TwoLastYield, TwoEnd
  <2> QED BY <2>3, <2>6, <2>7, <2>8, TwoStepAt DEF TwoStepPipeline
<1>8. CASE Quiet
  BY <1>8, QuietKeeps
  DEF Recent, InFlight, Generated, Asked, Received, TwoStepPipeline, TwoStart, TwoFirstSync,
      TwoFirstGen, TwoFirstTop, TwoSecondAsk, TwoSecondGen, TwoTop, TwoGet, TwoAsk, TwoSync,
      TwoGen, TwoYield, TwoDrainGet, TwoDrainAsk, TwoDrainYield, TwoLastGet, TwoLastYield, TwoEnd
<1>9. CASE Restart
  <2>1. InFlight(0)'
    BY <1>9, SMTT(60) DEF Restart, SavedInFlight, InFlight, TypeOK
  <2> QED BY <1>9, <2>1 DEF Restart, TwoStepPipeline, TwoStart
<1> QED
  BY <1>1, <1>2, <1>3, <1>4, <1>5, <1>6, <1>7, <1>8, <1>9 DEF Next, Driver, Quiet

-------------------------------------------------------------------------------
PipelineInv ==
  /\ scheduler \in {"one_step_off", "two_step_off"}
  /\ scheduler = "one_step_off" => OneStepPipeline
  /\ scheduler = "two_step_off" => TwoStepPipeline /\ SavedInFlight

Young(h) == \A k \in DOMAIN h : h[k].age <= 2
HistoryInv ==
  /\ Young(consumed) /\ Young(saved.consumed)
  /\ scheduler = "two_step_off" => Rising(consumed) /\ Rising(saved.consumed)

DistillInv == TypeInv /\ PipelineInv /\ HistoryInv

LEMMA InitDistill == Init => DistillInv
<1> SUFFICES ASSUME Init PROVE DistillInv
  OBVIOUS
<1>1. TypeInv
  BY InitTyped
<1>2. scheduler \in {"one_step_off", "two_step_off"}
  BY DistillAssumption DEF Init
<1>3. OneStepPipeline
  BY DEF Init, OneStepPipeline, OneStart
<1>4. TwoStepPipeline /\ SavedInFlight
  <2>1. InFlight(0) /\ SavedInFlight
    BY DEF Init, InFlight, SavedInFlight, LastBatch
  <2> QED BY <2>1 DEF Init, TwoStepPipeline, TwoStart
<1>5. HistoryInv
  BY DEF Init, HistoryInv, Young, Rising
<1> QED BY <1>1, <1>2, <1>3, <1>4, <1>5 DEF DistillInv, PipelineInv

(* What fit() is about to take is at most two updates old, and the oldest  *)
(* batch in flight.                                                        *)
LEMMA OneStepYields == OneStepPipeline /\ AtOp("yield") => Recent(result.version, 2)
  BY OneStepAt DEF OneYield, OneLastYield

LEMMA TwoStepYields ==
  TwoStepPipeline /\ TypeOK /\ AtOp("yield") =>
    /\ Recent(result.version, 2)
    /\ \E n \in 0..2 : InFlight(n + 1) /\ result.batch = read - n
<1> SUFFICES ASSUME TwoStepPipeline, AtOp("yield"), TypeOK
             PROVE  /\ Recent(result.version, 2)
                    /\ \E n \in 0..2 : InFlight(n + 1) /\ result.batch = read - n
  OBVIOUS
<1>1. CASE TwoYield
  BY <1>1 DEF TwoYield, Received
<1>2. CASE TwoDrainYield
  BY <1>2 DEF TwoDrainYield, Received
<1>3. CASE TwoLastYield
  BY <1>3 DEF TwoLastYield, Received, TypeOK
<1> QED BY <1>1, <1>2, <1>3, TwoStepAt

LEMMA YoungAppend ==
  ASSUME NEW h \in Seq(Consumption), NEW e \in Consumption, Young(h), e.age <= 2
  PROVE  Young(Append(h, e))
<1> SUFFICES ASSUME NEW k \in DOMAIN Append(h, e) PROVE Append(h, e)[k].age <= 2
  BY DEF Young
<1>1. k \in 1..(Len(h) + 1)
  OBVIOUS
<1>2. CASE k = Len(h) + 1
  BY <1>2
<1>3. CASE k \in 1..Len(h)
  BY <1>3 DEF Young
<1> QED BY <1>1, <1>2, <1>3

LEMMA BatchesTyped ==
  ASSUME NEW h \in Seq(Consumption), NEW k \in DOMAIN h
  PROVE  h[k].batch \in Nat
<1>1. h[k] \in Consumption
  OBVIOUS
<1> QED BY <1>1 DEF Consumption

LEMMA RisingBelowLast ==
  ASSUME NEW h \in Seq(Consumption), Rising(h)
  PROVE  /\ \A k \in DOMAIN h : h[k].batch <= LastBatch(h)
         /\ LastBatch(h) \in Nat
<1>1. CASE h = <<>>
  BY <1>1 DEF LastBatch
<1>2. CASE h # <<>>
  <2>1. /\ Len(h) \in DOMAIN h /\ LastBatch(h) = h[Len(h)].batch
        /\ \A k \in DOMAIN h : k \in Nat /\ k <= Len(h)
    BY <1>2 DEF LastBatch
  <2>2. \A k \in DOMAIN h : h[k].batch \in Nat
    BY BatchesTyped
  <2> QED BY <2>1, <2>2 DEF Rising
<1> QED BY <1>1, <1>2

LEMMA RisingAppend ==
  ASSUME NEW h \in Seq(Consumption), NEW e \in Consumption, Rising(h), LastBatch(h) < e.batch
  PROVE  Rising(Append(h, e))
<1> DEFINE g == Append(h, e)
<1>1. /\ DOMAIN g = 1..(Len(h) + 1) /\ Len(h) \in Nat /\ g[Len(h) + 1] = e
      /\ DOMAIN h = 1..Len(h) /\ \A k \in 1..Len(h) : g[k] = h[k]
  OBVIOUS
<1>2. e.batch \in Nat /\ LastBatch(h) \in Nat /\ \A k \in 1..Len(h) : h[k].batch \in Nat
  BY <1>1, RisingBelowLast, BatchesTyped DEF Consumption
<1>3. \A k \in 1..Len(h) : h[k].batch < e.batch
  BY <1>1, <1>2, RisingBelowLast
<1> HIDE DEF g
<1>4. \A k \in DOMAIN g : g[k].batch >= 1
  BY <1>1, <1>2 DEF Rising
<1>5. \A k, l \in DOMAIN g : k < l => g[k].batch < g[l].batch
  <2> SUFFICES ASSUME NEW k \in DOMAIN g, NEW l \in DOMAIN g, k < l
               PROVE  g[k].batch < g[l].batch
    OBVIOUS
  <2>1. k \in 1..Len(h) /\ (l \in 1..Len(h) \/ l = Len(h) + 1)
    BY <1>1
  <2> QED BY <1>1, <1>3, <2>1 DEF Rising
<1> QED BY <1>4, <1>5 DEF Rising, g

LEMMA StepDistill == DistillInv /\ [Next]_vars => DistillInv'
<1> SUFFICES ASSUME TypeInv, PipelineInv, HistoryInv, [Next]_vars PROVE DistillInv'
  BY DEF DistillInv
<1>1. TypeInv' /\ TypeOK
  BY StepTyped DEF TypeInv
<1>2. CASE UNCHANGED vars
  <2>1. PipelineInv'
    <3>1. Stopped \/ driver = "running"
      BY <1>2 DEF Stopped
    <3> QED
      BY <1>2
      DEF vars, pipeline, dataloader, PipelineInv, SavedInFlight, InFlight, Recent, Generated,
          Asked, Received, OneStepPipeline, OneStart, OneFirstSync, OneFirstGen, OneFirstAsk,
          OneTop, OneSync, OneGen, OneGet, OneYield, OneAsk, OneLastGet, OneLastYield, OneEnd,
          TwoStepPipeline, TwoStart, TwoFirstSync, TwoFirstGen, TwoFirstTop, TwoSecondAsk,
          TwoSecondGen, TwoTop, TwoGet, TwoAsk, TwoSync, TwoGen, TwoYield, TwoDrainGet,
          TwoDrainAsk, TwoDrainYield, TwoLastGet, TwoLastYield, TwoEnd
  <2>2. HistoryInv'
    BY <1>2 DEF vars, HistoryInv
  <2> QED BY <1>1, <2>1, <2>2 DEF DistillInv
<1>3. CASE Next
  <2>1. scheduler' = scheduler
    BY <1>3 DEF Next, Driver, NextBatch, LoopEnds, SyncRolloutWeights, StartGeneration,
       AskTeacher, GetResult, SchedulerRaises, Train, Skip, EndStep, GenerationDone,
       TeacherAnswers, TeacherFails, Restart, Stopped, vars
  <2>2. CASE Train \/ Skip
    <3>1. PICK b \in BOOLEAN :
            /\ AtOp("yield")
            /\ consumed' = Append(consumed, Entry(b)) /\ UNCHANGED <<read, crashes>>
            /\ \/ saved' = saved
               \/ saved'.consumed = consumed' /\ saved'.read = read'
      <4>1. ASSUME NEW b \in BOOLEAN, NEW v, EndStep(v, Append(consumed, Entry(b)))
            PROVE  /\ consumed' = Append(consumed, Entry(b)) /\ UNCHANGED <<read, crashes>>
                   /\ \/ saved' = saved
                      \/ saved'.consumed = consumed' /\ saved'.read = read'
        BY <4>1 DEF EndStep, Checkpoint, dataloader
      <4>2. CASE Train
        BY <4>1, <4>2 DEF Train
      <4>3. CASE Skip
        BY <4>1, <4>3 DEF Skip
      <4> QED BY <2>2, <4>2, <4>3
    <3>2. /\ consumed' = Append(consumed, Entry(b)) /\ UNCHANGED <<read, crashes>>
          /\ \/ saved' = saved
             \/ saved'.consumed = consumed' /\ saved'.read = read'
      BY <3>1
    <3>3. Entry(b) \in Consumption /\ consumed \in Seq(Consumption)
      BY <1>1, EntryTyped DEF TypeOK
    <3>4. Young(consumed')
      <4>1. Recent(result.version, 2)
        BY <1>1, <3>1, OneStepYields, TwoStepYields DEF PipelineInv
      <4>2. Entry(b).age <= 2
        BY <1>1, <4>1, EntryTyped, VersionsTyped DEF Recent
      <4> QED BY <3>2, <3>3, <4>2, YoungAppend DEF HistoryInv
    <3>5. ASSUME scheduler = "two_step_off"
          PROVE  Rising(consumed') /\ SavedInFlight'
      <4>1. PICK n \in 0..2 : InFlight(n + 1) /\ result.batch = read - n
        BY <3>1, <3>5, <1>1, TwoStepYields DEF PipelineInv
      <4>2. read \in Nat /\ crashes \in Nat /\ Len(consumed') \in Nat
        BY <3>2, <3>3, <1>1 DEF TypeOK
      <4>3. Rising(consumed) /\ LastBatch(consumed) \in Nat
        BY <3>3, <3>5, RisingBelowLast DEF HistoryInv
      <4>4. LastBatch(consumed) < Entry(b).batch
        BY <1>1, <4>1, <4>2, <4>3, EntryTyped DEF InFlight
      <4>5. Rising(consumed')
        BY <3>2, <3>3, <4>3, <4>4, RisingAppend
      <4>6. InFlight(n)'
        BY <1>1, <3>2, <3>3, <4>1, EntryTyped, TakeInFlight
      <4>7. LastBatch(consumed') \in Nat
        <5>1. consumed' \in Seq(Consumption)
          BY <3>2, <3>3
        <5> QED BY <4>5, <5>1, RisingBelowLast
      <4>8. SavedInFlight'
        <5>1. CASE saved' = saved
          BY <3>2, <3>5, <5>1 DEF SavedInFlight, PipelineInv
        <5>2. CASE saved'.consumed = consumed' /\ saved'.read = read'
          BY <3>2, <4>2, <4>6, <4>7, <5>2 DEF SavedInFlight, InFlight
        <5> QED BY <3>2, <5>1, <5>2
      <4> QED BY <4>5, <4>8
    <3>6. PipelineInv'
      BY <1>1, <1>3, <2>1, <3>5, OneStepKept, TwoStepKept DEF PipelineInv
    <3>7. HistoryInv'
      BY <2>1, <3>2, <3>4, <3>5 DEF HistoryInv
    <3> QED BY <1>1, <3>6, <3>7 DEF DistillInv
  <2>3. CASE Restart
    <3>1. /\ consumed' = saved.consumed /\ saved' = saved /\ crashes' = crashes + 1
      BY <2>3 DEF Restart
    <3>2. SavedInFlight => SavedInFlight'
      BY <1>1, <3>1 DEF SavedInFlight, TypeOK
    <3>3. PipelineInv'
      BY <1>1, <1>3, <2>1, <3>2, OneStepKept, TwoStepKept DEF PipelineInv
    <3>4. HistoryInv'
      BY <2>1, <3>1 DEF HistoryInv
    <3> QED BY <1>1, <3>3, <3>4 DEF DistillInv
  <2>4. CASE ~(Train \/ Skip \/ Restart)
    <3>1. UNCHANGED <<consumed, saved, crashes>>
      BY <1>3, <2>4 DEF Next, Driver, NextBatch, LoopEnds, SyncRolloutWeights, StartGeneration,
         AskTeacher, GetResult, SchedulerRaises, GenerationDone, TeacherAnswers, TeacherFails,
         Stopped, vars
    <3>2. SavedInFlight => SavedInFlight'
      BY <3>1 DEF SavedInFlight
    <3>3. PipelineInv'
      BY <1>1, <1>3, <2>1, <3>2, OneStepKept, TwoStepKept DEF PipelineInv
    <3>4. HistoryInv'
      BY <2>1, <3>1 DEF HistoryInv
    <3> QED BY <1>1, <3>3, <3>4 DEF DistillInv
  <2> QED BY <2>2, <2>3, <2>4
<1> QED BY <1>2, <1>3

(* No batch was generated by weights more than two updates older than the  *)
(* ones it updates, whatever the number of batches, failing teacher calls  *)
(* and restarts: what is in flight never falls further behind.             *)
THEOREM StalenessBounded == Spec => []Staleness
<1>1. DistillInv => Staleness
  BY DEF DistillInv, HistoryInv, Young, Staleness
<1> QED BY <1>1, InitDistill, StepDistill, PTL DEF Spec

-------------------------------------------------------------------------------
(* A history that only goes up misses as many numbers as its last exceeds  *)
(* its length.                                                             *)
LEMMA MissedBatches ==
  ASSUME NEW h \in Seq(Consumption), h # <<>>, Rising(h)
  PROVE  Cardinality(1..LastBatch(h) \ {h[k].batch : k \in DOMAIN h}) = LastBatch(h) - Len(h)
<1> DEFINE B == {h[k].batch : k \in DOMAIN h}
           f == [k \in 1..Len(h) |-> h[k].batch]
<1>1. Len(h) \in Nat /\ DOMAIN h = 1..Len(h) /\ Len(h) > 0
  OBVIOUS
<1>2. \A k \in 1..Len(h) : h[k].batch \in Nat /\ h[k].batch >= 1 /\ h[k].batch <= LastBatch(h)
  BY <1>1, RisingBelowLast, BatchesTyped DEF Rising
<1>3. f \in Bijection(1..Len(h), B)
  <2>1. f \in [1..Len(h) -> B]
    BY <1>1
  <2>2. \A k, l \in 1..Len(h) : f[k] = f[l] => k = l
    <3> SUFFICES ASSUME NEW k \in 1..Len(h), NEW l \in 1..Len(h), k # l
                 PROVE  f[k] # f[l]
      OBVIOUS
    <3>1. k < l \/ l < k
      BY <1>1
    <3>2. h[k].batch # h[l].batch
      BY <1>1, <1>2, <3>1 DEF Rising
    <3> QED BY <3>2
  <2>3. \A b \in B : \E k \in 1..Len(h) : f[k] = b
    BY <1>1
  <2> QED BY <2>1, <2>2, <2>3 DEF Bijection, Injection, Surjection, IsInjective
<1>4. Cardinality(B) = Len(h)
  <2>1. IsFiniteSet(1..Len(h)) /\ Cardinality(1..Len(h)) = Len(h)
    BY <1>1, FS_Interval
  <2>2. ExistsBijection(1..Len(h), B)
    BY <1>3 DEF ExistsBijection
  <2> QED BY <2>1, <2>2, FS_Bijection
<1>5. LastBatch(h) \in Nat /\ LastBatch(h) >= 1
  BY <1>1, <1>2, RisingBelowLast
<1>6. IsFiniteSet(1..LastBatch(h)) /\ Cardinality(1..LastBatch(h)) = LastBatch(h)
  BY <1>5, FS_Interval
<1>7. (1..LastBatch(h)) \cap B = B
  BY <1>1, <1>2, <1>5
<1> HIDE DEF B
<1>8. Cardinality((1..LastBatch(h)) \ B)
        = Cardinality(1..LastBatch(h)) - Cardinality((1..LastBatch(h)) \cap B)
  BY <1>6, FS_Difference
<1>9. Cardinality((1..LastBatch(h)) \ B) = LastBatch(h) - Len(h)
  BY <1>4, <1>6, <1>7, <1>8
<1> QED BY <1>9 DEF B

LEMMA SomeInFlight ==
  TwoStepPipeline => \E n \in 0..3 : InFlight(n)
BY DEF TwoStepPipeline, TwoStart, TwoFirstSync, TwoFirstGen, TwoFirstTop, TwoSecondAsk,
   TwoSecondGen, TwoTop, TwoGet, TwoAsk, TwoSync, TwoGen, TwoYield, TwoDrainGet,
   TwoDrainAsk, TwoDrainYield, TwoLastGet, TwoLastYield, TwoEnd

(* Across any number of restarts of two_step_off no batch goes into the    *)
(* weights twice, and each restart loses at most the two batches that were *)
(* in flight when its checkpoint was written.                              *)
THEOREM ResumedRunsLoseTwo == Spec => []ResumedOnce
<1>1. DistillInv => ResumedOnce
  <2> SUFFICES ASSUME DistillInv, scheduler = "two_step_off"
               PROVE  /\ \A k, l \in DOMAIN consumed : k < l => consumed[k].batch < consumed[l].batch
                      /\ Cardinality(Lost) <= 2 * crashes
    BY DEF ResumedOnce
  <2>1. Rising(consumed) /\ TwoStepPipeline /\ TypeOK
    BY DEF DistillInv, HistoryInv, PipelineInv, TypeInv
  <2>2. consumed \in Seq(Consumption) /\ crashes \in Nat /\ read \in Nat
    BY <2>1 DEF TypeOK
  <2>3. CASE consumed = <<>>
    <3>1. Cardinality(Lost) = 0
      BY <2>3, FS_EmptySet DEF Lost
    <3> QED BY <2>1, <2>2, <3>1 DEF Rising
  <2>4. CASE consumed # <<>>
    <3>1. PICK n \in 0..3 : InFlight(n)
      BY <2>1, SomeInFlight
    <3>2. LastBatch(consumed) \in Nat /\ Len(consumed) \in Nat
      BY <2>1, <2>2, RisingBelowLast
    <3>3. LastBatch(consumed) - Len(consumed) <= 2 * crashes
      BY <2>2, <3>1, <3>2 DEF InFlight
    <3>4. Lost = 1..LastBatch(consumed) \ {consumed[k].batch : k \in DOMAIN consumed}
      BY <2>4 DEF Lost, LastBatch
    <3>5. Cardinality(Lost) <= 2 * crashes
      BY <2>1, <2>2, <2>4, <3>3, <3>4, MissedBatches
    <3> QED BY <2>1, <3>5 DEF Rising
  <2> QED BY <2>3, <2>4
<1> QED BY <1>1, InitDistill, StepDistill, PTL DEF Spec
===============================================================================
