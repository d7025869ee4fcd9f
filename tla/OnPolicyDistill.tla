---------------------------- MODULE OnPolicyDistill ----------------------------
(***************************************************************************)
(* The on-policy distillation trainer of recipe/gkd: fit() pulls batches   *)
(* out of a generator, one_step_off_scheduler or two_step_off_scheduler,   *)
(* which keeps a generation on the rollout workers and a call of the       *)
(* teacher in flight while the actor trains; checkpoints, and restarts     *)
(* that resume from the last one.                                          *)
(*                                                                         *)
(* fit() and the generator are one thread, the driver.  An iteration of    *)
(* the generator's loop is a sequence of operations (Iteration); steps is  *)
(* what is left of the current one.  Generations and teacher calls end on  *)
(* their own.  Batches are numbered in the order the dataloader gives them *)
(* out; a teacher call is one step here (its threads, sockets and timeouts *)
(* are in TeacherService), and so is a weight broadcast, for which the     *)
(* driver waits.                                                           *)
(***************************************************************************)
EXTENDS Integers, Sequences, FiniteSets

CONSTANTS
  Schedulers,     (* the values of trainer.scheduler considered               *)
  EpochLength,    (* len(train_dataloader)                                    *)
  Epochs,         (* trainer.total_epochs                                     *)
  TotalSteps,     (* total_training_steps                                     *)
  SaveFreq,       (* trainer.save_freq; 0 never saves                         *)
  MaxFailures,    (* bound of the model on failing teacher calls              *)
  MaxCrashes      (* bound of the model on restarts of the trainer            *)

(* total_training_steps is the minimum of the configured number and of the *)
(* number of batches.                                                      *)
ASSUME DistillAssumption ==
  /\ Schedulers \subseteq {"one_step_off", "two_step_off"}
  /\ {EpochLength, Epochs, TotalSteps} \subseteq Nat \ {0}
  /\ TotalSteps <= EpochLength * Epochs
  /\ {SaveFreq, MaxFailures, MaxCrashes} \subseteq Nat

VARIABLES
  driver,            (* "running"; fit() has "returned" or "raised"            *)
  scheduler,         (* the generator in use                                   *)
  i, steps,          (* its loop index and the operations left of the iteration *)
  drained,           (* its for loop has ended                                 *)
  read,              (* number of the last batch taken from the dataloader     *)
  position, left,    (* batches read of this epoch; batches left in this life  *)
  rollout_future,    (* fut / rollout_future: the last generation              *)
  teacher_future,    (* prev_fut / teacher_future: the last teacher call       *)
  result,            (* what get() returned: fit's next batch                  *)
  padded,            (* the batch whose knowledge teacher_topk_logps_padded holds *)
  actor_version,     (* updates of the actor                                   *)
  rollout_version,   (* the actor's version the rollout workers hold           *)
  global_steps,
  saved,             (* the checkpoint a restart finds                         *)
  consumed,          (* history: the batches the weights have been through     *)
  failures, crashes

pipeline == <<i, steps, drained, rollout_future, teacher_future, result, padded>>
dataloader == <<read, position, left>>
vars == <<driver, scheduler, pipeline, dataloader, actor_version, rollout_version,
          global_steps, saved, consumed, failures, crashes>>

NoGeneration == [batch |-> 0, version |-> 0, done |-> TRUE]
NoCall == [batch |-> 0, version |-> 0, answer |-> "none"]

(* The operations of one iteration of the schedulers' loops.  The first    *)
(* iteration of one_step_off_scheduler runs both of its if statements.     *)
OneStepOff(k) ==
  (IF k = 0 THEN <<"sync", "gen", "ask">> ELSE <<>>)
  \o (IF k = 1 THEN <<"gen", "get", "yield", "ask">>
      ELSE <<"sync", "gen", "get", "yield", "ask">>)
(* Mutant: the weights are synchronised once. *)
TwoStepOffSyncsOnce(k) ==
  IF k = 0 THEN <<"sync", "gen">>
  ELSE IF k = 1 THEN <<"ask", "gen">>
  ELSE <<"get", "ask", "gen", "yield">>
TwoStepOff(k) ==
  IF k = 0 THEN <<"sync", "gen">>
  ELSE IF k = 1 THEN <<"ask", "gen">>
  ELSE IF k = 2 THEN <<"get", "ask", "gen", "yield">>
  ELSE <<"get", "ask", "sync", "gen", "yield">>
Iteration(s, k) == IF s = "one_step_off" THEN OneStepOff(k) ELSE TwoStepOff(k)

(* Mutant: the last step of the double buffer is forgotten. *)
EpilogueMutant(s) ==
  IF s = "one_step_off" THEN <<"get", "yield">> ELSE <<"get", "ask", "yield">>

(* What follows the loop. *)
Epilogue(s) ==
  IF s = "one_step_off" THEN <<"get", "yield">>
  ELSE <<"get", "ask", "yield", "get", "yield">>

NoCheckpoint == [step |-> 0, version |-> 0, read |-> 0, position |-> 0, consumed |-> <<>>]

(* The iterator goes through what is left of a restored epoch and through  *)
(* total_epochs - 1 more.                                                  *)
BatchesLeft(pos) == EpochLength * Epochs - pos

(* fit() at the top of its loop, nothing in flight. *)
Init ==
  /\ driver = "running"
  /\ scheduler \in Schedulers
  /\ i = 0 /\ steps = <<>> /\ drained = FALSE
  /\ rollout_future = NoGeneration
  /\ teacher_future = NoCall /\ result = NoCall
  /\ padded = 0
  /\ read = 0 /\ position = 0 /\ left = BatchesLeft(0)
  /\ actor_version = 0 /\ rollout_version = 0
  /\ global_steps = 1
  /\ saved = NoCheckpoint
  /\ consumed = <<>>
  /\ failures = 0 /\ crashes = 0

-------------------------------------------------------------------------------
(* The generator. *)
AtOp(op) == driver = "running" /\ steps # <<>> /\ Head(steps) = op

(* for i, (epoch, batch_dict) in enumerate(continuous_iterator): a new     *)
(* epoch starts a new iterator over the dataloader.                        *)
NextBatch ==
  /\ driver = "running" /\ steps = <<>> /\ ~drained
  /\ left > 0
  /\ read' = read + 1
  /\ position' = IF position = EpochLength THEN 1 ELSE position + 1
  /\ left' = left - 1
  /\ i' = i + 1
  /\ steps' = Iteration(scheduler, i)
  /\ UNCHANGED <<driver, scheduler, drained, rollout_future, teacher_future, result, padded,
                 actor_version, rollout_version, global_steps, saved, consumed,
                 failures, crashes>>

(* The iterator is exhausted; a finished dataloader starts afresh next time. *)
LoopEnds ==
  /\ driver = "running" /\ steps = <<>> /\ ~drained
  /\ left = 0
  /\ drained' = TRUE
  /\ position' = 0
  /\ steps' = Epilogue(scheduler)
  /\ UNCHANGED <<driver, scheduler, i, read, left, rollout_future, teacher_future, result,
                 padded, actor_version, rollout_version, global_steps, saved,
                 consumed, failures, crashes>>

(* sync_rollout_weights: the broadcast queues behind a running generation. *)
SyncRolloutWeights ==
  /\ AtOp("sync")
  /\ rollout_future.done
  /\ rollout_version' = actor_version
  /\ steps' = Tail(steps)
  /\ UNCHANGED <<driver, scheduler, i, drained, dataloader, rollout_future, teacher_future,
                 result, padded, actor_version, global_steps, saved, consumed,
                 failures, crashes>>

(* _async_gen_next_batch, after its synchronisation *)
StartGeneration ==
  /\ AtOp("gen")
  /\ rollout_future' = [batch |-> read, version |-> rollout_version, done |-> FALSE]
  /\ steps' = Tail(steps)
  /\ UNCHANGED <<driver, scheduler, i, drained, dataloader, teacher_future, result, padded,
                 actor_version, rollout_version, global_steps, saved, consumed,
                 failures, crashes>>

(* _async_get_teacher_knowledge waits for the generation and submits it. *)
AskTeacher ==
  /\ AtOp("ask")
  /\ rollout_future.done
  /\ teacher_future' = [batch |-> rollout_future.batch, version |-> rollout_future.version,
                        answer |-> "pending"]
  /\ steps' = Tail(steps)
  /\ UNCHANGED <<driver, scheduler, i, drained, dataloader, rollout_future, result, padded,
                 actor_version, rollout_version, global_steps, saved, consumed,
                 failures, crashes>>

(* GenerationBatchFuture.get: a failed call becomes an empty answer.  The  *)
(* driver unpacks the answers into the padded buffer all calls share.      *)
GetResult ==
  /\ AtOp("get")
  /\ teacher_future.answer \in {"ok", "failed"}
  /\ result' = teacher_future
  /\ padded' = IF teacher_future.answer = "ok" THEN teacher_future.batch ELSE padded
  /\ steps' = Tail(steps)
  /\ UNCHANGED <<driver, scheduler, i, drained, dataloader, rollout_future, teacher_future,
                 actor_version, rollout_version, global_steps, saved, consumed,
                 failures, crashes>>

(* The generator is exhausted (StopIteration), or reads a future that no   *)
(* iteration has assigned (UnboundLocalError): fit() ends with an error.   *)
SchedulerRaises ==
  /\ driver = "running"
  /\ \/ steps = <<>> /\ drained
     \/ AtOp("get") /\ teacher_future = NoCall
  /\ driver' = "raised"
  /\ UNCHANGED <<scheduler, pipeline, dataloader, actor_version, rollout_version,
                 global_steps, saved, consumed, failures, crashes>>

-------------------------------------------------------------------------------
(* The body of fit()'s loop, from next(scheduler) to the top of the next   *)
(* step.                                                                   *)
(* Mutants: only every SaveFreq steps are saved; a restart finds no state  *)
(* of the dataloader.                                                      *)
IsLastStep(g) == g >= TotalSteps
SaveDueMutant(g) == SaveFreq > 0 /\ g % SaveFreq = 0
SaveDue(g) == SaveFreq > 0 /\ (IsLastStep(g) \/ g % SaveFreq = 0)

CheckpointNoData(version, history) ==
  [step |-> global_steps, version |-> version, read |-> 0, position |-> 0, consumed |-> history]
Checkpoint(version, history) ==
  [step |-> global_steps, version |-> version, read |-> read, position |-> position,
   consumed |-> history]

EndStep(version, history) ==
  /\ actor_version' = version
  /\ consumed' = history
  /\ saved' = IF SaveDue(global_steps) THEN Checkpoint(version, history) ELSE saved
  /\ global_steps' = global_steps + 1
  /\ driver' = IF IsLastStep(global_steps) THEN "returned" ELSE driver
  /\ steps' = Tail(steps)
  /\ UNCHANGED <<scheduler, i, drained, dataloader, rollout_future, teacher_future, result,
                 padded, rollout_version, failures, crashes>>

(* The batch as the actor sees it: the update uses the sequences of the    *)
(* batch and the knowledge that is in the shared buffer.                   *)
Entry(trained) ==
  [batch |-> result.batch, knowledge |-> IF trained THEN padded ELSE 0,
   age |-> actor_version - result.version, trained |-> trained]

Train ==
  /\ AtOp("yield") /\ result.answer = "ok"
  /\ EndStep(actor_version + 1, Append(consumed, Entry(TRUE)))

(* Without teacher knowledge the batch is skipped.                         *)
Skip ==
  /\ AtOp("yield") /\ result.answer = "failed"
  /\ EndStep(actor_version, Append(consumed, Entry(FALSE)))

-------------------------------------------------------------------------------
(* The rollout workers and the teacher. *)
GenerationDone ==
  /\ driver = "running"
  /\ ~rollout_future.done
  /\ rollout_future' = [rollout_future EXCEPT !.done = TRUE]
  /\ UNCHANGED <<driver, scheduler, i, steps, drained, dataloader, teacher_future, result,
                 padded, actor_version, rollout_version, global_steps, saved,
                 consumed, failures, crashes>>

(* Mutant: the answer goes into the shared buffer as it arrives. *)
TeacherAnswersMutant ==
  /\ driver = "running"
  /\ teacher_future.answer = "pending"
  /\ teacher_future' = [teacher_future EXCEPT !.answer = "ok"]
  /\ padded' = teacher_future.batch
  /\ UNCHANGED <<driver, scheduler, i, steps, drained, dataloader, rollout_future, result,
                 actor_version, rollout_version, global_steps, saved, consumed,
                 failures, crashes>>
TeacherAnswers ==
  /\ driver = "running"
  /\ teacher_future.answer = "pending"
  /\ teacher_future' = [teacher_future EXCEPT !.answer = "ok"]
  /\ UNCHANGED <<driver, scheduler, i, steps, drained, dataloader, rollout_future, result,
                 padded, actor_version, rollout_version, global_steps, saved,
                 consumed, failures, crashes>>

TeacherFails ==
  /\ driver = "running"
  /\ teacher_future.answer = "pending"
  /\ failures < MaxFailures
  /\ failures' = failures + 1
  /\ teacher_future' = [teacher_future EXCEPT !.answer = "failed"]
  /\ UNCHANGED <<driver, scheduler, i, steps, drained, dataloader, rollout_future, result,
                 padded, actor_version, rollout_version, global_steps, saved,
                 consumed, crashes>>

(* The job dies and is started again: nothing is in flight, and            *)
(* _load_checkpoint restores the latest complete checkpoint, or nothing.   *)
Restart ==
  /\ driver = "running"
  /\ crashes < MaxCrashes
  /\ crashes' = crashes + 1
  /\ i' = 0 /\ steps' = <<>> /\ drained' = FALSE
  /\ rollout_future' = NoGeneration
  /\ teacher_future' = NoCall /\ result' = NoCall
  /\ padded' = 0
  /\ read' = saved.read /\ position' = saved.position
  /\ left' = BatchesLeft(saved.position)
  /\ actor_version' = saved.version /\ rollout_version' = 0
  /\ global_steps' = saved.step + 1
  /\ consumed' = saved.consumed
  /\ UNCHANGED <<driver, scheduler, saved, failures>>

Stopped == driver # "running" /\ UNCHANGED vars

Driver ==
  \/ NextBatch \/ LoopEnds
  \/ SyncRolloutWeights \/ StartGeneration \/ AskTeacher \/ GetResult
  \/ SchedulerRaises
  \/ Train \/ Skip

Next ==
  \/ Driver
  \/ GenerationDone \/ TeacherAnswers \/ TeacherFails
  \/ Restart
  \/ Stopped

Spec == Init /\ [][Next]_vars

(* The driver runs, generations end, and every teacher call ends one way   *)
(* or the other (its client raises after a timeout).                       *)
FairSpec ==
  /\ Spec
  /\ WF_vars(Driver)
  /\ WF_vars(GenerationDone)
  /\ WF_vars(TeacherAnswers \/ TeacherFails)

-------------------------------------------------------------------------------
Operations == {"sync", "gen", "ask", "get", "yield"}
Call == [batch : Nat, version : Nat, answer : {"none", "pending", "ok", "failed"}]
Consumption == [batch : Nat, knowledge : Nat, age : Int, trained : BOOLEAN]

(* Types; a position never leaves its epoch, and neither fit() nor a       *)
(* checkpoint ever counts beyond the announced number of steps.            *)
TypeOK ==
  /\ driver \in {"running", "returned", "raised"}
  /\ scheduler \in Schedulers
  /\ i \in Nat /\ drained \in BOOLEAN
  /\ steps \in Seq(Operations)
  /\ read \in Nat /\ position \in 0..EpochLength /\ left \in Nat
  /\ rollout_future \in [batch : Nat, version : Nat, done : BOOLEAN]
  /\ teacher_future \in Call /\ result \in Call
  /\ padded \in Nat
  /\ actor_version \in Nat /\ rollout_version \in Nat
  /\ global_steps \in 1..(TotalSteps + 1)
  /\ saved \in [step : 0..TotalSteps, version : Nat, read : Nat,
                position : 0..EpochLength, consumed : Seq(Consumption)]
  /\ consumed \in Seq(Consumption)
  /\ failures \in 0..MaxFailures /\ crashes \in 0..MaxCrashes

(* Training goes through the batches in the order of the dataloader, each  *)
(* exactly once, trained or skipped: the scheduler neither repeats a batch *)
(* nor drops the one in flight.                                            *)
EveryBatchOnce == \A k \in DOMAIN consumed : consumed[k].batch = k

(* No batch was generated by weights more than two updates older than the  *)
(* ones it updates.                                                        *)
Staleness == \A k \in DOMAIN consumed : consumed[k].age <= 2

(* The actor is never trained on a batch with the knowledge of another:    *)
(* when a batch is trained, the buffer shared by all teacher calls still   *)
(* holds its own.                                                          *)
OwnKnowledge == \A k \in DOMAIN consumed :
  consumed[k].trained => consumed[k].knowledge = consumed[k].batch

(* A run that has returned has saved its last weights, also when its last  *)
(* batch was skipped.                                                      *)
LastWeightsSaved ==
  driver = "returned" /\ SaveFreq > 0 =>
    saved.version = actor_version /\ saved.step = TotalSteps

(* Across restarts of two_step_off: no batch goes into the weights twice,  *)
(* and a restart loses only the batches that were in flight, two at most.  *)
(* (one_step_off repeats its first batch without any restart.)             *)
Lost == IF consumed = <<>> THEN {}
        ELSE 1..consumed[Len(consumed)].batch \ {consumed[k].batch : k \in DOMAIN consumed}
ResumedOnce ==
  scheduler = "two_step_off" =>
    /\ \A k, l \in DOMAIN consumed : k < l => consumed[k].batch < consumed[l].batch
    /\ Cardinality(Lost) <= 2 * crashes

(* fit() returns: it takes every step it announced.  Only a resumed run    *)
(* may run out of batches, because the dataloader saved in its checkpoint  *)
(* was ahead of the step by the batches in flight.                         *)
Finishes == <>(driver = "returned" \/ (driver = "raised" /\ crashes > 0))
===============================================================================
