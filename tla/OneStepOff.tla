------------------------------ MODULE OneStepOff ------------------------------
(***************************************************************************)
(* fit of recipe/one_step_off_policy/ray_trainer.py: while the trainer     *)
(* workers update on a batch the rollout workers, on other devices,        *)
(* generate the next.  What becomes of the rows of one batch is PpoBatch's *)
(* subject; here a batch is its number in the stream of the dataloader,    *)
(* and a version is the number of updates the weights have been through.   *)
(*                                                                         *)
(* sync_rollout_weights is a collective of both groups of workers and      *)
(* serves, like every call to them, in its turn: the driver waits for it.  *)
(* A save is one step here (its parts are those of module Checkpoint).     *)
(***************************************************************************)
EXTENDS Integers, Sequences, FiniteSets

CONSTANTS
  EpochBatches, TotalEpochs,   (* of the dataloader, and trainer.total_epochs *)
  TotalTrainingSteps,          (* its values; it may be set by the user       *)
  TestFreq, SaveFreq,
  OverlapCrashes               (* bound of the model on restarts              *)

ASSUME OverlapAssumption ==
  /\ {EpochBatches, TotalEpochs, TestFreq, SaveFreq} \subseteq Nat \ {0}
  /\ TotalTrainingSteps \subseteq Nat \ {0}
  /\ OverlapCrashes \in Nat

VARIABLES
  total_training_steps,
  fit,               (* where fit is                                           *)
  global_steps,
  lineage,           (* the batches the actor's weights have been through      *)
  base,              (* history: updates at the start of this life             *)
  rollout_version,   (* of the weights of the rollout workers                  *)
  read, limit,       (* batches read from the iterator, and those it has       *)
  batch_data_future, (* the batch being generated, or generated                *)
  in_hand,           (* the batch trained on                                   *)
  validated,         (* step of the last validation, and the version it tested *)
  checkpoint,
  reading_failed, restarted    (* history *)

memory == <<fit, global_steps, lineage, base, rollout_version, read, limit, batch_data_future,
            in_hand, validated>>
overlapVars == <<total_training_steps, memory, checkpoint, reading_failed, restarted>>

NoBatch == [number |-> 0, version |-> 0, ready |-> FALSE]
Version == Len(lineage)
IsLastStep == global_steps >= total_training_steps

(* Where the iterator of a life ends that begins after r batches: a        *)
(* restart takes up the epoch it was in, as the first of total_epochs.     *)
LimitAfter(r) == EpochBatches * (TotalEpochs + IF r = 0 THEN 0 ELSE (r - 1) \div EpochBatches)

(* The rollout workers get the actor's weights as init_workers has them,   *)
(* before fit loads a checkpoint into the actor.                           *)
BeginFrom(c) ==
  /\ fit' = "loaded"
  /\ global_steps' = c.step /\ lineage' = c.lineage /\ base' = Len(c.lineage)
  /\ rollout_version' = 0
  /\ read' = c.read /\ limit' = LimitAfter(c.read)
  /\ batch_data_future' = NoBatch /\ in_hand' = NoBatch
  /\ validated' = [step |-> -1, version |-> 0]

NoCheckpoint == [step |-> 0, lineage |-> <<>>, read |-> 0]
OverlapInit ==
  /\ total_training_steps \in TotalTrainingSteps
  /\ fit = "loaded"
  /\ global_steps = 0 /\ lineage = <<>> /\ base = 0
  /\ rollout_version = 0
  /\ read = 0 /\ limit = LimitAfter(0)
  /\ batch_data_future = NoBatch /\ in_hand = NoBatch
  /\ validated = [step |-> -1, version |-> 0]
  /\ checkpoint = NoCheckpoint
  /\ reading_failed = FALSE /\ restarted = 0

-------------------------------------------------------------------------------
(* val_before_train, with what the rollout workers have. *)
Validation == [step |-> global_steps, version |-> rollout_version]
ValidateFirst ==
  /\ fit = "loaded"
  /\ validated' = Validation
  /\ fit' = "first"
  /\ UNCHANGED <<total_training_steps, global_steps, lineage, base, rollout_version, read, limit,
                 batch_data_future, in_hand, checkpoint, reading_failed, restarted>>

(* _async_gen_next_batch: the next batch is read, the weights go to the    *)
(* rollout workers, and its generation begins; or there is none.  Whatever *)
(* is raised while reading counts as the end of the data.                  *)
(* Mutant: the weights are not synchronised. *)
SyncedMutant == rollout_version
Synced == Version
AsyncGenNextBatch ==
  \/ /\ read < limit
     /\ read' = read + 1
     /\ rollout_version' = Synced
     /\ batch_data_future' = [number |-> read + 1, version |-> Synced, ready |-> FALSE]
     /\ UNCHANGED reading_failed
  \/ /\ read = limit
     /\ batch_data_future' = NoBatch
     /\ UNCHANGED <<read, rollout_version, reading_failed>>
  \/ /\ read < limit
     /\ batch_data_future' = NoBatch
     /\ reading_failed' = TRUE
     /\ UNCHANGED <<read, rollout_version>>
FirstGeneration ==
  /\ fit = "first"
  /\ AsyncGenNextBatch
  /\ global_steps' = global_steps + 1
  /\ fit' = IF batch_data_future' = NoBatch THEN "ended" ELSE "wait_prev_gen"
  /\ UNCHANGED <<total_training_steps, lineage, base, limit, in_hand, validated, checkpoint,
                 restarted>>

(* The rollout workers. *)
GenerationEnds ==
  /\ batch_data_future # NoBatch /\ ~batch_data_future.ready
  /\ batch_data_future' = [batch_data_future EXCEPT !.ready = TRUE]
  /\ UNCHANGED <<total_training_steps, fit, global_steps, lineage, base, rollout_version, read,
                 limit, in_hand, validated, checkpoint, reading_failed, restarted>>

WaitPrevGen ==
  /\ fit = "wait_prev_gen" /\ batch_data_future.ready
  /\ in_hand' = batch_data_future
  /\ fit' = IF IsLastStep THEN "train" ELSE "sync_rollout_weights"
  /\ UNCHANGED <<total_training_steps, global_steps, lineage, base, rollout_version, read, limit,
                 batch_data_future, validated, checkpoint, reading_failed, restarted>>

NextGeneration ==
  /\ fit = "sync_rollout_weights"
  /\ AsyncGenNextBatch
  /\ fit' = "train"
  /\ UNCHANGED <<total_training_steps, global_steps, lineage, base, limit, in_hand, validated,
                 checkpoint, restarted>>

(* Rewards, log-probabilities, advantages and the updates of the workers. *)
TrainStep ==
  /\ fit = "train"
  /\ lineage' = Append(lineage, in_hand.number)
  /\ fit' = "trained"
  /\ UNCHANGED <<total_training_steps, global_steps, base, rollout_version, read, limit,
                 batch_data_future, in_hand, validated, checkpoint, reading_failed, restarted>>

DueEvery(freq) == IsLastStep \/ global_steps % freq = 0
Validate ==
  /\ fit = "trained"
  /\ validated' = IF DueEvery(TestFreq) THEN Validation ELSE validated
  /\ fit' = "save"
  /\ UNCHANGED <<total_training_steps, global_steps, lineage, base, rollout_version, read, limit,
                 batch_data_future, in_hand, checkpoint, reading_failed, restarted>>

(* The dataloader is ahead of the weights by the batch being generated. *)
(* Mutant: the position saved is that of the batch trained on. *)
PositionSavedMutant == in_hand.number - 1
PositionSaved == read
SaveAndGoOn ==
  /\ fit = "save"
  /\ checkpoint' = IF DueEvery(SaveFreq)
                   THEN [step |-> global_steps, lineage |-> lineage, read |-> PositionSaved]
                   ELSE checkpoint
  /\ global_steps' = global_steps + 1
  /\ fit' = IF IsLastStep THEN "returned"
            ELSE IF batch_data_future = NoBatch THEN "ended" ELSE "wait_prev_gen"
  /\ UNCHANGED <<total_training_steps, lineage, base, rollout_version, read, limit,
                 batch_data_future, in_hand, validated, reading_failed, restarted>>

OverlapStopped == fit \in {"returned", "ended"}
CrashAndResume ==
  /\ ~OverlapStopped /\ restarted < OverlapCrashes
  /\ restarted' = restarted + 1
  /\ BeginFrom(checkpoint)
  /\ UNCHANGED <<total_training_steps, checkpoint, reading_failed>>

OverlapSteps ==
  \/ ValidateFirst \/ FirstGeneration \/ GenerationEnds \/ WaitPrevGen \/ NextGeneration
  \/ TrainStep \/ Validate \/ SaveAndGoOn
OverlapNext ==
  OverlapSteps \/ CrashAndResume \/ (OverlapStopped /\ UNCHANGED overlapVars)
OverlapSpec == OverlapInit /\ [][OverlapNext]_overlapVars /\ WF_overlapVars(OverlapSteps)

-------------------------------------------------------------------------------
Batches == [number : Nat, version : Nat, ready : BOOLEAN]
Checkpoints == [step : Nat, lineage : Seq(Nat), read : Nat]
OverlapTypeOK ==
  /\ fit \in {"loaded", "first", "wait_prev_gen", "sync_rollout_weights", "train", "trained",
              "save", "returned", "ended"}
  /\ lineage \in Seq(Nat) /\ checkpoint \in Checkpoints
  /\ global_steps \in Nat /\ read \in Nat /\ rollout_version \in Nat
  /\ base \in Nat /\ restarted \in Nat
  /\ batch_data_future \in Batches /\ in_hand \in Batches
  /\ validated \in [step : Int, version : Nat]

(* "One step off": the weights a batch is trained on have had exactly one  *)
(* update more than those it was generated with, and none more in the      *)
(* first step of a life.                                                   *)
TrainedOneBehind ==
  fit = "train" =>
    Version - in_hand.version = IF Version = base THEN 0 ELSE 1

(* What a validation has tested: one update behind the weights it is       *)
(* logged for while a generation goes on, but two behind in the last step, *)
(* and the weights before any training at the start of every life.         *)
Ahead == batch_data_future # NoBatch /\ ~IsLastStep
UpdatesMissing == Version - validated.version
ValidatedBehind ==
  /\ fit = "first" => validated.version = 0
  /\ fit = "save" /\ validated.step = global_steps =>
       UpdatesMissing = IF Ahead \/ Version - base = 1 THEN 1 ELSE 2

(* How old the weights are that make and test the batches.                 *)
OneStepBehind == TrainedOneBehind /\ ValidatedBehind

(* No batch is trained on twice, through any restarts, and a restart loses *)
(* at most the batch that was being generated when the checkpoint was      *)
(* saved.                                                                  *)
LastOf(s) == IF s = <<>> THEN 0 ELSE s[Len(s)]
Increasing(s) == \A i \in 1..Len(s) - 1 : s[i] < s[i + 1]
InFlightOnly == Increasing(lineage) /\ LastOf(lineage) - Version <= restarted

(* fit returns with the weights of its last step saved; it ends without    *)
(* them only when it has run out of batches, or could not read one.        *)
SavedAtReturn ==
  /\ fit = "returned" => checkpoint.lineage = lineage /\ checkpoint.step = global_steps - 1
  /\ fit = "ended" => read = limit \/ reading_failed

(* What goes into the weights and what is kept of them.                    *)
OverlapKept == OverlapTypeOK /\ InFlightOnly /\ SavedAtReturn

(* Training ends, whatever has been read and however often it is resumed.  *)
OverlapEnds == <>OverlapStopped
===============================================================================
