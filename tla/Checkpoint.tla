------------------------------ MODULE Checkpoint ------------------------------
(***************************************************************************)
(* Checkpoints on disk and the restarts that resume from them, for the     *)
(* trainers that share the checkpoint managers of verl/utils/checkpoint:   *)
(*                                                                         *)
(*   "ppo"          one driver saves the actor, the critic and data.pt of  *)
(*                  step s under global_step_s, then writes s to the       *)
(*                  tracker file (verl/trainer/ppo/ray_trainer.py);        *)
(*   "fully_async"  the same, but the dataloader belongs to the rollouter  *)
(*                  and is ahead of the trainer by the samples in flight;  *)
(*   "sft"          every rank is a process of its own, writes the         *)
(*                  position of its dataloader, and rank 0 renames the     *)
(*                  tracker into place (checkpoint_handler.py).            *)
(*                                                                         *)
(* The manager behind a part is FSDP's, Megatron's, which writes the       *)
(* tracker itself, or Megatron's with async_save, which leaves that to the *)
(* step after the one in which the write has ended.  A save is a sequence  *)
(* of operations on the disk, and a crash may fall between any two.  The   *)
(* dataset has Steps batches per rank and is gone through once; batch b of *)
(* rank r is <<r, b>>, and weights is the set of batches they are made of. *)
(***************************************************************************)
EXTENDS Integers, Sequences, FiniteSets

CONSTANTS
  CkptJobs,       (* the trainers, managers and settings considered           *)
  Steps,          (* total_training_steps                                     *)
  CkptFreq,       (* trainer.save_freq                                        *)
  Lead,           (* most samples in flight of the asynchronous rollouter     *)
  CkptCrashes     (* bound of the model on restarts                           *)

(* keep is max_ckpt_to_keep (0: no limit).  An asynchronous save is taken  *)
(* to end before its directory is rotated away.                            *)
ASSUME CheckpointAssumption ==
  /\ CkptJobs \subseteq [trainer : {"ppo", "fully_async", "sft"},
                         manager : {"fsdp", "megatron", "async"},
                         keep : Nat, critic : BOOLEAN]
  /\ \A j \in CkptJobs :
       /\ j.trainer # "ppo" => j.manager = "fsdp"
       /\ j.trainer = "sft" => ~j.critic
       /\ j.manager = "async" => j.keep = 0
  /\ {Steps, CkptFreq, Lead} \subseteq Nat \ {0}
  /\ CkptCrashes \in Nat

VARIABLES
  job,
  trainer,         (* "running"; "done", or "failed" to load                    *)
  step, weights,   (* global_steps and the batches the weights have been through *)
  position,        (* of the dataloader of each rank                           *)
  inflight,        (* fully_async: samples read and not trained on yet         *)
  todo, target,    (* operations left of the save, and the step they save      *)
  late,            (* ranks that have not written their data file yet          *)
  previous_saved_paths,  (* of the manager of each part, in memory             *)
  pending,         (* async_calls: the asynchronous saves not finalised yet    *)
  disk,            (* the directory global_step_s of every s                   *)
  tracker,         (* latest_checkpointed_iteration.txt                        *)
  durable,         (* history: step of the last save that was completed        *)
  restarts

ckptMemory == <<step, weights, position, inflight, todo, target, late,
                previous_saved_paths, pending>>
ckptVars == <<job, trainer, ckptMemory, disk, tracker, durable, restarts>>

NoTracker == 0
EmptyTracker == -1
NoFile == -1
DpRanks(j) == IF j.trainer = "sft" THEN {0, 1} ELSE {0}
NoDirectory(j) == [actor |-> "none", critic |-> "none",
                   data |-> [r \in DpRanks(j) |-> NoFile], weights |-> {}]
Parts(j) == IF j.critic THEN <<"actor", "critic">> ELSE <<"actor">>

(* The driver of ppo truncates the tracker and then writes it; rank 0 of   *)
(* sft renames a temporary file.                                           *)
WriteTracker == << <<"truncate", "tracker">>, <<"write", "tracker">> >>
SavePart(j, part) ==
  CASE j.manager = "fsdp"     -> << <<"begin", part>>, <<"end", part>> >>
    [] j.manager = "megatron" -> << <<"begin", part>>, <<"end", part>> >> \o WriteTracker
    [] j.manager = "async"    -> << <<"begin", part>> >>
SaveCheckpoint(j) ==
  SavePart(j, "actor")
  \o (IF j.critic THEN SavePart(j, "critic") ELSE <<>>)
  \o << <<"write", "data">> >>
  \o CASE j.manager = "async" -> <<>>
       [] j.trainer = "sft"   -> << <<"write", "tracker">> >>
       [] OTHER               -> WriteTracker

CkptInit ==
  /\ job \in CkptJobs
  /\ trainer = "running"
  /\ step = 0 /\ weights = {}
  /\ position = [r \in DpRanks(job) |-> 0]
  /\ inflight = <<>>
  /\ todo = <<>> /\ target = 0 /\ late = {}
  /\ previous_saved_paths = [actor |-> <<>>, critic |-> <<>>]
  /\ pending = <<>>
  /\ disk = [s \in 1..Steps |-> NoDirectory(job)]
  /\ tracker = NoTracker
  /\ durable = 0 /\ restarts = 0

-------------------------------------------------------------------------------
(* Training. *)
Saving == todo # <<>> \/ late # {}
AtTop == trainer = "running" /\ ~Saving
FinaliseDue == pending # <<>> /\ Head(pending).written

(* The rollouter reads ahead. *)
Feed ==
  /\ job.trainer = "fully_async"
  /\ trainer = "running"
  /\ position[0] < Steps /\ Len(inflight) < Lead
  /\ position' = [position EXCEPT ![0] = @ + 1]
  /\ inflight' = Append(inflight, position[0] + 1)
  /\ UNCHANGED <<job, trainer, step, weights, todo, target, late, previous_saved_paths,
                 pending, disk, tracker, durable, restarts>>

(* A capacity block that is about to expire (should_save_ckpt_esi) may     *)
(* force a save after any step; the supervised trainer does not look.      *)
SaveIsDue(s, esi) ==
  \/ s % CkptFreq = 0
  \/ s = Steps /\ job.trainer # "fully_async"
  \/ esi /\ job.trainer # "sft"

(* One iteration of fit(): a batch per rank, and the save it may call for. *)
Train(esi) ==
  /\ AtTop /\ ~FinaliseDue
  /\ step < Steps
  /\ IF job.trainer = "fully_async"
     THEN /\ inflight # <<>>
          /\ weights' = weights \cup {<<0, Head(inflight)>>}
          /\ inflight' = Tail(inflight)
          /\ UNCHANGED position
     ELSE /\ weights' = weights \cup {<<r, position[r] + 1>> : r \in DpRanks(job)}
          /\ position' = [r \in DpRanks(job) |-> position[r] + 1]
          /\ UNCHANGED inflight
  /\ step' = step + 1
  /\ todo' = IF SaveIsDue(step + 1, esi) THEN SaveCheckpoint(job) ELSE <<>>
  /\ target' = step + 1
  /\ UNCHANGED <<job, trainer, late, previous_saved_paths, pending, disk, tracker,
                 durable, restarts>>

(* fit() returns after its last step, or when the rollouter's end sample   *)
(* arrives; the asynchronous saves are waited for.                         *)
Return ==
  /\ AtTop /\ pending = <<>>
  /\ step = Steps \/ (position[0] = Steps /\ inflight = <<>>)
  /\ trainer' = "done"
  /\ UNCHANGED <<job, ckptMemory, disk, tracker, durable, restarts>>

-------------------------------------------------------------------------------
(* A save. *)
AtDiskOp(op) == trainer = "running" /\ todo # <<>> /\ Head(todo) = op

(* What is done when the last operation of a save has been. *)
SaveGoesOn(pend, ranks) ==
  /\ todo' = Tail(todo)
  /\ late' = ranks
  /\ durable' = IF Tail(todo) = <<>> /\ ranks = {} /\ \A k \in DOMAIN pend : pend[k].step # target
                THEN target ELSE durable

(* The paths a new save pushes out of the window of max_ckpt_to_keep; for  *)
(* sft a path is the directory of the step, else only that of its part.    *)
(* Mutant: all paths are removed. *)
RotatedAll(paths) == IF job.keep > 0 THEN Len(paths) ELSE 0
Rotated(paths) ==
  IF job.keep > 0 /\ Len(paths) >= job.keep THEN Len(paths) - job.keep + 1 ELSE 0
WithoutPart(dir, part) ==
  IF job.trainer = "sft" THEN NoDirectory(job) ELSE [dir EXCEPT ![part] = "none"]

(* save_checkpoint of a manager up to the first file written: old paths    *)
(* are removed before anything of the new one is there.                    *)
BeginPart(part) ==
  LET paths == previous_saved_paths[part]
      removed == {paths[k] : k \in 1..Rotated(paths)}
      kept == SubSeq(paths, Rotated(paths) + 1, Len(paths))
      async == job.manager = "async"
      pend == IF async THEN Append(pending, [part |-> part, step |-> target, written |-> FALSE])
              ELSE pending
  IN /\ AtDiskOp(<<"begin", part>>)
     /\ disk' = [s \in 1..Steps |->
                  IF s = target THEN [disk[s] EXCEPT ![part] = "partial", !.weights = weights]
                  ELSE IF s \in removed THEN WithoutPart(disk[s], part) ELSE disk[s]]
     /\ previous_saved_paths' =
          [previous_saved_paths EXCEPT ![part] = IF async THEN Append(kept, target) ELSE kept]
     /\ pending' = pend
     /\ SaveGoesOn(pend, late)
     /\ UNCHANGED <<job, trainer, step, weights, position, inflight, target, tracker, restarts>>

(* Past the last barrier: the files of every rank are there, and the ranks *)
(* of sft go on by themselves.                                             *)
EndPart(part) ==
  /\ AtDiskOp(<<"end", part>>)
  /\ disk' = [disk EXCEPT ![target][part] = "whole"]
  /\ previous_saved_paths' = [previous_saved_paths EXCEPT ![part] = Append(@, target)]
  /\ SaveGoesOn(pending, DpRanks(job) \ {0})
  /\ UNCHANGED <<job, trainer, step, weights, position, inflight, target, pending, tracker,
                 restarts>>

WriteData ==
  /\ AtDiskOp(<<"write", "data">>)
  /\ disk' = [disk EXCEPT ![target].data[0] = position[0]]
  /\ SaveGoesOn(pending, late)
  /\ UNCHANGED <<job, trainer, step, weights, position, inflight, target,
                 previous_saved_paths, pending, tracker, restarts>>

(* Nothing orders the other ranks' files before rank 0's rename; a barrier *)
(* ends the save.                                                          *)
WriteLateData(r) ==
  /\ trainer = "running" /\ r \in late
  /\ disk' = [disk EXCEPT ![target].data[r] = position[r]]
  /\ late' = late \ {r}
  /\ durable' = IF todo = <<>> /\ late' = {} THEN target ELSE durable
  /\ UNCHANGED <<job, trainer, step, weights, position, inflight, todo, target,
                 previous_saved_paths, pending, tracker, restarts>>

WriteTrackerFile ==
  /\ \/ AtDiskOp(<<"truncate", "tracker">>) /\ tracker' = EmptyTracker
     \/ AtDiskOp(<<"write", "tracker">>) /\ tracker' = target
  /\ SaveGoesOn(pending, late)
  /\ UNCHANGED <<job, trainer, step, weights, position, inflight, target,
                 previous_saved_paths, pending, disk, restarts>>

(* The process that writes an asynchronous save ends (Megatron). *)
AsyncWritten ==
  \E k \in DOMAIN pending :
    /\ trainer = "running" /\ ~pending[k].written
    /\ pending' = [pending EXCEPT ![k].written = TRUE]
    /\ disk' = [disk EXCEPT ![pending[k].step][pending[k].part] = "whole"]
    /\ UNCHANGED <<job, trainer, step, weights, position, inflight, todo, target, late,
                   previous_saved_paths, tracker, durable, restarts>>

(* At the top of an iteration, or before returning: the first asynchronous *)
(* save, if it is written, is finalised, which writes the tracker.         *)
Finalised == Tail(pending)
Finalise ==
  /\ AtTop /\ FinaliseDue
  /\ todo' = WriteTracker
  /\ target' = Head(pending).step
  /\ pending' = Finalised
  /\ UNCHANGED <<job, trainer, step, weights, position, inflight, late,
                 previous_saved_paths, disk, tracker, durable, restarts>>

-------------------------------------------------------------------------------
(* Restarts. *)
Whole(s) ==
  /\ \A k \in DOMAIN Parts(job) : disk[s][Parts(job)[k]] = "whole"
  /\ \A r \in DpRanks(job) : disk[s].data[r] # NoFile

(* find_latest_ckpt_path: no tracker, or a tracker that names no           *)
(* directory, means training from scratch.                                 *)
Exists(s) == [disk[s] EXCEPT !.weights = {}] # NoDirectory(job)
FromScratch == tracker = NoTracker \/ (tracker \in 1..Steps /\ ~Exists(tracker))
(* int() of an empty tracker raises, and so does a shard that is not there. *)
Loads == tracker \in 1..Steps /\ Exists(tracker)
         /\ \A k \in DOMAIN Parts(job) : disk[tracker][Parts(job)[k]] = "whole"

(* A rank that finds no data file starts its dataloader from scratch.      *)
(* Mutant: the position of the dataloader is not restored. *)
RestoredMutant(file) == 0
Restored(file) == IF file = NoFile THEN 0 ELSE file

CrashAndRestart ==
  /\ trainer = "running"
  /\ restarts < CkptCrashes
  /\ restarts' = restarts + 1
  /\ inflight' = <<>> /\ todo' = <<>> /\ target' = 0 /\ late' = {} /\ pending' = <<>>
  /\ previous_saved_paths' = [actor |-> <<>>, critic |-> <<>>]
  /\ trainer' = IF FromScratch \/ Loads THEN "running" ELSE "failed"
  /\ step' = IF Loads THEN tracker ELSE 0
  /\ weights' = IF Loads THEN disk[tracker].weights ELSE {}
  /\ position' = [r \in DpRanks(job) |-> IF Loads THEN Restored(disk[tracker].data[r]) ELSE 0]
  /\ UNCHANGED <<job, disk, tracker, durable>>

CkptStopped == trainer # "running" /\ UNCHANGED ckptVars

Save ==
  \/ \E part \in {"actor", "critic"} : BeginPart(part) \/ EndPart(part)
  \/ WriteData
  \/ \E r \in late : WriteLateData(r)
  \/ WriteTrackerFile
  \/ Finalise

CkptNext ==
  \/ Feed
  \/ \E esi \in BOOLEAN : Train(esi)
  \/ Save
  \/ AsyncWritten
  \/ Return
  \/ CrashAndRestart
  \/ CkptStopped

CkptSpec == CkptInit /\ [][CkptNext]_ckptVars

(* Everything but crashes happens in its time. *)
CkptProgress == Feed \/ (\E esi \in BOOLEAN : Train(esi)) \/ Save \/ AsyncWritten \/ Return
CkptFairSpec == CkptSpec /\ WF_ckptVars(CkptProgress)

-------------------------------------------------------------------------------
CkptTypeOK ==
  /\ job \in CkptJobs
  /\ trainer \in {"running", "done", "failed"}
  /\ step \in 0..Steps /\ weights \subseteq {0, 1} \X (1..Steps)
  /\ position \in [DpRanks(job) -> 0..Steps]
  /\ inflight \in Seq(1..Steps) /\ Len(inflight) <= Lead
  /\ todo \in Seq({"begin", "end", "write", "truncate"} \X {"actor", "critic", "data", "tracker"})
  /\ target \in 0..Steps /\ late \subseteq {1}
  /\ previous_saved_paths \in [actor : Seq(1..Steps), critic : Seq(1..Steps)]
  /\ \A k \in DOMAIN pending :
       pending[k] \in [part : {"actor", "critic"}, step : 1..Steps, written : BOOLEAN]
  /\ tracker \in EmptyTracker..Steps /\ durable \in 0..Steps
  /\ restarts \in 0..CkptCrashes

(* The trainers whose saves are ordered: nothing is removed that the       *)
(* tracker names, and the tracker comes last.                              *)
Ordered(j) ==
  /\ j.trainer # "sft" /\ j.keep # 1
  /\ j.manager = "fsdp" \/ (j.manager = "async" /\ ~j.critic)

(* The step in the tracker can be resumed from, at any moment of a save:   *)
(* its actor, critic and dataloader are all on disk.                       *)
TrackerNamesWhole == tracker \in 1..Steps => Whole(tracker)
OrderedTracker == Ordered(job) => TrackerNamesWhole

(* Through any number of restarts no batch goes into the weights twice:    *)
(* the position restored fits the weights restored.                        *)
NothingRepeated ==
  Ordered(job) => Cardinality(weights) = step * Cardinality(DpRanks(job))

(* A restart loses no batch but those the rollouter had in flight when the *)
(* checkpoint was saved.                                                   *)
LastTrained == CHOOSE b \in {w[2] : w \in weights} \cup {0} :
                 \A w \in weights : w[2] <= b
NothingSkipped ==
  LET skipped == ({0} \X (1..LastTrained)) \ weights
  IN Ordered(job) =>
       Cardinality(skipped) <= IF job.trainer = "fully_async" THEN Lead * restarts ELSE 0

(* A trainer that comes back is at least as far as its last completed      *)
(* save, if more than one checkpoint is kept.                              *)
ProgressKept ==
  [][restarts' # restarts /\ job.keep # 1 /\ trainer' = "running" => step' >= durable]_ckptVars

(* max_ckpt_to_keep bounds the checkpoints one life of the trainer leaves  *)
(* behind; those of earlier lives are never removed.                       *)
Retention ==
  job.keep > 0 =>
    Cardinality({s \in 1..Steps : disk[s].actor # "none"}) <= job.keep * (restarts + 1)

(* The weights of its last step can be loaded after a run has returned,    *)
(* asynchronous saves included; only the asynchronous trainer has no save  *)
(* of its own for that step.                                               *)
LastStepSaved ==
  trainer = "done" /\ job.trainer # "fully_async" => tracker = Steps /\ Loads

(* Training ends, or a restart fails to load. *)
CkptEnds == <>(trainer # "running")

(* Whatever the crashes, the trainer resumes from a whole: from a tracker  *)
(* that names what can be loaded, with the dataloader where the weights    *)
(* are, so that no batch is repeated and none skipped but those in flight; *)
(* and rotation leaves as many checkpoints as asked for, the last step     *)
(* among them.                                                             *)
ResumesWhole ==
  /\ CkptTypeOK /\ OrderedTracker /\ NothingRepeated /\ NothingSkipped
  /\ Retention /\ LastStepSaved
===============================================================================
