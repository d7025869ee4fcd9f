------------------------------- MODULE FullyAsync ------------------------------
(***************************************************************************)
(* The fully asynchronous training system of recipe/fully_async_policy:    *)
(* the rollouter (module Rollouter) and the message queue (MessageQueue)   *)
(* composed with the trainer (fully_async_trainer.py), the parameter       *)
(* synchroniser (param_sync.py) and the task runner that waits for both    *)
(* (fully_async_main.py).                                                  *)
(*                                                                         *)
(* The system starts when fit() of both has been called: the first weight  *)
(* synchronisation is over and its validation result is in val_queue.      *)
(***************************************************************************)
EXTENDS Rollouter

CONSTANTS TestFreq     (* rollout.test_freq                                  *)

VARIABLES
  trainer,             (* where fit() stands                                 *)
  batch,               (* samples collected by _get_samples_from_queue       *)
  trainer_version,     (* self.current_param_version                         *)
  local_trigger_step,
  trained,             (* history: samples of completed training steps       *)
  logged               (* history: versions whose validation result was logged *)

trainerVars == <<trainer, batch, trainer_version, local_trigger_step, trained,
                 logged>>
vars == <<mqVars, rollVars, trainerVars>>

Client == "trainer"

Init ==
  /\ queue = <<>> /\ mq_running = TRUE /\ mq_version = 0
  /\ val_queue = <<0>>
  /\ getter = [c \in Consumers |-> "idle"]
  /\ total_produced = 0 /\ total_consumed = 0
  /\ dropped_samples = 0 /\ cleared = 0
  /\ RollInit
  /\ trainer = "start" /\ batch = <<>>
  /\ trainer_version = 0 /\ local_trigger_step = 1
  /\ trained = {} /\ logged = <<>>

-----------------------------------------------------------------------------
(* wait_last_valid of param_sync.py: the update and the resume that the    *)
(* last sync_weights started are over.                                     *)
LastCallOver == sync = "idle"

(* _log_validation_data takes one result if there is one. *)
LogValidation ==
  /\ GetValidate
  /\ logged' = IF val_queue = <<>> THEN logged ELSE Append(logged, Head(val_queue))

TrainerLog(from, to) ==
  /\ trainer = from
  /\ LogValidation
  /\ trainer' = to
  /\ UNCHANGED <<rollVars, batch, trainer_version, local_trigger_step, trained>>

(* _get_samples_from_queue: the reply to one get_sample call. *)
Receive ==
  IF Head(queue) = STOP
    THEN trainer' = "finalWait" /\ UNCHANGED batch
    ELSE /\ batch' = Append(batch, Head(queue))
         /\ trainer' = IF Len(batch) + 1 = Required THEN "train" ELSE "collect"

TrainerGet ==
  /\ trainer = "collect"
  /\ \/ GetSample(Client) \/ Recheck(Client)
  /\ IF queue # <<>> THEN Receive ELSE UNCHANGED <<trainer, batch>>
  /\ UNCHANGED <<rollVars, trainer_version, local_trigger_step, trained, logged>>

SyncDueMutant == local_trigger_step >= Trigger - 1

(* A synchronisation follows this step. *)
SyncDue == local_trigger_step >= Trigger

(* The training step, then _trigger_parameter_sync_after_step up to the    *)
(* first blocking call.                                                    *)
TrainerStep ==
  /\ trainer = "train"
  /\ trained' = trained \cup ToSet(batch)
  /\ batch' = <<>>
  /\ IF SyncDue
       THEN /\ local_trigger_step' = 1
            /\ trainer_version' = trainer_version + 1
            /\ trainer' = "waitValid"
       ELSE /\ local_trigger_step' = local_trigger_step + 1
            /\ trainer' = "log"
            /\ UNCHANGED trainer_version
  /\ UNCHANGED <<mqVars, rollVars, logged>>

(* wait_last_valid, then sync_weights, which calls pause. *)
SyncWeights(from, to) ==
  /\ trainer = from
  /\ LastCallOver
  /\ sync' = "pauseSent"
  /\ sync_version' = trainer_version
  /\ trainer' = to
  /\ UNCHANGED <<mqVars, loopVars, queueVars, taskVars, procVars, flagVars, monitor,
                 main, recount, serverVars, histVars, batch, trainer_version,
                 local_trigger_step, trained, logged>>

(* sync_weights once pause() has returned: the queue's version, then the   *)
(* transfer of the weights.                                                *)
TransferBegin ==
  /\ sync = "paused"
  /\ UpdateParamVersion(sync_version)
  /\ sync' = "transfer"
  /\ UNCHANGED <<loopVars, queueVars, taskVars, procVars, flagVars, monitor, main,
                 sync_version, recount, serverVars, histVars, trainerVars>>

(* The weights are in place; update_param_version and resume are started   *)
(* and not waited for: sync_weights returns to the trainer.                *)
TransferEnd ==
  /\ sync = "transfer"
  /\ weights' = sync_version
  /\ sync' = "updateSent"
  /\ trainer' = IF trainer = "finalSync" THEN "finalValid" ELSE "log"
  /\ put_since_update' = 0
  /\ UNCHANGED <<mqVars, loopVars, queueVars, taskVars, procVars, flagVars, monitor,
                 main, sync_version, recount, server_paused, stamp, made_by,
                 dropped, failed, batch, trainer_version, local_trigger_step, trained,
                 logged>>

LastResultInMutant == TRUE

(* wait_last_valid again, before the two final logs. *)
LastResultIn == LastCallOver

(* After the loop: wait_last_valid, log. *)
FinalLog ==
  /\ LastResultIn
  /\ TrainerLog("finalWait", "final")

(* One more synchronisation unless the last one was validated. *)
FinalDecide ==
  /\ trainer = "final"
  /\ IF trainer_version % TestFreq # 0 \/ local_trigger_step > 1
       THEN /\ trainer_version' = trainer_version + 1
            /\ local_trigger_step' = 1
            /\ trainer' = "finalTrigger"
       ELSE /\ trainer' = "done"
            /\ UNCHANGED <<trainer_version, local_trigger_step>>
  /\ UNCHANGED <<mqVars, rollVars, batch, trained, logged>>

FinalValidLog ==
  /\ LastResultIn
  /\ TrainerLog("finalValid", "done")

Trainer ==
  \/ TrainerLog("start", "collect")
  \/ TrainerGet
  \/ TrainerStep
  \/ SyncWeights("waitValid", "sync")
  \/ TrainerLog("log", "collect")
  \/ FinalLog
  \/ FinalDecide
  \/ SyncWeights("finalTrigger", "finalSync")
  \/ FinalValidLog

Transfer == TransferBegin \/ TransferEnd

(* Both fit() calls returned: FullyAsyncTaskRunner clears the queue. *)
Finished == trainer = "done" /\ main = "exited" /\ monitor = "exited"

MainClear ==
  /\ Finished
  /\ queue # <<>>
  /\ ClearQueue
  /\ UNCHANGED <<rollVars, trainerVars>>

Rollout == RollNext /\ UNCHANGED trainerVars

(* Only the finished system may stop. *)
Terminated == Finished /\ queue = <<>> /\ active = {} /\ UNCHANGED vars

Next == Rollout \/ Trainer \/ Transfer \/ MainClear \/ Terminated

Spec == Init /\ [][Next]_vars

-----------------------------------------------------------------------------
(* Fairness.  The event loop keeps running what is ready; servers, queue   *)
(* and collectives answer; the sleep of the monitor ends; the trainer      *)
(* process goes on.  Failing generation calls are never forced.            *)
Fairness ==
  /\ WF_vars(EventLoop /\ Rollout)
  /\ WF_vars(MonitorTimer /\ Rollout)
  /\ WF_vars(Replies /\ Rollout)
  /\ \A s \in Samples : WF_vars(Generation(s) /\ Rollout)
  /\ WF_vars(Trainer)
  /\ WF_vars(Transfer)

FairSpec == Spec /\ Fairness

-----------------------------------------------------------------------------
(* Properties.                                                             *)
MaxOf(S) == CHOOSE x \in S : \A y \in S : y <= x

ProcState == {"run", "lock", "wait", "cond", "woken", "get", "stop"}
LoopHead == {"check", "pause", "drain", "idle", "take", "limit", "submit", "final",
             "exited", "failed"}
TaskState == {"none", "created", "requested", "generating", "complete", "cut",
              "error", "putting", "put"}
SyncState == {"idle", "pauseSent", "pause", "pauseLock", "cancelSent", "cancel",
              "gathering", "resetSent", "reset", "paused", "transfer",
              "updateSent", "update", "updateLock", "countSent", "count",
              "publishSent", "publish", "resumeSent", "resume", "resumeLock",
              "restartSent", "restart"}
TrainerState == {"start", "collect", "train", "waitValid", "sync", "log",
                 "finalWait", "final", "finalTrigger", "finalSync", "finalValid",
                 "done"}
Coroutines == {Feeder, Proc, Mon, Main, Sync} \cup {Task(s) : s \in Samples}

(* The type of every variable of the composed system. *)
TypeOK ==
  /\ queue \in Seq(Payload) /\ Len(queue) <= max_queue_size
  /\ getter \in [Consumers -> GetterState]
  /\ ready \in Seq(Coroutines) /\ waiters \in Seq(Coroutines)
  /\ owner \in Coroutines \cup {Nobody}
  /\ pending \in Seq(1..DONE) /\ Len(pending) <= PendingCap /\ fed \in 0..DONE
  /\ cancelled \in Seq(Samples) /\ active \subseteq Samples
  /\ finished \in [ok : Nat, bad : Nat]
  /\ task \in [Samples -> TaskState]
  /\ ppc \in LoopHead /\ pmode \in ProcState /\ hand \in 0..DONE
  /\ done_bound \in BOOLEAN
  /\ {paused, running, monitor_loop_trigger, server_paused, mq_running} \subseteq BOOLEAN
  /\ staleness_samples \in Nat /\ recount \in Nat
  /\ {current_param_version, mq_version, sync_version, weights, trainer_version}
       \subseteq Nat
  /\ monitor \in {"sleep", "unpause", "top", "exited"}
  /\ main \in {"streaming", "signalling", "signalled", "locking", "exited"}
  /\ sync \in SyncState /\ trainer \in TrainerState
  /\ stamp \in [Samples -> Nat]
  /\ made_by \in [Samples -> SUBSET (0..trainer_version)]
  /\ dropped \subseteq Payload /\ failed \subseteq Samples
  /\ ToSet(batch) \subseteq Samples /\ trained \subseteq Samples
  /\ local_trigger_step \in 1..Trigger

(* Every fed sample is in exactly one place, at every moment of the cuts,  *)
(* re-submissions, pauses and failures: the rollouter neither loses a      *)
(* sample (_processor_worker, pause, _process_single_sample_streaming) nor *)
(* generates one twice.                                                    *)
Occurrences(s, q) == Cardinality({i \in 1..Len(q) : q[i] = s})
InOnePlace(s) ==
  Occurrences(s, pending) + Occurrences(s, cancelled) + Occurrences(s, batch)
  + Occurrences(s, queue)
  + Cardinality({p \in {"hand", "task", "failed", "dropped", "trained"} :
       \/ p = "hand" /\ hand = s
       \/ p = "task" /\ task[s] \in TaskState \ {"none", "put"}
       \/ p = "failed" /\ s \in failed /\ task[s] = "none"
       \/ p = "dropped" /\ s \in dropped
       \/ p = "trained" /\ s \in trained}) = 1
SamplesConserved == cleared = 0 => \A s \in Samples : s <= fed => InOnePlace(s)

(* While the weights are being replaced no server generates: pause() has   *)
(* waited for every task, and none starts before the transfer is over.     *)
NoGenerationInTransfer ==
  sync = "transfer" => \A s \in Samples : task[s] # "generating"

(* The param_version put on a sample when its generation ends is the       *)
(* newest version of the weights that generated any part of it, although   *)
(* the rollouter's counter is set after the weights are.                   *)
StampMatchesWeights ==
  \A s \in Samples :
    task[s] = "putting" \/ s \in ToSet(queue) \cup ToSet(batch)
      => stamp[s] = MaxOf(made_by[s])

(* The lock of the rollouter serialises its critical sections: a coroutine *)
(* that stands inside one, or has asked for the lock, is its only owner or *)
(* waits in its queue, once; and a free lock has no waiters.  The sections *)
(* of the processor, the monitor, the main coroutine and the three calls   *)
(* of the synchroniser all suspend inside or before it.                    *)
InSection ==
  [c \in {Proc, Mon, Main, Sync} |->
     CASE c = Proc -> pmode \in {"lock", "wait"}
       [] c = Mon  -> monitor \in {"unpause", "top"}
       [] c = Main -> main = "locking"
       [] c = Sync -> sync \in {"pauseLock", "cancelSent", "cancel", "gathering",
                                "resetSent", "reset", "updateLock", "countSent",
                                "count", "publishSent", "publish", "resumeLock",
                                "restartSent", "restart"}]
LockDiscipline ==
  /\ LockFree => waiters = <<>>
  /\ owner \notin ToSet(waiters)
  /\ IsInjective(waiters)
  /\ {owner} \cup ToSet(waiters) =
       {c \in DOMAIN InSection : InSection[c]} \cup (IF LockFree THEN {Nobody} ELSE {})

(* No resume is lost: the processor sleeps on the condition only while     *)
(* paused is set, so that the next resume or recovery wakes it.            *)
NoLostResume == pmode = "cond" => paused

(* staleness_samples against the samples it stands for: in the processor's *)
(* hand, in a task, cut, or in the queue.  update_param_version reads its  *)
(* three terms at different moments, while tasks put samples and the       *)
(* trainer takes them.  It may count a sample twice, but misses one at     *)
(* most, the one the processor holds; and no more than one sample beyond   *)
(* max_required_samples is ever outstanding.                               *)
UnderWay == {"created", "requested", "generating", "complete", "cut", "putting"}
Outstanding ==
  {s \in Samples : s = hand \/ task[s] \in UnderWay \/ s \in ToSet(cancelled) \cup ToSet(queue)}
StalenessCounted ==
  /\ Cardinality(Outstanding) <= staleness_samples + 1
  /\ Cardinality(Outstanding) <= MaxRequired + 1

(* "Rollouter will generate at most the following number of samples        *)
(* between two parameter updates: rollout_num = (1+staleness_threshold) *  *)
(* (trigger_parameter_sync_step*require_batches*ppo_mini_batch_size) -     *)
(* num_staleness_sample" (docs/advance/fully_async.md:135).  The code does *)
(* not keep to it, even with a num_staleness_sample of zero: what the      *)
(* recount misses (StalenessCounted) is generated on top.                  *)
RolloutNumBounded == put_since_update <= MaxRequired

(* A batch the trainer collects or trains on is never older than the       *)
(* staleness threshold allows: at most ceil(threshold) + 1 versions behind *)
(* the trainer, by the stamps of its samples, which are true.  (What the   *)
(* None sample cuts short is no batch: the loop of fit() ends without it.) *)
AgeBound == 1 + ((StalenessPct + 99) \div 100)
FreshBatch ==
  /\ StampMatchesWeights
  /\ trainer \in {"collect", "train"} =>
       \A s \in ToSet(batch) : trainer_version - stamp[s] <= AgeBound

(* The versions the parts of the system know differ by at most one from    *)
(* one part to the next one, in the order in which a synchronisation       *)
(* passes them on: no synchronisation overtakes the one before it.         *)
VersionsInOrder ==
  /\ current_param_version <= weights /\ weights <= mq_version
  /\ mq_version <= trainer_version
  /\ trainer_version <= mq_version + 1
  /\ mq_version <= current_param_version + 1

(* max_concurrent_samples: the tasks in active_tasks, finished ones that   *)
(* nobody collected included, are never more, however often a cut sample   *)
(* is submitted again while a pause is under way.                          *)
TasksLimited == ActiveTasks <= MaxConcurrent

(* The sections of the lock exclude one another whatever suspends inside   *)
(* them, and what they protect stays within its limits.                    *)
SectionsExclusive == TypeOK /\ LockDiscipline /\ TasksLimited

(* "After acquiring the lock, the number of active_tasks may change, need  *)
(* to be verified again" (fully_async_rollouter.py:433): having verified   *)
(* it, the processor survives a pause() that emptied active_tasks before   *)
(* its first asyncio.wait.                                                 *)
ProcessorSurvives == failed = {} => ppc # "failed"

(* When training ends every version was validated and its result logged,   *)
(* once and in order, the last one included.                               *)
ValidationComplete ==
  trainer = "done" => /\ logged = [i \in 1..(trainer_version + 1) |-> i - 1]
                      /\ val_queue = <<>>

(* "partial_rollout only actually takes effect when staleness_threshold>0" *)
(* (fully_async.md:146): in synchronous mode no generation is ever cut,    *)
(* because no task is left when the trainer synchronises.  A generation    *)
(* that fails ends the rollout while others are under way.                 *)
NothingCut ==
  StalenessPct = 0 /\ failed = {} =>
    cancelled = <<>> /\ \A s \in Samples : task[s] # "cut"

(* Synchronous mode (staleness_threshold = 0): nothing is dropped or cut,  *)
(* the processor survives every pause, and every batch the trainer         *)
(* collects or trains on was generated by the weights it has just sent.    *)
SynchronousMode ==
  StalenessPct = 0 =>
    /\ NothingCut
    /\ ProcessorSurvives
    /\ dropped = {}
    /\ trainer \in {"collect", "train"} =>
         \A s \in ToSet(batch) : stamp[s] = trainer_version /\ made_by[s] = {trainer_version}

(* "Rollouter will generate a fixed number of samples between two          *)
(* parameter updates" (fully_async.md:130).  The final synchronisation     *)
(* sends what was trained since the last one.                              *)
FixedNumber ==
  [][weights' # weights /\ trainer # "finalSync" => put_since_update = MaxRequired]_vars

(* The run ends, with and without failing generations: the None sample is  *)
(* put, no eviction takes it away from the trainer, every pause is resumed *)
(* and the monitor and both fit() calls return.                            *)
Termination == <>Finished
===============================================================================
