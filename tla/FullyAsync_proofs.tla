---------------------------- MODULE FullyAsync_proofs ----------------------------
(***************************************************************************)
(* Proofs about the composed system: the order of the versions and of the  *)
(* validations, the types, the event loop with its lock, and the tasks;    *)
(* for every number of samples, every batch size, trigger, staleness       *)
(* threshold and number of server slots, with and without partial rollout  *)
(* and failing generations.                                                *)
(***************************************************************************)
EXTENDS FullyAsync, FiniteSetTheorems, SequenceTheorems, TLAPS

(* The phases of a synchronisation, by what its version has reached. *)
Pausing  == {"pauseSent", "pause", "pauseLock", "cancelSent", "cancel", "gathering",
             "resetSent", "reset", "paused"}
Arriving == {"updateSent", "update", "updateLock"}
Updated  == {"countSent", "count", "publishSent", "publish", "resumeSent", "resume",
             "resumeLock", "restartSent", "restart", "idle"}

(* The steps that neither synchronise nor pause or resume anything. *)
LEMMA QuietSteps ==
  ASSUME \/ FeedSamples \/ Tasks \/ MonitorTimer \/ MainCoroutine \/ MainSignal
         \/ \E s \in Samples : Generation(s) \/ ServerError(s)
  PROVE  UNCHANGED <<weights, sync, sync_version, mq_version,
                     current_param_version, paused, pmode>>
<1> USE DEF syncVars, serverVars, flagVars, procVars, mqVars
<1>1. CASE FeedSamples
  BY <1>1 DEF FeedSamples
<1>2. CASE Tasks
  BY <1>2 DEF Tasks, TaskSubmit, TaskComplete, TaskReturn
<1>3. CASE MonitorTimer
  BY <1>3 DEF MonitorTimer
<1>4. CASE MainCoroutine
  BY <1>4 DEF MainCoroutine, MainWake, MainBlock, MainStop
<1>5. CASE MainSignal
  BY <1>5 DEF MainSignal, PutSample
<1>6. CASE \E s \in Samples : Generation(s) \/ ServerError(s)
  BY <1>6 DEF Generation, ServerAdmit, ServerAnswer, ServerError, QueuePut, PutSample
<1> QED BY <1>1, <1>2, <1>3, <1>4, <1>5, <1>6

LEMMA ProcessorSteps ==
  ASSUME Processor
  PROVE  /\ UNCHANGED <<weights, sync, sync_version, mq_version,
                        current_param_version>>
         /\ (pmode' = "cond" => paused') \/ UNCHANGED <<pmode, paused>>
<1> USE DEF syncVars, serverVars, flagVars, procVars, mqVars, GoOn, Suspend, Stop
<1>1. CASE ProcCheck
  BY <1>1 DEF ProcCheck
<1>2. CASE ProcBlock
  BY <1>2 DEF ProcBlock
<1>3. CASE ProcSetPaused
  BY <1>3 DEF ProcSetPaused
<1>4. CASE ProcLoopDone
  BY <1>4 DEF ProcLoopDone
<1>5. CASE ProcCollectBegin
  BY <1>5 DEF ProcCollectBegin
<1>6. CASE ProcCollect
  BY <1>6 DEF ProcCollect
<1>7. CASE ProcCollectNothing
  BY <1>7 DEF ProcCollectNothing
<1>8. CASE ProcIdle
  BY <1>8 DEF ProcIdle
<1>9. CASE TakeCancelled
  BY <1>9 DEF TakeCancelled
<1>10. CASE TakePending
  BY <1>10 DEF TakePending
<1>11. CASE TakeWait
  BY <1>11 DEF TakeWait
<1>12. CASE ProcSubmit
  BY <1>12 DEF ProcSubmit
<1> QED
  BY <1>1, <1>2, <1>3, <1>4, <1>5, <1>6, <1>7, <1>8, <1>9, <1>10, <1>11, <1>12
  DEF Processor

LEMMA MonitorSteps ==
  ASSUME Monitor
  PROVE  /\ UNCHANGED <<weights, sync, sync_version, mq_version,
                        current_param_version>>
         /\ \/ UNCHANGED <<paused, pmode>>
            \/ pmode' # "cond"
<1> USE DEF syncVars, serverVars, flagVars, procVars, mqVars, NotifyProcessor
<1>1. CASE MonitorTick
  BY <1>1 DEF MonitorTick
<1>2. CASE MonitorBlock
  BY <1>2 DEF MonitorBlock
<1>3. CASE MonitorUnpause
  BY <1>3 DEF MonitorUnpause
<1>4. CASE MonitorLook
  BY <1>4 DEF MonitorLook
<1> QED BY <1>1, <1>2, <1>3, <1>4 DEF Monitor

(* The steps of a synchronisation: only UpdateBegin sets the rollouter's   *)
(* version, the others stay in their phase.                                *)
SamePhase ==
  \/ sync \in Pausing  /\ sync' \in Pausing
  \/ sync \in Arriving /\ sync' \in Arriving
  \/ sync \in Updated  /\ sync' \in Updated

LEMMA SyncSteps ==
  ASSUME SyncCalls \/ (Replies /\ ~MainSignal)
  PROVE  /\ UNCHANGED <<weights, sync_version, mq_version>>
         /\ \/ UNCHANGED current_param_version /\ SamePhase
            \/ /\ sync \in Arriving /\ sync' \in Updated
               /\ current_param_version' = sync_version
         /\ \/ UNCHANGED <<paused, pmode>>
            \/ paused' = TRUE
            \/ pmode' # "cond"
<1> USE DEF syncVars, serverVars, flagVars, procVars, mqVars, SamePhase, Pausing,
            Arriving, Updated
<1>1. CASE SyncBlock
  BY <1>1 DEF SyncBlock
<1>2. CASE PauseBegin
  BY <1>2 DEF PauseBegin, SyncEnters, GatherTasks
<1>3. CASE PauseCancelled
  BY <1>3 DEF PauseCancelled, GatherTasks
<1>4. CASE PauseGathered
  BY <1>4 DEF PauseGathered
<1>5. CASE PauseEnd
  BY <1>5 DEF PauseEnd
<1>6. CASE UpdateBegin
  BY <1>6 DEF UpdateBegin, SyncEnters, SetVersion
<1>7. CASE UpdateCounted
  BY <1>7 DEF UpdateCounted
<1>8. CASE UpdateEnd
  BY <1>8 DEF UpdateEnd
<1>9. CASE ResumeServers
  BY <1>9 DEF ResumeServers, SyncEnters
<1>10. CASE ResumeEnd
  BY <1>10 DEF ResumeEnd, SyncEnters, ResumeEffect, NotifyProcessor
<1>11. CASE CallArrives
  BY <1>11 DEF CallArrives
<1>12. CASE ServersCancel
  BY <1>12 DEF ServersCancel
<1>13. CASE ServersReset
  BY <1>13 DEF ServersReset
<1>14. CASE QueueCounts
  BY <1>14 DEF QueueCounts
<1>15. CASE QueuePublishes
  BY <1>15 DEF QueuePublishes, PutValidate
<1>16. CASE ServersResume
  BY <1>16 DEF ServersResume
<1> QED
  BY <1>1, <1>2, <1>3, <1>4, <1>5, <1>6, <1>7, <1>8, <1>9, <1>10, <1>11, <1>12,
     <1>13, <1>14, <1>15, <1>16 DEF SyncCalls, Replies

(* The trainer, the transfer and the task runner never touch the flags of  *)
(* the rollouter.                                                          *)
LEMMA OutsideSteps ==
  ASSUME Trainer \/ Transfer \/ MainClear \/ Terminated
  PROVE  UNCHANGED <<paused, pmode, current_param_version>>
<1> USE DEF rollVars, flagVars, procVars
<1>1. CASE Trainer
  BY <1>1 DEF Trainer, TrainerLog, TrainerGet, TrainerStep, SyncWeights, FinalLog,
              FinalDecide, FinalValidLog
<1>2. CASE Transfer
  BY <1>2 DEF Transfer, TransferBegin, TransferEnd
<1>3. CASE MainClear \/ Terminated
  BY <1>3 DEF MainClear, Terminated, vars
<1> QED BY <1>1, <1>2, <1>3

LEMMA RolloutSteps ==
  ASSUME Rollout
  PROVE  /\ UNCHANGED <<weights, sync_version, mq_version, trainerVars>>
         /\ \/ UNCHANGED current_param_version /\ (SamePhase \/ sync' = sync)
            \/ /\ sync \in Arriving /\ sync' \in Updated
               /\ current_param_version' = sync_version
         /\ \/ UNCHANGED <<paused, pmode>>
            \/ pmode' = "cond" => paused'
<1>1. /\ UNCHANGED trainerVars
      /\ RollNext
  BY DEF Rollout
<1>2. CASE Processor \/ Monitor
  BY <1>1, <1>2, ProcessorSteps, MonitorSteps
<1>3. CASE SyncCalls \/ (Replies /\ ~MainSignal)
  BY <1>1, <1>3, SyncSteps
<1>4. CASE \/ FeedSamples \/ Tasks \/ MonitorTimer \/ MainCoroutine \/ MainSignal
           \/ \E s \in Samples : Generation(s) \/ ServerError(s)
  BY <1>1, <1>4, QuietSteps
<1> QED BY <1>1, <1>2, <1>3, <1>4 DEF RollNext, EventLoop

-----------------------------------------------------------------------------
(* A processor asleep on the condition is always one that the next resume  *)
(* or recovery wakes: no step clears paused without notify_all, and none   *)
(* goes to sleep without having read paused under the lock.                *)
THEOREM ResumeReachesProcessor == Spec => []NoLostResume
<1>1. Init => NoLostResume
  BY DEF Init, RollInit, NoLostResume
<1>2. NoLostResume /\ [Next]_vars => NoLostResume'
  <2> SUFFICES ASSUME NoLostResume, [Next]_vars
               PROVE  NoLostResume'
    OBVIOUS
  <2>1. CASE Rollout
    BY <2>1, RolloutSteps DEF NoLostResume
  <2>2. CASE Trainer \/ Transfer \/ MainClear \/ Terminated
    BY <2>2, OutsideSteps DEF NoLostResume
  <2>3. CASE UNCHANGED vars
    BY <2>3 DEF vars, rollVars, flagVars, procVars, NoLostResume
  <2> QED BY <2>1, <2>2, <2>3 DEF Next
<1> QED BY <1>1, <1>2, PTL DEF Spec

-----------------------------------------------------------------------------
(* The versions are pinned to the phase of the current synchronisation and *)
(* to what the trainer waits for: VersionsInOrder alone says nothing about *)
(* the version a synchronisation under way will bring.                     *)
VersionsAtPhase ==
  \/ /\ sync \in Pausing /\ trainer \in {"sync", "finalSync"}
     /\ current_param_version + 1 = sync_version
     /\ weights + 1 = sync_version /\ mq_version + 1 = sync_version
  \/ /\ sync = "transfer" /\ trainer \in {"sync", "finalSync"}
     /\ current_param_version + 1 = sync_version
     /\ weights + 1 = sync_version /\ mq_version = sync_version
  \/ /\ sync \in Arriving /\ trainer \notin {"sync", "finalSync"}
     /\ current_param_version + 1 = sync_version
     /\ weights = sync_version /\ mq_version = sync_version
  \/ /\ sync \in Updated /\ trainer \notin {"sync", "finalSync"}
     /\ current_param_version = sync_version
     /\ weights = sync_version /\ mq_version = sync_version

TrainerAhead ==
  IF trainer \in {"waitValid", "finalTrigger"}
    THEN trainer_version = sync_version + 1
    ELSE trainer_version = sync_version

VersionsInv ==
  /\ {current_param_version, weights, mq_version, sync_version, trainer_version}
       \subseteq Nat
  /\ VersionsAtPhase
  /\ TrainerAhead

LEMMA VersionsInvInit == Init => VersionsInv
  BY DEF Init, RollInit, VersionsInv, VersionsAtPhase, TrainerAhead, Updated,
         Pausing, Arriving

LEMMA VersionsInvStep == VersionsInv /\ [Next]_vars => VersionsInv'
<1> SUFFICES ASSUME VersionsInv, [Next]_vars
             PROVE  VersionsInv'
  OBVIOUS
<1> USE DEF VersionsInv, VersionsAtPhase, TrainerAhead, Pausing, Arriving, Updated
<1>1. CASE Rollout
  <2>1. UNCHANGED <<weights, sync_version, mq_version, trainer, trainer_version>>
    BY <1>1, RolloutSteps DEF trainerVars
  <2>2. CASE UNCHANGED current_param_version /\ (SamePhase \/ sync' = sync)
    BY <2>1, <2>2 DEF SamePhase
  <2>3. CASE /\ sync \in Arriving /\ sync' \in Updated
             /\ current_param_version' = sync_version
    BY <2>1, <2>3
  <2> QED BY <1>1, <2>2, <2>3, RolloutSteps
<1>2. CASE Trainer
  <2> USE DEF rollVars, flagVars, serverVars, syncVars, mqVars
  <2>1. ASSUME NEW from, NEW to, TrainerLog(from, to),
               {from, to} \cap {"sync", "finalSync", "waitValid", "finalTrigger"} = {}
        PROVE  VersionsInv'
    <3>1. /\ trainer = from /\ trainer' = to
          /\ UNCHANGED <<weights, sync, sync_version, mq_version,
                         current_param_version, trainer_version>>
      BY <2>1 DEF TrainerLog, LogValidation, GetValidate
    <3> QED BY <2>1, <3>1
  <2>2. CASE TrainerGet
    <3>1. UNCHANGED mq_version
      BY <2>2 DEF TrainerGet, GetSample, Recheck, Take, Wait, ReturnNone
    <3> QED BY <2>2, <3>1 DEF TrainerGet, Receive
  <2>3. CASE TrainerStep
    BY <2>3 DEF TrainerStep
  <2>4. ASSUME NEW from \in {"waitValid", "finalTrigger"},
               NEW to \in {"sync", "finalSync"}, SyncWeights(from, to)
        PROVE  VersionsInv'
    BY <2>4 DEF SyncWeights, LastCallOver
  <2>5. CASE FinalDecide
    BY <2>5 DEF FinalDecide
  <2> QED BY <1>2, <2>1, <2>2, <2>3, <2>4, <2>5 DEF Trainer, FinalLog, FinalValidLog
<1>3. CASE Transfer
  <2> USE DEF flagVars, serverVars, syncVars, mqVars, trainerVars
  <2>1. CASE TransferBegin
    BY <2>1 DEF TransferBegin, UpdateParamVersion
  <2>2. CASE TransferEnd
    BY <2>2 DEF TransferEnd
  <2> QED BY <1>3, <2>1, <2>2 DEF Transfer
<1>4. CASE MainClear
  BY <1>4 DEF MainClear, ClearQueue, rollVars, flagVars, serverVars, syncVars,
              trainerVars
<1>5. CASE UNCHANGED vars
  BY <1>5 DEF vars, rollVars, flagVars, serverVars, syncVars, trainerVars, mqVars
<1> QED BY <1>1, <1>2, <1>3, <1>4, <1>5 DEF Next, Terminated

(* No synchronisation overtakes the one before it: the trainer, the queue, *)
(* the weights and the rollouter are never more than one version apart,    *)
(* one hop each (sync_weights and wait_last_valid of param_sync.py).       *)
THEOREM SynchronisationsInOrder == Spec => []VersionsInOrder
<1>1. VersionsInv => VersionsInOrder
  BY DEF VersionsInv, VersionsAtPhase, TrainerAhead, VersionsInOrder
<1> QED BY <1>1, VersionsInvInit, VersionsInvStep, PTL DEF Spec
-----------------------------------------------------------------------------
(* Validation results.  update_param_version publishes the result of the   *)
(* version it brings, once; of the results published the trainer has       *)
(* logged all but the last one or two, depending on where it stands.       *)
Published == {"publish", "resumeSent", "resume", "resumeLock", "restartSent",
              "restart", "idle"}
Results == sync_version + (IF sync \in Published THEN 1 ELSE 0)

(* Logged and queued results together are 0, 1, 2, ... in order. *)
InOrderOf(past, coming, n) ==
  /\ past \in Seq(Nat) /\ coming \in Seq(Nat)
  /\ Len(past) + Len(coming) = n
  /\ \A i \in 1..Len(past) : past[i] = i - 1
  /\ \A i \in 1..Len(coming) : coming[i] = Len(past) + i - 1

LoggedByNow ==
  /\ trainer \in TrainerState
  /\ trainer \in {"start", "collect", "train", "waitValid", "finalWait", "finalSync",
                  "finalValid"} => Len(logged) >= sync_version
  /\ trainer \in {"sync", "log"} => Len(logged) + 1 >= sync_version
  /\ trainer \in {"final", "finalTrigger", "done"} =>
       sync = "idle" /\ Len(logged) = sync_version + 1

LoggedInv == InOrderOf(logged, val_queue, Results) /\ LoggedByNow

(* One result is published. *)
LEMMA PublishKeepsOrder ==
  ASSUME NEW past, NEW coming, NEW n \in Nat, InOrderOf(past, coming, n)
  PROVE  InOrderOf(past, Append(coming, n), n + 1)
<1>1. /\ Append(coming, n) \in Seq(Nat) /\ Len(Append(coming, n)) = Len(coming) + 1
      /\ \A i \in 1..Len(coming) : Append(coming, n)[i] = coming[i]
      /\ Append(coming, n)[Len(coming) + 1] = n
  BY DEF InOrderOf
<1>2. Len(past) \in Nat /\ Len(coming) \in Nat
  BY DEF InOrderOf
<1>3. \A i \in 1..(Len(coming) + 1) : i \in 1..Len(coming) \/ i = Len(coming) + 1
  BY <1>2
<1>4. n = Len(past) + (Len(coming) + 1) - 1
  BY <1>2 DEF InOrderOf
<1>5. \A i \in 1..(Len(coming) + 1) : Append(coming, n)[i] = Len(past) + i - 1
  BY <1>1, <1>3, <1>4 DEF InOrderOf
<1>6. Len(past) + Len(Append(coming, n)) = n + 1
  BY <1>1, <1>2 DEF InOrderOf
<1> QED BY <1>1, <1>5, <1>6 DEF InOrderOf

(* One result is logged. *)
LEMMA LogKeepsOrder ==
  ASSUME NEW past, NEW coming, NEW n \in Nat, InOrderOf(past, coming, n), coming # <<>>
  PROVE  /\ InOrderOf(Append(past, Head(coming)), Tail(coming), n)
         /\ Len(Append(past, Head(coming))) = Len(past) + 1
<1>1. /\ past \in Seq(Nat) /\ coming \in Seq(Nat)
      /\ Len(past) \in Nat /\ Len(coming) \in Nat \ {0}
  BY DEF InOrderOf
<1>2. /\ Head(coming) = coming[1] /\ Head(coming) \in Nat
      /\ Tail(coming) \in Seq(Nat) /\ Len(Tail(coming)) = Len(coming) - 1
      /\ \A i \in 1..(Len(coming) - 1) : Tail(coming)[i] = coming[i + 1]
  BY <1>1
<1>3. /\ Append(past, Head(coming)) \in Seq(Nat)
      /\ Len(Append(past, Head(coming))) = Len(past) + 1
      /\ \A i \in 1..Len(past) : Append(past, Head(coming))[i] = past[i]
      /\ Append(past, Head(coming))[Len(past) + 1] = Head(coming)
  BY <1>1, <1>2
<1>4. Head(coming) = Len(past)
  <2>1. 1 \in 1..Len(coming)
    BY <1>1
  <2>2. coming[1] = Len(past) + 1 - 1
    BY <2>1 DEF InOrderOf
  <2> QED BY <2>2, <1>1, <1>2
<1>5. \A i \in 1..(Len(past) + 1) : Append(past, Head(coming))[i] = i - 1
  <2>1. \A i \in 1..(Len(past) + 1) : i \in 1..Len(past) \/ i = Len(past) + 1
    BY <1>1
  <2>2. Len(past) = (Len(past) + 1) - 1
    BY <1>1
  <2> QED BY <1>3, <1>4, <2>1, <2>2 DEF InOrderOf
<1>6. \A i \in 1..(Len(coming) - 1) : Tail(coming)[i] = (Len(past) + 1) + i - 1
  <2> SUFFICES ASSUME NEW i \in 1..(Len(coming) - 1)
               PROVE  Tail(coming)[i] = (Len(past) + 1) + i - 1
    OBVIOUS
  <2>1. i + 1 \in 1..Len(coming) /\ i \in Nat
    BY <1>1
  <2>2. coming[i + 1] = Len(past) + (i + 1) - 1
    BY <2>1 DEF InOrderOf
  <2> QED BY <2>1, <2>2, <1>1, <1>2
<1>7. (Len(past) + 1) + (Len(coming) - 1) = n
  BY <1>1 DEF InOrderOf
<1> QED BY <1>2, <1>3, <1>5, <1>6, <1>7 DEF InOrderOf

LEMMA ValidationSteps ==
  ASSUME Rollout
  PROVE  /\ UNCHANGED <<sync_version, trainer, logged>>
         /\ \/ /\ UNCHANGED val_queue
               /\ sync \in Published <=> sync' \in Published
            \/ /\ sync = "publishSent" /\ sync' = "publish"
               /\ val_queue' = Append(val_queue, sync_version)
         /\ sync = "idle" => sync' = "idle"
<1> USE DEF syncVars, mqVars
<1>1. UNCHANGED <<sync_version, trainer, logged>>
  BY RolloutSteps DEF trainerVars
<1> USE DEF Published
<1>2. CASE EventLoop
  <2>1. CASE FeedSamples \/ Tasks
    BY <2>1, <1>1 DEF FeedSamples, Tasks, TaskSubmit, TaskComplete, TaskReturn
  <2>2. CASE Processor
    BY <2>2, <1>1 DEF Processor, ProcCheck, ProcBlock, ProcSetPaused, ProcLoopDone,
       ProcCollectBegin, ProcCollect, ProcCollectNothing, ProcIdle, TakeCancelled,
       TakePending, TakeWait, ProcSubmit
  <2>3. CASE Monitor \/ MainCoroutine
    BY <2>3, <1>1 DEF Monitor, MonitorTick, MonitorBlock, MonitorUnpause, MonitorLook,
       MainCoroutine, MainWake, MainBlock, MainStop
  <2>4. CASE SyncBlock \/ UpdateCounted \/ UpdateEnd
    BY <2>4, <1>1 DEF SyncBlock, UpdateCounted, UpdateEnd
  <2>5. CASE PauseBegin \/ PauseCancelled
    BY <2>5, <1>1 DEF PauseBegin, PauseCancelled, GatherTasks, SyncEnters
  <2>6. CASE PauseGathered \/ PauseEnd \/ UpdateBegin
    BY <2>6, <1>1 DEF PauseGathered, PauseEnd, UpdateBegin, SyncEnters
  <2>7. CASE ResumeServers \/ ResumeEnd
    BY <2>7, <1>1 DEF ResumeServers, ResumeEnd, ResumeEffect, SyncEnters
  <2> QED BY <1>2, <2>1, <2>2, <2>3, <2>4, <2>5, <2>6, <2>7 DEF EventLoop, SyncCalls
<1>3. CASE MonitorTimer \/ \E s \in Samples : Generation(s) \/ ServerError(s)
  BY <1>3, <1>1 DEF MonitorTimer, Generation, ServerAdmit, ServerAnswer, ServerError,
     QueuePut, PutSample
<1>4. CASE Replies
  BY <1>4, <1>1 DEF Replies, MainSignal, PutSample, CallArrives, ServersCancel,
     ServersReset, QueueCounts, QueuePublishes, PutValidate, ServersResume
<1> QED BY <1>2, <1>3, <1>4 DEF Rollout, RollNext

LEMMA LogSteps ==
  ASSUME LoggedInv, sync_version \in Nat, NEW from, NEW to, TrainerLog(from, to)
  PROVE  /\ trainer = from /\ trainer' = to
         /\ UNCHANGED <<sync, sync_version, trainer_version>>
         /\ InOrderOf(logged', val_queue', Results')
         /\ \/ Len(logged) = Results /\ Len(logged') = Len(logged)
            \/ Len(logged) < Results /\ Len(logged') = Len(logged) + 1
<1>1. /\ trainer = from /\ trainer' = to
      /\ UNCHANGED <<sync, sync_version, trainer_version>>
  BY DEF TrainerLog, rollVars, syncVars
<1>2. Results' = Results /\ Results \in Nat
  BY <1>1 DEF Results
<1>3. /\ logged \in Seq(Nat) /\ val_queue \in Seq(Nat)
      /\ Len(logged) + Len(val_queue) = Results
  BY DEF LoggedInv, InOrderOf
<1>4. CASE val_queue = <<>>
  <2>1. logged' = logged /\ val_queue' = val_queue
    BY <1>4 DEF TrainerLog, LogValidation, GetValidate
  <2> QED BY <1>1, <1>2, <1>3, <1>4, <2>1 DEF LoggedInv
<1>5. CASE val_queue # <<>>
  <2>1. logged' = Append(logged, Head(val_queue)) /\ val_queue' = Tail(val_queue)
    BY <1>5 DEF TrainerLog, LogValidation, GetValidate
  <2>2. Len(val_queue) \in Nat \ {0} /\ Len(logged) \in Nat
    BY <1>3, <1>5
  <2>3. /\ InOrderOf(Append(logged, Head(val_queue)), Tail(val_queue), Results)
        /\ Len(Append(logged, Head(val_queue))) = Len(logged) + 1
    BY <1>2, <1>5, LogKeepsOrder DEF LoggedInv
  <2> QED BY <1>1, <1>2, <1>3, <2>1, <2>2, <2>3
<1> QED BY <1>4, <1>5

LEMMA LoggedInvStep == VersionsInv /\ LoggedInv /\ [Next]_vars => LoggedInv'
<1> SUFFICES ASSUME VersionsInv, LoggedInv, [Next]_vars
             PROVE  LoggedInv'
  OBVIOUS
<1>0. /\ sync_version \in Nat /\ Len(logged) \in Nat /\ Len(val_queue) \in Nat
      /\ Results \in Nat /\ Len(logged) + Len(val_queue) = Results
  BY DEF VersionsInv, LoggedInv, InOrderOf, Results
<1> USE DEF TrainerState
<1>1. CASE Rollout
  <2>1. CASE UNCHANGED val_queue /\ (sync \in Published <=> sync' \in Published)
    <3>1. UNCHANGED <<sync_version, trainer, logged>> /\ (sync = "idle" => sync' = "idle")
      BY <1>1, ValidationSteps
    <3>2. Results' = Results
      BY <2>1, <3>1 DEF Results
    <3> QED BY <2>1, <3>1, <3>2 DEF LoggedInv, LoggedByNow
  <2>2. CASE /\ sync = "publishSent" /\ sync' = "publish"
             /\ val_queue' = Append(val_queue, sync_version)
    <3>1. UNCHANGED <<sync_version, trainer, logged>>
      BY <1>1, ValidationSteps
    <3>2. Results = sync_version /\ Results' = sync_version + 1
      BY <2>2, <3>1, <1>0 DEF Results, Published
    <3>3. InOrderOf(logged', val_queue', Results')
      BY <2>2, <3>1, <3>2, <1>0, PublishKeepsOrder DEF LoggedInv
    <3> QED BY <2>2, <3>1, <3>3 DEF LoggedInv, LoggedByNow
  <2> QED BY <1>1, <2>1, <2>2, ValidationSteps
<1>2. CASE TrainerLog("start", "collect") \/ TrainerLog("log", "collect")
  <2>1. /\ trainer \in {"start", "log"} /\ trainer' = "collect"
        /\ InOrderOf(logged', val_queue', Results')
        /\ UNCHANGED <<sync, sync_version>>
        /\ \/ Len(logged) = Results /\ Len(logged') = Len(logged)
           \/ Len(logged) < Results /\ Len(logged') = Len(logged) + 1
    BY <1>0, <1>2, LogSteps
  <2>2. Len(logged') >= sync_version
    BY <1>0, <2>1 DEF LoggedInv, LoggedByNow, Results
  <2> QED BY <2>1, <2>2 DEF LoggedInv, LoggedByNow
<1>3. CASE FinalLog \/ FinalValidLog
  <2>1. /\ sync = "idle"
        /\ \/ trainer = "finalWait" /\ trainer' = "final"
           \/ trainer = "finalValid" /\ trainer' = "done"
        /\ InOrderOf(logged', val_queue', Results')
        /\ UNCHANGED <<sync, sync_version>>
        /\ \/ Len(logged) = Results /\ Len(logged') = Len(logged)
           \/ Len(logged) < Results /\ Len(logged') = Len(logged) + 1
    BY <1>0, <1>3, LogSteps DEF FinalLog, FinalValidLog, LastResultIn, LastCallOver
  <2>2. Results = sync_version + 1
    BY <2>1 DEF Results, Published
  <2>3. Len(logged') = sync_version + 1
    BY <1>0, <2>1, <2>2 DEF LoggedInv, LoggedByNow
  <2> QED BY <2>1, <2>3 DEF LoggedInv, LoggedByNow
<1>4. CASE TrainerGet \/ TrainerStep \/ FinalDecide
  <2>1. /\ UNCHANGED <<sync, sync_version, logged, val_queue>>
        /\ trainer \in {"collect", "train"} =>
             trainer' \in {"collect", "train", "waitValid", "log", "finalWait"}
        /\ trainer = "final" => trainer' \in {"finalTrigger", "done"}
        /\ trainer \in {"collect", "train", "final"}
    BY <1>4 DEF TrainerGet, Receive, GetSample, Recheck, Take, Wait, ReturnNone,
       TrainerStep, FinalDecide, mqVars, rollVars, syncVars, LoggedInv, LoggedByNow
  <2>2. Results' = Results
    BY <2>1 DEF Results
  <2>3. LoggedByNow'
    BY <1>0, <2>1 DEF LoggedInv, LoggedByNow
  <2> QED BY <2>1, <2>2, <2>3 DEF LoggedInv
<1>5. CASE SyncWeights("waitValid", "sync") \/ SyncWeights("finalTrigger", "finalSync")
  <2>1. /\ sync = "idle" /\ sync' = "pauseSent" /\ sync_version' = trainer_version
        /\ UNCHANGED <<logged, val_queue>>
        /\ \/ trainer = "waitValid" /\ trainer' = "sync"
           \/ trainer = "finalTrigger" /\ trainer' = "finalSync"
    BY <1>5 DEF SyncWeights, LastCallOver, mqVars
  <2>2. sync_version' = sync_version + 1
    BY <2>1 DEF VersionsInv, TrainerAhead
  <2>3. Results' = Results
    BY <1>0, <2>1, <2>2 DEF Results, Published
  <2> QED BY <1>0, <2>1, <2>2, <2>3 DEF LoggedInv, LoggedByNow
<1>6. CASE Transfer
  <2>1. /\ \/ sync = "paused" /\ sync' = "transfer" /\ trainer' = trainer
           \/ /\ sync = "transfer" /\ sync' = "updateSent"
              /\ trainer' = IF trainer = "finalSync" THEN "finalValid" ELSE "log"
        /\ UNCHANGED <<sync_version, logged, val_queue>>
    BY <1>6 DEF Transfer, TransferBegin, TransferEnd, UpdateParamVersion, mqVars,
       trainerVars
  <2>2. trainer \in {"sync", "finalSync"}
    BY <2>1 DEF VersionsInv, VersionsAtPhase, Pausing, Arriving, Updated
  <2>3. Results' = Results
    BY <2>1 DEF Results, Published
  <2> QED BY <2>1, <2>2, <2>3 DEF LoggedInv, LoggedByNow
<1>7. CASE MainClear \/ UNCHANGED vars
  <2>1. UNCHANGED <<sync, sync_version, trainer, logged, val_queue>>
    BY <1>7 DEF MainClear, ClearQueue, vars, mqVars, rollVars, syncVars, trainerVars
  <2>2. Results' = Results
    BY <2>1 DEF Results
  <2> QED BY <2>1, <2>2 DEF LoggedInv, LoggedByNow
<1> QED BY <1>1, <1>2, <1>3, <1>4, <1>5, <1>6, <1>7 DEF Next, Trainer, Terminated

(* At the end of training every version has been validated and its result  *)
(* logged, once and in order (_log_validation_data, wait_last_valid and    *)
(* the final synchronisation of fit()).                                    *)
THEOREM ValidationsAllLogged == Spec => []ValidationComplete
<1>1. Init => LoggedInv
  <2> SUFFICES ASSUME Init PROVE LoggedInv
    OBVIOUS
  <2>1. /\ logged = <<>> /\ val_queue = <<0>> /\ sync_version = 0 /\ sync = "idle"
        /\ trainer = "start"
    BY DEF Init, RollInit
  <2>2. Results = 1
    BY <2>1 DEF Results, Published
  <2> QED BY <2>1, <2>2 DEF LoggedInv, LoggedByNow, InOrderOf, TrainerState
<1>2. VersionsInv /\ LoggedInv => ValidationComplete
  <2> SUFFICES ASSUME VersionsInv, LoggedInv, trainer = "done"
               PROVE  /\ logged = [i \in 1..(trainer_version + 1) |-> i - 1]
                      /\ val_queue = <<>>
    BY DEF ValidationComplete
  <2>1. /\ sync = "idle" /\ Len(logged) = sync_version + 1
        /\ trainer_version = sync_version /\ Results = sync_version + 1
    BY DEF LoggedInv, LoggedByNow, VersionsInv, TrainerAhead, Results, Published
  <2>2. /\ logged \in Seq(Nat) /\ val_queue \in Seq(Nat) /\ sync_version \in Nat
        /\ Len(logged) + Len(val_queue) = sync_version + 1
        /\ \A i \in 1..Len(logged) : logged[i] = i - 1
    BY <2>1 DEF LoggedInv, InOrderOf, VersionsInv
  <2>3. val_queue = <<>>
    BY <2>1, <2>2
  <2>4. DOMAIN logged = 1..(trainer_version + 1) /\ logged = [i \in DOMAIN logged |-> logged[i]]
    BY <2>1, <2>2
  <2> QED BY <2>1, <2>2, <2>3, <2>4
<1> QED BY <1>1, <1>2, VersionsInvInit, VersionsInvStep, LoggedInvStep, PTL DEF Spec

-----------------------------------------------------------------------------
(* Queues.  A line is a sequence of different elements of S: every queue   *)
(* of the rollouter is one.                                                *)
Line(q, S) == q \in Seq(S) /\ IsInjective(q)

LEMMA EmptyLine == ASSUME NEW S PROVE Line(<<>>, S) /\ ToSet(<<>>) = {}
  BY DEF Line, IsInjective, ToSet

LEMMA OneLine ==
  ASSUME NEW S, NEW x \in S
  PROVE  Line(<<x>>, S) /\ ToSet(<<x>>) = {x}
<1>1. DOMAIN <<x>> = {1} /\ <<x>>[1] = x /\ <<x>> \in Seq(S)
  OBVIOUS
<1> QED BY <1>1 DEF Line, IsInjective, ToSet

LEMMA TwoLine ==
  ASSUME NEW S, NEW x \in S, NEW y \in S, x # y
  PROVE  Line(<<x, y>>, S) /\ ToSet(<<x, y>>) = {x, y}
<1>1. /\ DOMAIN <<x, y>> = {1, 2} /\ <<x, y>> \in Seq(S)
      /\ <<x, y>>[1] = x /\ <<x, y>>[2] = y
  OBVIOUS
<1> QED BY <1>1 DEF Line, IsInjective, ToSet

(* Two lines without a common element make one.                            *)
LEMMA JoinedLines ==
  ASSUME NEW S, NEW q, NEW r, Line(q, S), Line(r, S), ToSet(q) \cap ToSet(r) = {}
  PROVE  Line(q \o r, S) /\ ToSet(q \o r) = ToSet(q) \cup ToSet(r)
<1>1. /\ q \in Seq(S) /\ r \in Seq(S) /\ q \o r \in Seq(S)
      /\ Len(q) \in Nat /\ Len(r) \in Nat
      /\ Len(q \o r) = Len(q) + Len(r)
      /\ DOMAIN q = 1..Len(q) /\ DOMAIN r = 1..Len(r)
      /\ DOMAIN (q \o r) = 1..(Len(q) + Len(r))
  BY DEF Line
<1>2. \A i \in 1..(Len(q) + Len(r)) :
        (q \o r)[i] = IF i <= Len(q) THEN q[i] ELSE r[i - Len(q)]
  BY <1>1
<1>3. ASSUME NEW i \in 1..(Len(q) + Len(r))
      PROVE  \/ i \in DOMAIN q /\ (q \o r)[i] = q[i] /\ q[i] \in ToSet(q)
             \/ i - Len(q) \in DOMAIN r /\ (q \o r)[i] = r[i - Len(q)]
                /\ r[i - Len(q)] \in ToSet(r)
  <2>1. CASE i <= Len(q)
    BY <2>1, <1>1, <1>2 DEF ToSet
  <2>2. CASE ~(i <= Len(q))
    <3>1. i - Len(q) \in 1..Len(r)
      BY <2>2, <1>1
    <3> QED BY <2>2, <3>1, <1>1, <1>2 DEF ToSet
  <2> QED BY <2>1, <2>2
<1>4. IsInjective(q \o r)
  <2> SUFFICES ASSUME NEW i \in 1..(Len(q) + Len(r)), NEW j \in 1..(Len(q) + Len(r)),
                      (q \o r)[i] = (q \o r)[j]
               PROVE  i = j
    BY <1>1 DEF IsInjective
  <2>1. CASE i <= Len(q) /\ j <= Len(q)
    <3>1. i \in DOMAIN q /\ j \in DOMAIN q /\ q[i] = q[j]
      BY <2>1, <1>1, <1>2
    <3> QED BY <3>1 DEF Line, IsInjective
  <2>2. CASE ~(i <= Len(q)) /\ ~(j <= Len(q))
    <3>1. i - Len(q) \in DOMAIN r /\ j - Len(q) \in DOMAIN r /\ r[i - Len(q)] = r[j - Len(q)]
      BY <2>2, <1>1, <1>2
    <3>2. i - Len(q) = j - Len(q)
      BY <3>1 DEF Line, IsInjective
    <3> QED BY <3>2, <1>1
  <2>3. CASE i <= Len(q) /\ ~(j <= Len(q))
    <3>1. (q \o r)[i] \in ToSet(q)
      BY <2>3, <1>1, <1>2 DEF ToSet
    <3>2. j - Len(q) \in DOMAIN r
      BY <2>3, <1>1
    <3>3. (q \o r)[j] \in ToSet(r)
      BY <2>3, <3>2, <1>2 DEF ToSet
    <3> QED BY <3>1, <3>3
  <2>4. CASE ~(i <= Len(q)) /\ j <= Len(q)
    <3>1. (q \o r)[j] \in ToSet(q)
      BY <2>4, <1>1, <1>2 DEF ToSet
    <3>2. i - Len(q) \in DOMAIN r
      BY <2>4, <1>1
    <3>3. (q \o r)[i] \in ToSet(r)
      BY <2>4, <3>2, <1>2 DEF ToSet
    <3> QED BY <3>1, <3>3
  <2> QED BY <2>1, <2>2, <2>3, <2>4
<1>5. ToSet(q \o r) = ToSet(q) \cup ToSet(r)
  <2>1. \A x : x \in ToSet(q \o r) => x \in ToSet(q) \cup ToSet(r)
    BY <1>1, <1>3 DEF ToSet
  <2>2. ASSUME NEW i \in DOMAIN q PROVE q[i] \in ToSet(q \o r)
    <3>1. i \in 1..(Len(q) + Len(r)) /\ i <= Len(q)
      BY <1>1
    <3> QED BY <3>1, <1>1, <1>2 DEF ToSet
  <2>3. ASSUME NEW i \in DOMAIN r PROVE r[i] \in ToSet(q \o r)
    <3>1. /\ i + Len(q) \in 1..(Len(q) + Len(r)) /\ ~(i + Len(q) <= Len(q))
          /\ (i + Len(q)) - Len(q) = i
      BY <1>1
    <3>2. (q \o r)[i + Len(q)] = r[i]
      BY <3>1, <1>2
    <3> QED BY <3>1, <3>2, <1>1 DEF ToSet
  <2> QED BY <2>1, <2>2, <2>3 DEF ToSet
<1> QED BY <1>1, <1>4, <1>5 DEF Line

(* An append of a new element.                                             *)
LEMMA LongerLine ==
  ASSUME NEW S, NEW q, NEW x \in S, Line(q, S), x \notin ToSet(q)
  PROVE  Line(Append(q, x), S) /\ ToSet(Append(q, x)) = ToSet(q) \cup {x}
<1>1. Append(q, x) = q \o <<x>>
  BY DEF Line
<1>2. Line(q \o <<x>>, S) /\ ToSet(q \o <<x>>) = ToSet(q) \cup ToSet(<<x>>)
  BY OneLine, JoinedLines
<1> QED BY <1>1, <1>2, OneLine

(* A popleft.                                                              *)
LEMMA ShorterLine ==
  ASSUME NEW S, NEW q, Line(q, S), q # <<>>
  PROVE  /\ Line(Tail(q), S) /\ ToSet(Tail(q)) = ToSet(q) \ {Head(q)}
         /\ Head(q) \in S /\ Head(q) \in ToSet(q)
<1>1. /\ q \in Seq(S) /\ Len(q) \in Nat \ {0} /\ DOMAIN q = 1..Len(q)
      /\ Tail(q) \in Seq(S) /\ Len(Tail(q)) = Len(q) - 1
      /\ DOMAIN Tail(q) = 1..(Len(q) - 1)
      /\ Head(q) = q[1] /\ Head(q) \in S
      /\ \A i \in 1..(Len(q) - 1) : Tail(q)[i] = q[i + 1]
  BY DEF Line
<1>2. \A i \in 1..(Len(q) - 1) : i + 1 \in 1..Len(q) /\ i + 1 # 1
  BY <1>1
<1>3. \A i \in 1..Len(q) : i = 1 \/ (i - 1 \in 1..(Len(q) - 1) /\ (i - 1) + 1 = i)
  BY <1>1
<1>4. 1 \in 1..Len(q)
  BY <1>1
<1>5. IsInjective(Tail(q))
  <2> SUFFICES ASSUME NEW i \in 1..(Len(q) - 1), NEW j \in 1..(Len(q) - 1),
                      Tail(q)[i] = Tail(q)[j]
               PROVE  i = j
    BY <1>1 DEF IsInjective
  <2>1. i + 1 \in DOMAIN q /\ j + 1 \in DOMAIN q /\ q[i + 1] = q[j + 1]
    BY <1>1, <1>2
  <2>2. i + 1 = j + 1
    BY <2>1 DEF Line, IsInjective
  <2> QED BY <2>2, <1>1
<1>6. ASSUME NEW x \in ToSet(Tail(q)) PROVE x \in ToSet(q) \ {Head(q)}
  <2>1. PICK i \in 1..(Len(q) - 1) : x = Tail(q)[i]
    BY <1>1 DEF ToSet
  <2>2. x = q[i + 1] /\ i + 1 \in DOMAIN q /\ i + 1 # 1
    BY <2>1, <1>1, <1>2
  <2>3. x # q[1]
    BY <2>2, <1>1, <1>4 DEF Line, IsInjective
  <2> QED BY <2>2, <2>3, <1>1 DEF ToSet
<1>7. ASSUME NEW x \in ToSet(q) \ {Head(q)} PROVE x \in ToSet(Tail(q))
  <2>1. PICK i \in 1..Len(q) : x = q[i]
    BY <1>1 DEF ToSet
  <2>2. i # 1
    BY <2>1, <1>1
  <2>3. i - 1 \in 1..(Len(q) - 1) /\ (i - 1) + 1 = i
    BY <2>2, <1>3
  <2>4. x = Tail(q)[i - 1]
    BY <2>1, <2>3, <1>1
  <2> QED BY <2>3, <2>4, <1>1 DEF ToSet
<1>8. Head(q) \in ToSet(q)
  BY <1>1, <1>4 DEF ToSet
<1> QED BY <1>1, <1>5, <1>6, <1>7, <1>8 DEF Line

(* Of coroutines, as the proofs below cite them. *)
LEMMA JoinedCoroutines ==
  \A q, r : Line(q, Coroutines) /\ Line(r, Coroutines) /\ ToSet(q) \cap ToSet(r) = {}
          => Line(q \o r, Coroutines) /\ ToSet(q \o r) = ToSet(q) \cup ToSet(r)
  BY JoinedLines

(* The same for the queues of the event loop, for any of them at once.     *)
LEMMA LongerCoroutines ==
  \A q, x : Line(q, Coroutines) /\ x \in Coroutines /\ x \notin ToSet(q)
          => Line(Append(q, x), Coroutines) /\ ToSet(Append(q, x)) = ToSet(q) \cup {x}
  BY LongerLine

-----------------------------------------------------------------------------
(* What the constants are. *)
LEMMA Constants ==
  /\ Total \in Nat \ {0} /\ Required \in Nat \ {0} /\ Trigger \in Nat \ {0}
  /\ ServerSlots \in Nat \ {0} /\ PendingCap \in Nat \ {0} /\ StalenessPct \in Nat
  /\ max_queue_size = MaxRequired /\ MaxRequired \in Nat \ {0}
  /\ MaxConcurrent \in Nat \ {0}
  /\ Payload = Samples \cup {STOP}
  /\ Samples = 1..Total /\ DONE = Total + 1 /\ STOP = Total + 2
  BY RollouterAssumption, MQAssumption DEF MaxConcurrent, Samples, DONE, STOP

(* The coroutines are different from each other and from nobody.           *)
LEMMA Names ==
  /\ {Feeder, Proc, Mon, Main, Sync} \subseteq Coroutines /\ Nobody \notin Coroutines
  /\ \A s \in Samples : /\ Task(s) \in Coroutines
                        /\ Task(s) \notin {Feeder, Proc, Mon, Main, Sync}
                        /\ \A t \in Samples : Task(s) = Task(t) => s = t
  /\ Feeder # Proc /\ Feeder # Mon /\ Feeder # Main /\ Feeder # Sync
  /\ Proc # Mon /\ Proc # Main /\ Proc # Sync /\ Mon # Main /\ Mon # Sync /\ Main # Sync
  BY DEF Coroutines, Feeder, Proc, Mon, Main, Sync, Task, Nobody

(* The messages of the queue. *)
LEMMA QueueTyped ==
  ASSUME queue \in Seq(Payload), Len(queue) <= max_queue_size
  PROVE  /\ Evicted \in Seq(Payload) /\ Len(Evicted) < max_queue_size
         /\ queue # <<>> => /\ Head(queue) \in Payload /\ Tail(queue) \in Seq(Payload)
                            /\ Len(Tail(queue)) <= max_queue_size
         /\ ToSet(queue) \subseteq Payload
<1>1. Len(queue) \in Nat /\ max_queue_size \in Nat \ {0}
  BY MQAssumption
<1>2. ToSet(queue) \subseteq Payload
  BY DEF ToSet
<1>3. CASE queue = <<>>
  <2>1. Len(queue) = 0
    BY <1>3
  <2> QED BY <2>1, <1>1, <1>2, <1>3 DEF Evicted, Full
<1>4. CASE queue # <<>>
  <2>1. /\ Head(queue) \in Payload /\ Tail(queue) \in Seq(Payload)
        /\ Len(Tail(queue)) = Len(queue) - 1 /\ Len(queue) # 0
    BY <1>4
  <2> QED BY <2>1, <1>1, <1>2 DEF Evicted, Full
<1> QED BY <1>3, <1>4

(* put_sample keeps the queue within its capacity.                         *)
LEMMA PutTyped ==
  ASSUME queue \in Seq(Payload), Len(queue) <= max_queue_size, NEW x \in Payload,
         getter \in [Consumers -> GetterState], mq_running \in BOOLEAN,
         PutSample(x)
  PROVE  /\ queue' \in Seq(Payload) /\ Len(queue') <= max_queue_size
         /\ getter' \in [Consumers -> GetterState] /\ mq_running' \in BOOLEAN
         /\ UNCHANGED mq_version
<1>1. Evicted \in Seq(Payload) /\ Len(Evicted) < max_queue_size
  BY QueueTyped
<1>2. queue' = Append(Evicted, x)
  BY DEF PutSample
<1>3. Len(Evicted) \in Nat /\ max_queue_size \in Nat
  BY <1>1, MQAssumption
<1>4. queue' \in Seq(Payload) /\ Len(queue') = Len(Evicted) + 1
  BY <1>1, <1>2
<1>5. getter' \in [Consumers -> GetterState] /\ UNCHANGED <<mq_running, mq_version>>
  BY DEF PutSample, NotifyAll, GetterState
<1> QED BY <1>1, <1>3, <1>4, <1>5
(* The feeder's next sample.                                               *)
LEMMA FedLine ==
  ASSUME NEW a \in 0..DONE, NEW b \in a..DONE
  PROVE  LET q == SubSeq(Dataset, a + 1, b)
         IN /\ Line(q, 1..DONE) /\ ToSet(q) = (a + 1)..b /\ Len(q) = b - a
<1> DEFINE q == SubSeq(Dataset, a + 1, b)
<1>1. DONE \in Nat
  BY Constants
<1>2. a \in Nat /\ b \in Nat /\ a <= b /\ b <= DONE
  BY <1>1
<1>3. \A i \in (a + 1)..b : i \in 1..DONE /\ Dataset[i] = i
  BY <1>1, <1>2 DEF Dataset
<1>4. /\ q \in Seq(1..DONE) /\ Len(q) = b - a
      /\ \A i \in 1..(b - a) : q[i] = a + i
  <2>1. \A i \in (a + 1)..b : Dataset[i] \in 1..DONE
    BY <1>3
  <2>2. /\ q \in Seq(1..DONE)
        /\ Len(q) = IF a + 1 <= b THEN b - (a + 1) + 1 ELSE 0
        /\ \A i \in 1..(b - (a + 1) + 1) : q[i] = Dataset[(a + 1) + i - 1]
    BY <1>2, <2>1, SubSeqProperties
  <2>3. b - (a + 1) + 1 = b - a /\ (~(a + 1 <= b) => b - a = 0)
    BY <1>2
  <2>4. \A i \in 1..(b - a) : (a + 1) + i - 1 = a + i /\ a + i \in (a + 1)..b
    BY <1>2
  <2> QED BY <1>3, <2>2, <2>3, <2>4
<1> HIDE DEF q
<1>5. DOMAIN q = 1..(b - a)
  BY <1>4
<1>6. \A i \in 1..(b - a), j \in 1..(b - a) : a + i = a + j => i = j
  BY <1>2
<1>7. IsInjective(q)
  BY <1>4, <1>5, <1>6 DEF IsInjective
<1>8. \A x \in (a + 1)..b : x - a \in 1..(b - a) /\ a + (x - a) = x
  BY <1>2
<1>9. \A i \in 1..(b - a) : a + i \in (a + 1)..b
  BY <1>2
<1>10. ToSet(q) = (a + 1)..b
  <2>1. ToSet(q) = {q[i] : i \in 1..(b - a)}
    BY <1>5 DEF ToSet
  <2>2. ASSUME NEW x \in (a + 1)..b PROVE x \in ToSet(q)
    <3>1. x - a \in 1..(b - a) /\ q[x - a] = x
      BY <1>4, <1>8
    <3> QED BY <2>1, <3>1
  <2> QED BY <1>4, <1>9, <2>1, <2>2
<1>11. Line(q, 1..DONE) /\ ToSet(q) = (a + 1)..b /\ Len(q) = b - a
  BY <1>4, <1>7, <1>10 DEF Line
<1> QED BY <1>11 DEF q

-----------------------------------------------------------------------------
(* Types.  What the processor has in hand depends on where it stands.      *)
InHand ==
  /\ ppc \in {"check", "pause", "drain", "idle", "take"} => hand = NoSample
  /\ ppc \in {"limit", "submit"} => hand \in Samples
  /\ pmode = "get" => ppc = "take"

(* TypeOK but for the variables of the event loop and of the versions.     *)
MessageTypes ==
  /\ queue \in Seq(Payload) /\ Len(queue) <= max_queue_size
  /\ getter \in [Consumers -> GetterState] /\ mq_running \in BOOLEAN

SampleTypes ==
  /\ pending \in Seq(1..DONE) /\ Len(pending) <= PendingCap /\ fed \in 0..DONE
  /\ cancelled \in Seq(Samples) /\ active \subseteq Samples
  /\ finished \in [ok : Nat, bad : Nat]
  /\ task \in [Samples -> TaskState] /\ stamp \in [Samples -> Nat]
  /\ dropped \subseteq Payload /\ failed \subseteq Samples

ControlTypes ==
  /\ ppc \in LoopHead /\ pmode \in ProcState /\ hand \in 0..DONE
  /\ staleness_samples \in Nat /\ recount \in Nat
  /\ monitor \in {"sleep", "unpause", "top", "exited"}
  /\ main \in {"streaming", "signalling", "signalled", "locking", "exited"}
  /\ sync \in SyncState

FlagTypes ==
  /\ done_bound \in BOOLEAN /\ paused \in BOOLEAN /\ running \in BOOLEAN
  /\ monitor_loop_trigger \in BOOLEAN /\ server_paused \in BOOLEAN

TrainerTypes ==
  /\ trainer \in TrainerState /\ local_trigger_step \in 1..Trigger
  /\ batch \in Seq(Samples) /\ trained \subseteq Samples
  /\ made_by \in [Samples -> SUBSET (0..trainer_version)]

TypeInv ==
  MessageTypes /\ SampleTypes /\ ControlTypes /\ FlagTypes /\ TrainerTypes /\ InHand

LEMMA TypeInvInit == Init => TypeInv
<1> SUFFICES ASSUME Init PROVE TypeInv
  OBVIOUS
<1> USE DEF Init, RollInit
<1>1. MessageTypes
  BY MQAssumption DEF MessageTypes, GetterState
<1>2. SampleTypes
  BY Constants DEF SampleTypes, TaskState
<1>3. ControlTypes
  <2>1. hand \in 0..DONE
    BY Constants DEF NoSample
  <2>2. ppc \in LoopHead /\ pmode \in ProcState /\ sync \in SyncState
    BY DEF LoopHead, ProcState, SyncState
  <2> QED BY <2>1, <2>2 DEF ControlTypes
<1>4. TrainerTypes
  BY Constants DEF TrainerTypes, TrainerState
<1>5. InHand
  BY DEF InHand
<1>6. FlagTypes
  BY DEF FlagTypes
<1> QED BY <1>1, <1>2, <1>3, <1>4, <1>5, <1>6 DEF TypeInv

(* The message queue's part of the types, by every action.                 *)
LEMMA MessageTypesStep == TypeInv /\ [Next]_vars => MessageTypes'
<1> SUFFICES ASSUME TypeInv, [Next]_vars
             PROVE  MessageTypes'
  OBVIOUS
<1>0. /\ queue \in Seq(Payload) /\ Len(queue) <= max_queue_size
      /\ getter \in [Consumers -> GetterState] /\ mq_running \in BOOLEAN
  BY DEF TypeInv, MessageTypes
<1>1. ASSUME NEW x \in Payload, PutSample(x) PROVE MessageTypes'
  BY <1>0, <1>1, PutTyped DEF MessageTypes
<1>2. CASE QueuePublishes \/ TransferBegin
  <2>1. UNCHANGED <<queue, getter, mq_running>>
    BY <1>2 DEF QueuePublishes, PutValidate, TransferBegin, UpdateParamVersion
  <2> QED BY <1>0, <2>1 DEF MessageTypes
<1>3. CASE Rollout /\ ~QueuePublishes
  <2>1. UNCHANGED <<queue, getter, mq_running>> \/ \E x \in Payload : PutSample(x)
    <3>1. UNCHANGED mqVars \/ \E x \in Payload : PutSample(x)
      <4> USE Constants
      <4>1. CASE EventLoop
        BY <4>1 DEF EventLoop, FeedSamples, Processor, ProcCheck, ProcBlock, ProcSetPaused,
           ProcLoopDone, ProcCollectBegin, ProcCollect, ProcCollectNothing, ProcIdle,
           TakeCancelled, TakePending, TakeWait, ProcSubmit, Tasks, TaskSubmit,
           TaskComplete, TaskReturn, Monitor, MonitorTick, MonitorBlock, MonitorUnpause,
           MonitorLook, MainCoroutine, MainWake, MainBlock, MainStop, SyncCalls, SyncBlock,
           PauseBegin, PauseCancelled, PauseGathered, PauseEnd, UpdateBegin, UpdateCounted,
           UpdateEnd, ResumeServers, ResumeEnd, ResumeEffect
      <4>2. CASE MonitorTimer \/ Replies
        BY <1>3, <4>2 DEF MonitorTimer, Replies, MainSignal, CallArrives, ServersCancel,
           ServersReset, QueueCounts, ServersResume
      <4>3. CASE \E s \in Samples : Generation(s) \/ ServerError(s)
        BY <4>3 DEF Generation, ServerAdmit, ServerAnswer, ServerError, QueuePut
      <4> QED BY <1>3, <4>1, <4>2, <4>3 DEF Rollout, RollNext
    <3> QED BY <3>1 DEF mqVars
  <2> QED BY <1>0, <1>1, <2>1 DEF MessageTypes
<1>4. CASE TrainerGet
  <2>1. \/ queue # <<>> /\ queue' = Tail(queue)
        \/ queue' = queue
    BY <1>4 DEF TrainerGet, GetSample, Recheck, Take, Wait, ReturnNone
  <2>2. getter' \in [Consumers -> GetterState] /\ mq_running' = mq_running
    BY <1>0, <1>4 DEF TrainerGet, GetSample, Recheck, Take, Wait, ReturnNone, GetterState
  <2> QED BY <1>0, <2>1, <2>2, QueueTyped DEF MessageTypes
<1>5. CASE Trainer /\ ~TrainerGet
  <2>1. UNCHANGED <<queue, getter, mq_running>>
    BY <1>5 DEF Trainer, TrainerLog, LogValidation, GetValidate, TrainerStep, SyncWeights,
       FinalLog, FinalDecide, FinalValidLog, mqVars
  <2> QED BY <1>0, <2>1 DEF MessageTypes
<1>6. CASE MainClear
  <2>1. queue' = <<>> /\ UNCHANGED <<getter, mq_running>>
    BY <1>6 DEF MainClear, ClearQueue
  <2> QED BY <1>0, <2>1, MQAssumption DEF MessageTypes
<1>7. CASE UNCHANGED vars \/ TransferEnd
  <2>1. UNCHANGED <<queue, getter, mq_running>>
    BY <1>7 DEF vars, TransferEnd, mqVars
  <2> QED BY <1>0, <2>1 DEF MessageTypes
<1> QED
  BY <1>2, <1>3, <1>4, <1>5, <1>6, <1>7 DEF Next, Transfer, Terminated

(* The samples' part.                                                      *)
LEMMA SampleTypesStep == VersionsInv /\ TypeInv /\ [Next]_vars => SampleTypes'
<1> SUFFICES ASSUME VersionsInv, TypeInv, [Next]_vars
             PROVE  SampleTypes'
  OBVIOUS
<1> USE DEF queueVars, taskVars, histVars
<1>0. /\ pending \in Seq(1..DONE) /\ Len(pending) <= PendingCap /\ fed \in 0..DONE
      /\ cancelled \in Seq(Samples) /\ active \subseteq Samples
      /\ finished \in [ok : Nat, bad : Nat]
      /\ task \in [Samples -> TaskState] /\ stamp \in [Samples -> Nat]
      /\ dropped \subseteq Payload /\ failed \subseteq Samples
  BY DEF TypeInv, SampleTypes
<1>1. CASE FeedSamples
  <2> DEFINE room == PendingCap - Len(pending)
             last == IF fed + room < DONE THEN fed + room ELSE DONE
  <2>1. room \in Nat /\ fed \in Nat /\ DONE \in Nat /\ Len(pending) \in Nat /\ fed <= DONE
    BY <1>0, Constants
  <2>2. last \in fed..DONE /\ last - fed <= room
    BY <2>1
  <2>3. pending' = pending \o SubSeq(Dataset, fed + 1, last) /\ fed' = last
    BY <1>1 DEF FeedSamples
  <2>4. /\ SubSeq(Dataset, fed + 1, last) \in Seq(1..DONE)
        /\ Len(SubSeq(Dataset, fed + 1, last)) = last - fed
    BY <1>0, <2>2, FedLine DEF Line
  <2> HIDE DEF last
  <2>5. pending' \in Seq(1..DONE) /\ Len(pending') = Len(pending) + (last - fed)
    BY <1>0, <2>3, <2>4
  <2>6. Len(pending') <= PendingCap /\ fed' \in 0..DONE
    BY <2>1, <2>2, <2>3, <2>5, Constants
  <2>7. UNCHANGED <<cancelled, active, finished, task, stamp, dropped, failed>>
    BY <1>1 DEF FeedSamples
  <2> QED BY <1>0, <2>5, <2>6, <2>7 DEF SampleTypes
<1>2. CASE TakeCancelled
  BY <1>0, <1>2 DEF SampleTypes, TakeCancelled
<1>3. CASE TakePending
  <2>1. /\ pending # <<>> /\ pending' = Tail(pending)
        /\ UNCHANGED <<fed, cancelled, taskVars, histVars>>
    BY <1>3 DEF TakePending
  <2>2. pending' \in Seq(1..DONE) /\ Len(pending') = Len(pending) - 1 /\ Len(pending) \in Nat
    BY <1>0, <2>1
  <2> QED BY <1>0, <2>1, <2>2, Constants, SMTT(60) DEF SampleTypes
<1>4. CASE ProcCollect \/ PauseGathered
  BY <1>0, <1>4 DEF SampleTypes, ProcCollect, PauseGathered
<1>5. CASE ProcSubmit
  <2>1. hand \in Samples
    BY <1>5 DEF ProcSubmit, TypeInv, InHand
  <2> QED BY <1>0, <1>5, <2>1 DEF SampleTypes, ProcSubmit, TaskState
<1>6. ASSUME NEW s \in Samples, TaskSubmit(s) \/ ServerAdmit(s) \/ ServerAnswer(s)
      PROVE  SampleTypes'
  BY <1>0, <1>6 DEF SampleTypes, TaskSubmit, ServerAdmit, ServerAnswer, TaskState
<1>7. ASSUME NEW s \in Samples, ServerError(s)
      PROVE  SampleTypes'
  BY <1>0, <1>7 DEF SampleTypes, ServerError, TaskState
<1>8. ASSUME NEW s \in Samples, TaskComplete(s)
      PROVE  SampleTypes'
  <2>1. current_param_version \in Nat
    BY DEF VersionsInv
  <2> QED BY <1>0, <1>8, <2>1 DEF SampleTypes, TaskComplete, Stamp, TaskState
<1>9. ASSUME NEW s \in Samples, TaskReturn(s)
      PROVE  SampleTypes'
  <2>1. ASSUME NEW outcome \in {"ok", "bad"}, Finish(s, outcome)
        PROVE  /\ finished' \in [ok : Nat, bad : Nat] /\ active' \subseteq Samples
               /\ task' \in [Samples -> TaskState]
    <3>1. active' \subseteq Samples /\ task' \in [Samples -> TaskState]
      BY <1>0, <2>1 DEF Finish, TaskState
    <3>2. finished' \in [ok : Nat, bad : Nat]
      <4>1. finished' = [finished EXCEPT ![outcome] = @ + 1]
        BY <2>1 DEF Finish
      <4>2. finished.ok \in Nat /\ finished.bad \in Nat
        BY <1>0
      <4>3. \/ finished' = [finished EXCEPT !.ok = finished.ok + 1]
            \/ finished' = [finished EXCEPT !.bad = finished.bad + 1]
        BY <4>1
      <4> QED BY <1>0, <4>2, <4>3
    <3> QED BY <3>1, <3>2
  <2>2. cancelled' = cancelled \/ cancelled' = Append(cancelled, s)
    BY <1>9 DEF TaskReturn, Requeue
  <2>4. cancelled' \in Seq(Samples)
    <3>1. cancelled \in Seq(Samples)
      BY <1>0
    <3>2. Append(cancelled, s) \in Seq(Samples)
      BY <3>1
    <3> QED BY <2>2, <3>1, <3>2
  <2>5. Finish(s, "ok") \/ Finish(s, "bad")
    BY <1>9 DEF TaskReturn
  <2>3. UNCHANGED <<pending, fed, histVars>>
    BY <1>9 DEF TaskReturn
  <2> QED BY <1>0, <2>1, <2>3, <2>4, <2>5 DEF SampleTypes
<1>10. ASSUME Evict PROVE dropped' \subseteq Payload
  BY <1>0, <1>10, QueueTyped DEF Evict, TypeInv, MessageTypes
<1>11. ASSUME NEW s \in Samples, QueuePut(s)
       PROVE  SampleTypes'
  BY <1>0, <1>10, <1>11 DEF SampleTypes, QueuePut, TaskState
<1>12. CASE MainSignal
  BY <1>0, <1>10, <1>12 DEF SampleTypes, MainSignal
<1>13. CASE UNCHANGED <<queueVars, taskVars, stamp, dropped, failed>>
  BY <1>0, <1>13 DEF SampleTypes
<1>14. CASE ProcCheck \/ ProcBlock \/ ProcSetPaused \/ ProcLoopDone \/ ProcCollectBegin
            \/ ProcCollectNothing \/ ProcIdle \/ TakeWait
  BY <1>13, <1>14 DEF ProcCheck, ProcBlock, ProcSetPaused, ProcLoopDone,
     ProcCollectBegin, ProcCollectNothing, ProcIdle, TakeWait
<1>15. CASE Monitor \/ MainCoroutine \/ MonitorTimer
  BY <1>13, <1>15 DEF Monitor, MonitorTick, MonitorBlock, MonitorUnpause, MonitorLook,
     MainCoroutine, MainWake, MainBlock, MainStop, MonitorTimer
<1>16. CASE SyncCalls /\ ~PauseGathered
  BY <1>13, <1>16 DEF SyncCalls, SyncBlock, PauseBegin, PauseCancelled, PauseEnd,
     UpdateBegin, UpdateCounted, UpdateEnd, ResumeServers, ResumeEnd, ResumeEffect
<1>17. CASE Replies /\ ~MainSignal
  BY <1>13, <1>17 DEF Replies, CallArrives, ServersCancel, ServersReset, QueueCounts,
     QueuePublishes, ServersResume
<1>18. CASE Trainer \/ Transfer \/ MainClear \/ UNCHANGED vars
  BY <1>13, <1>18 DEF Trainer, TrainerLog, TrainerGet, TrainerStep, SyncWeights, FinalLog,
     FinalDecide, FinalValidLog, Transfer, TransferBegin, TransferEnd, MainClear, vars,
     rollVars
<1> QED
  BY <1>1, <1>2, <1>3, <1>4, <1>5, <1>6, <1>7, <1>8, <1>9, <1>11, <1>12, <1>14, <1>15,
     <1>16, <1>17, <1>18
  DEF Next, Rollout, RollNext, EventLoop, Processor, Tasks, Generation, Terminated

(* The coroutines' part.                                                   *)
LEMMA ControlTypesStep == TypeInv /\ [Next]_vars => ControlTypes' /\ InHand'
<1> SUFFICES ASSUME TypeInv, [Next]_vars
             PROVE  ControlTypes' /\ InHand'
  OBVIOUS
<1> USE DEF procVars, flagVars, syncVars, serverVars
<1>0. ControlTypes /\ InHand
  BY DEF TypeInv
<1>a. /\ Recount \in Nat /\ NoSample \in 0..DONE /\ Samples \subseteq 0..DONE
      /\ Len(queue) \in Nat
  <2>1. ActiveTasks \in Nat /\ Len(cancelled) \in Nat /\ Len(queue) \in Nat
    <3>1. IsFiniteSet(active)
      <4>1. IsFiniteSet(Samples) /\ active \subseteq Samples
        BY Constants, FS_Interval DEF TypeInv, SampleTypes
      <4> QED BY <4>1, FS_Subset
    <3>2. finished.ok \in Nat /\ finished.bad \in Nat
      BY DEF TypeInv, SampleTypes
    <3>3. Cardinality(active) \in Nat
      BY <3>1, FS_CardinalityType
    <3> QED BY <3>2, <3>3 DEF ActiveTasks, TypeInv, SampleTypes, MessageTypes
  <2> QED BY <2>1, Constants DEF Recount, NoSample
<1> USE DEF ControlTypes, InHand, ProcState, LoopHead, SyncState, NoSample
<1>1. CASE ProcCheck
  BY <1>0, <1>1 DEF ProcCheck, GoOn
<1>2. CASE ProcBlock
  BY <1>0, <1>2 DEF ProcBlock
<1>3. CASE ProcSetPaused
  BY <1>0, <1>3 DEF ProcSetPaused, GoOn
<1>4. CASE ProcLoopDone
  BY <1>0, <1>4 DEF ProcLoopDone, GoOn, Stop
<1>5. CASE ProcCollectBegin
  BY <1>0, <1>5 DEF ProcCollectBegin, Suspend
<1>6. CASE ProcCollect
  BY <1>0, <1>6 DEF ProcCollect, GoOn, Stop
<1>7. CASE ProcCollectNothing
  BY <1>0, <1>7 DEF ProcCollectNothing, GoOn, Stop
<1>8. CASE ProcIdle
  BY <1>0, <1>8 DEF ProcIdle, GoOn, Suspend
<1>9. CASE TakeCancelled
  <2>1. hand' \in Samples
    BY <1>9 DEF TakeCancelled, TypeInv, SampleTypes
  <2> QED BY <1>0, <1>9, <1>a, <2>1 DEF TakeCancelled, GoOn
<1>10. CASE TakePending
  <2>1. /\ hand' \in 0..DONE /\ staleness_samples' \in Nat
        /\ hand' # DONE => hand' \in Samples
        /\ ppc' = IF hand' = DONE THEN "final" ELSE "limit"
    <3>1. Head(pending) \in 1..DONE /\ hand' = Head(pending)
      <4>1. pending # <<>> /\ hand' = Head(pending) /\ pending \in Seq(1..DONE)
        BY <1>10 DEF TakePending, TypeInv, SampleTypes
      <4> QED BY <4>1, HeadTailProperties
    <3>2. hand' \in 0..DONE /\ (hand' # DONE => hand' \in Samples)
      BY <3>1, Constants
    <3> QED BY <1>0, <1>10, <3>1, <3>2 DEF TakePending, GoOn
  <2> QED BY <1>0, <1>10, <2>1 DEF TakePending, GoOn
<1>11. CASE TakeWait
  BY <1>0, <1>11 DEF TakeWait, Suspend
<1>12. CASE ProcSubmit
  <2>1. CASE paused
    BY <1>0, <1>12, <2>1 DEF ProcSubmit, Suspend
  <2>2. CASE ~paused
    <3>1. ppc' = "check" /\ pmode' = "run" /\ hand' = NoSample
      BY <1>12, <2>2 DEF ProcSubmit, GoOn
    <3> QED BY <1>0, <1>12, <1>a, <3>1 DEF ProcSubmit
  <2> QED BY <2>1, <2>2
<1>13. CASE FeedSamples \/ Tasks \/ MonitorTimer
  BY <1>0, <1>13 DEF FeedSamples, Tasks, TaskSubmit, TaskComplete, TaskReturn, MonitorTimer
<1>14. CASE Monitor
  <2>1. CASE MonitorTick
    BY <1>0, <2>1 DEF MonitorTick, MonitorTop, NotifyProcessor
  <2>2. CASE MonitorBlock
    BY <1>0, <2>2 DEF MonitorBlock
  <2>3. CASE MonitorUnpause
    BY <1>0, <2>3 DEF MonitorUnpause, MonitorTop, NotifyProcessor
  <2>4. CASE MonitorLook
    BY <1>0, <2>4 DEF MonitorLook, MonitorTop
  <2> QED BY <1>14, <2>1, <2>2, <2>3, <2>4 DEF Monitor
<1>15. CASE MainCoroutine \/ MainSignal
  <2>1. CASE MainWake \/ MainBlock \/ MainSignal
    BY <1>0, <2>1 DEF MainWake, MainBlock, MainSignal
  <2>2. CASE MainStop
    BY <1>0, <2>2 DEF MainStop
  <2> QED BY <1>15, <2>1, <2>2 DEF MainCoroutine
<1>16. CASE SyncBlock \/ UpdateEnd
  BY <1>0, <1>16 DEF SyncBlock, UpdateEnd
<1>17. CASE PauseBegin \/ PauseCancelled
  <2>1. CASE PauseBegin
    BY <1>0, <2>1 DEF PauseBegin, GatherTasks
  <2>2. CASE PauseCancelled
    BY <1>0, <2>2 DEF PauseCancelled, GatherTasks
  <2> QED BY <1>17, <2>1, <2>2
<1>18. CASE PauseGathered \/ PauseEnd
  BY <1>0, <1>18 DEF PauseGathered, PauseEnd
<1>19. CASE UpdateBegin
  BY <1>0, <1>19, <1>a DEF UpdateBegin
<1>20. CASE UpdateCounted
  BY <1>0, <1>20 DEF UpdateCounted
<1>21. CASE ResumeServers \/ ResumeEnd
  BY <1>0, <1>21 DEF ResumeServers, ResumeEnd, ResumeEffect, NotifyProcessor
<1>22. CASE Replies /\ ~MainSignal
  <2>1. CASE CallArrives \/ ServersReset \/ QueuePublishes
    BY <1>0, <2>1 DEF CallArrives, ServersReset, QueuePublishes
  <2>2. CASE ServersCancel \/ ServersResume
    BY <1>0, <2>2 DEF ServersCancel, ServersResume
  <2>3. CASE QueueCounts
    BY <1>0, <2>3, <1>a DEF QueueCounts
  <2> QED BY <1>22, <2>1, <2>2, <2>3 DEF Replies
<1>23. CASE \E s \in Samples : Generation(s) \/ ServerError(s)
  BY <1>0, <1>23 DEF Generation, ServerAdmit, ServerAnswer, ServerError, QueuePut
<1>24. CASE Trainer \/ Transfer \/ MainClear \/ UNCHANGED vars
  <2>1. UNCHANGED <<procVars, flagVars, monitor, main, recount, server_paused>>
        /\ sync' \in {sync, "pauseSent", "transfer", "updateSent"}
    BY <1>24 DEF Trainer, TrainerLog, TrainerGet, TrainerStep, SyncWeights, FinalLog,
       FinalDecide, FinalValidLog, Transfer, TransferBegin, TransferEnd, MainClear, vars,
       rollVars
  <2>2. \/ UNCHANGED current_param_version
    BY <2>1
  <2> QED BY <1>0, <2>1
<1> QED
  BY <1>1, <1>2, <1>3, <1>4, <1>5, <1>6, <1>7, <1>8, <1>9, <1>10, <1>11, <1>12, <1>13,
     <1>14, <1>15, <1>16, <1>17, <1>18, <1>19, <1>20, <1>21, <1>22, <1>23, <1>24
  DEF Next, Rollout, RollNext, EventLoop, Processor, SyncCalls, Terminated

(* A flag is left alone or set. *)
SetOrKept(old, new) == new = old \/ new = TRUE \/ new = FALSE

(* The flags' part.                                                        *)
LEMMA FlagTypesStep == FlagTypes /\ [Next]_vars => FlagTypes'
<1> SUFFICES ASSUME FlagTypes, [Next]_vars
             PROVE  FlagTypes'
  OBVIOUS
<1> DEFINE Kept == /\ SetOrKept(done_bound, done_bound') /\ SetOrKept(paused, paused')
                   /\ SetOrKept(running, running')
                   /\ SetOrKept(monitor_loop_trigger, monitor_loop_trigger')
                   /\ SetOrKept(server_paused, server_paused')
<1>1. \A old \in BOOLEAN : \A new : SetOrKept(old, new) => new \in BOOLEAN
  BY DEF SetOrKept
<1>2. Kept
  <2> USE DEF SetOrKept, procVars, flagVars, serverVars
  <2>1. CASE Processor
    BY <2>1 DEF Processor, ProcCheck, ProcBlock, ProcSetPaused, ProcLoopDone,
       ProcCollectBegin, ProcCollect, ProcCollectNothing, ProcIdle, TakeCancelled,
       TakePending, TakeWait, ProcSubmit
  <2>2. CASE FeedSamples \/ Tasks \/ MonitorTimer \/ Monitor
    BY <2>2 DEF FeedSamples, Tasks, TaskSubmit, TaskComplete, TaskReturn, MonitorTimer,
       Monitor, MonitorTick, MonitorBlock, MonitorUnpause, MonitorLook
  <2>3. CASE MainCoroutine \/ SyncCalls
    BY <2>3 DEF MainCoroutine, MainWake, MainBlock, MainStop, SyncCalls, SyncBlock,
       PauseBegin, PauseCancelled, PauseGathered, PauseEnd, UpdateBegin, UpdateCounted,
       UpdateEnd, ResumeServers, ResumeEnd, ResumeEffect
  <2>4. CASE Replies
    BY <2>4 DEF Replies, MainSignal, CallArrives, ServersCancel, ServersReset,
       QueueCounts, QueuePublishes, ServersResume
  <2>5. CASE \E s \in Samples : Generation(s) \/ ServerError(s)
    BY <2>5 DEF Generation, ServerAdmit, ServerAnswer, ServerError, QueuePut
  <2>6. CASE Trainer \/ Transfer \/ MainClear \/ UNCHANGED vars
    BY <2>6 DEF Trainer, TrainerLog, TrainerGet, TrainerStep, SyncWeights, FinalLog,
       FinalDecide, FinalValidLog, Transfer, TransferBegin, TransferEnd, MainClear, vars,
       rollVars
  <2> QED
    BY <2>1, <2>2, <2>3, <2>4, <2>5, <2>6
    DEF Next, Rollout, RollNext, EventLoop, Terminated
<1> QED BY <1>1, <1>2 DEF FlagTypes

(* The trainer's part.                                                     *)
LEMMA TrainerTypesStep == VersionsInv /\ TypeInv /\ [Next]_vars => TrainerTypes'
<1> SUFFICES ASSUME VersionsInv, TypeInv, [Next]_vars
             PROVE  TrainerTypes'
  OBVIOUS
<1>0. /\ trainer \in TrainerState /\ local_trigger_step \in 1..Trigger
      /\ batch \in Seq(Samples) /\ trained \subseteq Samples
      /\ made_by \in [Samples -> SUBSET (0..trainer_version)]
  BY DEF TypeInv, TrainerTypes
<1>1. weights \in 0..trainer_version /\ trainer_version \in Nat
  BY DEF VersionsInv, VersionsAtPhase, TrainerAhead
<1>2. ASSUME UNCHANGED <<trainer_version, local_trigger_step, batch, trained, made_by>>,
             trainer' \in TrainerState
      PROVE  TrainerTypes'
  BY <1>0, <1>2 DEF TrainerTypes
<1>3. CASE Rollout
  <2>1. UNCHANGED <<trainer, trainer_version, local_trigger_step, batch, trained>>
    BY <1>3 DEF Rollout, trainerVars
  <2>2. CASE \E s \in Samples : ServerAdmit(s) \/ ServerAnswer(s)
    <3>1. PICK s \in Samples : made_by' \in {made_by, [made_by EXCEPT ![s] = @ \cup {weights}]}
      BY <2>2 DEF ServerAdmit, ServerAnswer
    <3>2. made_by' \in [Samples -> SUBSET (0..trainer_version)]
      <4>1. made_by[s] \cup {weights} \in SUBSET (0..trainer_version)
        BY <1>0, <1>1
      <4> QED BY <1>0, <3>1, <4>1
    <3> QED BY <1>0, <2>1, <3>2 DEF TrainerTypes
  <2>3. CASE UNCHANGED made_by
    BY <1>0, <1>2, <2>1, <2>3
  <2> USE DEF histVars
  <2>4. CASE EventLoop
    <3>1. UNCHANGED made_by
      BY <2>4 DEF EventLoop, FeedSamples, Processor, ProcCheck, ProcBlock, ProcSetPaused,
         ProcLoopDone, ProcCollectBegin, ProcCollect, ProcCollectNothing, ProcIdle,
         TakeCancelled, TakePending, TakeWait, ProcSubmit, Tasks, TaskSubmit,
         TaskComplete, TaskReturn, Monitor, MonitorTick, MonitorBlock, MonitorUnpause,
         MonitorLook, MainCoroutine, MainWake, MainBlock, MainStop, SyncCalls, SyncBlock,
         PauseBegin, PauseCancelled, PauseGathered, PauseEnd, UpdateBegin, UpdateCounted,
         UpdateEnd, ResumeServers, ResumeEnd, ResumeEffect
    <3> QED BY <2>3, <3>1
  <2>5. CASE MonitorTimer \/ Replies \/ \E s \in Samples : QueuePut(s) \/ ServerError(s)
    <3>1. UNCHANGED made_by
      BY <2>5 DEF MonitorTimer, Replies, MainSignal, CallArrives, ServersCancel,
         ServersReset, QueueCounts, QueuePublishes, ServersResume, QueuePut, ServerError
    <3> QED BY <2>3, <3>1
  <2> QED BY <1>3, <2>2, <2>4, <2>5 DEF Rollout, RollNext, Generation
<1> USE DEF rollVars, histVars
<1>4. CASE \E from, to \in TrainerState : TrainerLog(from, to)
  BY <1>2, <1>4 DEF TrainerLog
<1>5. CASE TrainerGet
  <2>1. /\ UNCHANGED <<trainer_version, local_trigger_step, trained, made_by>>
        /\ UNCHANGED <<trainer, batch>> \/ (queue # <<>> /\ Receive)
    BY <1>5 DEF TrainerGet
  <2>2. CASE UNCHANGED <<trainer, batch>>
    BY <1>0, <1>2, <2>1, <2>2
  <2>3. CASE queue # <<>> /\ Receive
    <3>1. Head(queue) \in Payload
      BY <2>3, QueueTyped DEF TypeInv, MessageTypes
    <3>2. CASE Head(queue) = STOP
      BY <1>2, <2>1, <2>3, <3>2 DEF Receive, TrainerState
    <3>3. CASE Head(queue) # STOP
      <4>1. Head(queue) \in Samples /\ batch' = Append(batch, Head(queue))
        BY <2>3, <3>1, <3>3, Constants DEF Receive
      <4>2. trainer' \in TrainerState
        BY <2>3, <3>3 DEF Receive, TrainerState
      <4>3. batch' \in Seq(Samples)
        BY <1>0, <4>1
      <4> QED BY <1>0, <2>1, <4>2, <4>3 DEF TrainerTypes
    <3> QED BY <3>2, <3>3
  <2> QED BY <2>1, <2>2, <2>3
<1>6. CASE TrainerStep
  <2>1. /\ trained' = trained \cup ToSet(batch) /\ batch' = <<>> /\ UNCHANGED made_by
        /\ trainer' \in TrainerState
    BY <1>6 DEF TrainerStep, TrainerState
  <2>2. trained' \subseteq Samples /\ batch' \in Seq(Samples)
    BY <1>0, <2>1 DEF ToSet
  <2>3. /\ local_trigger_step' \in 1..Trigger
        /\ trainer_version' \in {trainer_version, trainer_version + 1}
    BY <1>0, <1>6, Constants DEF TrainerStep, SyncDue
  <2>4. 0..trainer_version \subseteq 0..trainer_version'
    BY <1>1, <2>3
  <2>5. made_by' \in [Samples -> SUBSET (0..trainer_version')]
    BY <1>0, <2>1, <2>4
  <2> QED BY <2>1, <2>2, <2>3, <2>5 DEF TrainerTypes
<1>7. CASE \E from, to \in TrainerState : SyncWeights(from, to)
  BY <1>2, <1>7 DEF SyncWeights
<1>8. CASE FinalDecide
  <2>1. /\ UNCHANGED <<batch, trained, made_by>>
        /\ trainer' \in TrainerState
    BY <1>8 DEF FinalDecide, TrainerState
  <2>3. /\ local_trigger_step' \in 1..Trigger
        /\ trainer_version' \in {trainer_version, trainer_version + 1}
    BY <1>0, <1>8, Constants DEF FinalDecide
  <2>4. 0..trainer_version \subseteq 0..trainer_version'
    BY <1>1, <2>3
  <2>5. made_by' \in [Samples -> SUBSET (0..trainer_version')]
    BY <1>0, <2>1, <2>4
  <2> QED BY <1>0, <2>1, <2>3, <2>5 DEF TrainerTypes
<1>9. CASE Transfer
  BY <1>0, <1>2, <1>9 DEF Transfer, TransferBegin, TransferEnd, TrainerState, trainerVars
<1>10. CASE MainClear \/ UNCHANGED vars
  BY <1>0, <1>2, <1>10 DEF MainClear, vars, trainerVars
<1>11. Trainer => \/ \E from, to \in TrainerState : TrainerLog(from, to) \/ SyncWeights(from, to)
                  \/ TrainerGet \/ TrainerStep \/ FinalDecide
  BY DEF Trainer, FinalLog, FinalValidLog, TrainerState
<1> QED
  BY <1>3, <1>4, <1>5, <1>6, <1>7, <1>8, <1>9, <1>10, <1>11 DEF Next, Terminated

LEMMA TypeInvStep == VersionsInv /\ TypeInv /\ [Next]_vars => TypeInv'
  BY MessageTypesStep, SampleTypesStep, ControlTypesStep, FlagTypesStep, TrainerTypesStep
  DEF TypeInv

-----------------------------------------------------------------------------
(* The event loop and its lock.                                            *)
Lockers == {Proc, Mon, Main, Sync}

(* q are the coroutines that asked for the lock and did not enter yet, h   *)
(* those that suspended inside their section.                              *)
LockInv(q, h) ==
  /\ Line(ready, Coroutines) /\ Line(waiters, Coroutines)
  /\ ToSet(ready) \cap ToSet(waiters) = {}
  /\ q \subseteq Lockers /\ h \subseteq Lockers /\ q \cap h = {}
  /\ ToSet(waiters) = q \ {owner}
  /\ h \subseteq {owner}
  /\ owner = Nobody \/ owner \in h \/ owner \in q \cap ToSet(ready)
  /\ LockFree => waiters = <<>>

(* Who uses the lock.                                                      *)
LEMMA LockersAre == /\ Lockers \subseteq Coroutines /\ Nobody \notin Lockers
                    /\ Feeder \notin Lockers
                    /\ \A s \in Samples : Task(s) \notin Lockers
  BY Names DEF Lockers

(* A coroutine that waits for something outside the loop is woken. *)
LEMMA Wakes ==
  ASSUME NEW q, NEW h, LockInv(q, h), NEW c \in Coroutines,
         c \notin ToSet(ready), c \notin ToSet(waiters), Arrive(c),
         UNCHANGED <<owner, waiters>>
  PROVE  /\ Line(ready', Coroutines) /\ ToSet(ready') = ToSet(ready) \cup {c}
         /\ ToSet(ready') \cap ToSet(waiters') = {}
<1>1. Line(ready, Coroutines) /\ ready' = Append(ready, c) /\ waiters' = waiters
      /\ ToSet(ready) \cap ToSet(waiters) = {}
  BY DEF LockInv, Arrive
<1>2. Line(ready', Coroutines) /\ ToSet(ready') = ToSet(ready) \cup {c}
  BY <1>1, LongerLine
<1> QED BY <1>1, <1>2

(* The running coroutine leaves the loop and wakes those of v.             *)
LEMMA Yields ==
  ASSUME Line(ready, Coroutines), NEW v, Line(v, Coroutines), NEW c, Running(c),
         Yield(v), ToSet(v) \cap (ToSet(ready) \ {c}) = {}
  PROVE  /\ Line(ready', Coroutines) /\ c \in ToSet(ready)
         /\ ToSet(ready') = (ToSet(ready) \ {c}) \cup ToSet(v)
<1>1. ready # <<>> /\ Head(ready) = c
  BY DEF Running
<1>2. /\ Line(Tail(ready), Coroutines) /\ ToSet(Tail(ready)) = ToSet(ready) \ {c}
      /\ c \in ToSet(ready)
  BY <1>1, ShorterLine
<1>3. ready' = Tail(ready) \o v /\ ToSet(Tail(ready)) \cap ToSet(v) = {}
  BY <1>2 DEF Yield
<1>4. /\ Line(Tail(ready) \o v, Coroutines)
      /\ ToSet(Tail(ready) \o v) = ToSet(Tail(ready)) \cup ToSet(v)
  BY <1>2, <1>3, JoinedCoroutines
<1> QED BY <1>2, <1>3, <1>4

(* It stays the head of the loop. *)
LEMMA Continues ==
  ASSUME Line(ready, Coroutines), NEW v, Line(v, Coroutines), NEW c, Running(c),
         Continue(v), ToSet(v) \cap ToSet(ready) = {}
  PROVE  /\ Line(ready', Coroutines) /\ c \in ToSet(ready)
         /\ ToSet(ready') = ToSet(ready) \cup ToSet(v)
<1>1. ready # <<>> /\ Head(ready) = c
  BY DEF Running
<1>2. c \in ToSet(ready)
  BY <1>1, ShorterLine
<1>3. ready' = ready \o v /\ ToSet(ready) \cap ToSet(v) = {}
  BY DEF Continue
<1>4. /\ Line(ready \o v, Coroutines) /\ ToSet(ready \o v) = ToSet(ready) \cup ToSet(v)
  BY <1>3, JoinedCoroutines
<1> QED BY <1>2, <1>3, <1>4

(* A coroutine queues for the lock. *)
LEMMA Enqueues ==
  ASSUME NEW q, NEW h, LockInv(q, h), NEW c \in Lockers, c \notin q \cup h, Running(c),
         Enqueue(c), NEW p, p = q \cup {c}
  PROVE  /\ ToSet(ready') = ToSet(ready) \ {c} /\ Line(ready', Coroutines)
         /\ Line(waiters', Coroutines) /\ ToSet(waiters') = p \ {owner'}
         /\ owner' = owner /\ owner # Nobody /\ c \in ToSet(ready)
         /\ ToSet(ready') \cap ToSet(waiters') = {}
         /\ owner' \in h \/ owner' \in p \cap ToSet(ready')
<1>1. /\ owner # Nobody /\ owner' = owner /\ waiters' = Append(waiters, c) /\ Yield(<<>>)
  BY DEF Enqueue, LockFree
<1>2. /\ Line(ready', Coroutines) /\ c \in ToSet(ready)
      /\ ToSet(ready') = ToSet(ready) \ {c}
  BY <1>1, Yields, EmptyLine DEF LockInv
<1>3. c \notin ToSet(waiters)
  BY <1>2 DEF LockInv
<1>4. Line(waiters', Coroutines) /\ ToSet(waiters') = ToSet(waiters) \cup {c}
  BY <1>1, <1>3, LongerLine, LockersAre DEF LockInv
<1> QED BY <1>1, <1>2, <1>3, <1>4 DEF LockInv

(* Who has the lock, or finds it free, enters a section and keeps it. *)
LEMMA Holds ==
  ASSUME NEW q, NEW h, LockInv(q, h), NEW c \in Lockers, Hold(c),
         owner = c \/ LockFree,
         Line(ready', Coroutines), ToSet(ready') \cap ToSet(waiters) = {}
  PROVE  /\ owner' = c /\ Line(waiters', Coroutines) /\ ToSet(waiters') = (q \ {c}) \ {owner'}
         /\ waiters' = waiters /\ h \subseteq {c}
         /\ ToSet(ready') \cap ToSet(waiters') = {}
<1>1. owner' = c /\ waiters' = waiters
  BY DEF Hold
<1>2. c # Nobody
  BY LockersAre
<1>3. CASE owner = c
  BY <1>1, <1>3 DEF LockInv
<1>4. CASE LockFree
  <2>1. waiters = <<>> /\ owner = Nobody
    BY <1>4 DEF LockInv, LockFree
  <2>2. q = {} /\ h = {}
    BY <2>1, LockersAre, EmptyLine DEF LockInv
  <2> QED BY <1>1, <2>1, <2>2, EmptyLine DEF LockInv
<1> QED BY <1>3, <1>4

(* Whom a release grants the lock: the first that waits.                   *)
LEMMA GrantedFacts ==
  ASSUME NEW q, NEW h, LockInv(q, h)
  PROVE  /\ Line(Granted, Coroutines) /\ ToSet(Granted) \subseteq q \ {owner}
         /\ ToSet(Granted) \cap ToSet(ready) = {}
         /\ ToSet(Granted) \subseteq ToSet(waiters)
<1>1. CASE waiters = <<>>
  BY <1>1, EmptyLine DEF Granted
<1>2. CASE waiters # <<>>
  <2>1. Head(waiters) \in Coroutines /\ Head(waiters) \in ToSet(waiters)
    BY <1>2, ShorterLine DEF LockInv
  <2>2. Line(Granted, Coroutines) /\ ToSet(Granted) = {Head(waiters)}
    BY <1>2, <2>1, OneLine DEF Granted
  <2> QED BY <2>1, <2>2 DEF LockInv
<1> QED BY <1>1, <1>2

(* A section ends: the first waiter gets the lock and is woken. *)
LEMMA Releases ==
  ASSUME NEW q, NEW h, LockInv(q, h), NEW c \in Lockers, Release,
         owner = c \/ (LockFree /\ c \notin q \cup h),
         Line(ready', Coroutines), ToSet(Granted) \subseteq ToSet(ready'),
         ToSet(ready') \cap ToSet(waiters) \subseteq ToSet(Granted)
  PROVE  /\ Line(waiters', Coroutines) /\ ToSet(waiters') = (q \ {c}) \ {owner'}
         /\ ToSet(ready') \cap ToSet(waiters') = {}
         /\ h \ {c} = {}
         /\ owner' = Nobody \/ owner' \in (q \ {c}) \cap ToSet(ready')
         /\ owner' = Nobody => waiters' = <<>>
<1>1. ToSet(waiters) = q \ {c} /\ h \ {c} = {} /\ (owner # c => waiters = <<>>)
  <2>1. CASE owner = c
    BY <2>1 DEF LockInv
  <2>2. CASE LockFree /\ c \notin q \cup h
    <3>1. owner = Nobody /\ waiters = <<>>
      BY <2>2 DEF LockInv, LockFree
    <3> QED BY <2>2, <3>1, LockersAre DEF LockInv
  <2> QED BY <2>1, <2>2
<1>2. CASE waiters = <<>>
  <2>1. owner' = Nobody /\ waiters' = <<>>
    BY <1>2 DEF Release
  <2>2. ToSet(waiters) = {}
    BY <1>2, EmptyLine
  <2> QED BY <1>1, <1>2, <2>1, <2>2, EmptyLine, LockersAre
<1>3. CASE waiters # <<>>
  <2>1. owner' = Head(waiters) /\ waiters' = Tail(waiters)
    BY <1>3 DEF Release
  <2>2. /\ Line(waiters', Coroutines) /\ ToSet(waiters') = ToSet(waiters) \ {owner'}
        /\ owner' \in ToSet(waiters)
    BY <1>3, <2>1, ShorterLine DEF LockInv
  <2>3. ToSet(Granted) = {owner'}
    BY <1>3, <2>1, <2>2, OneLine DEF Granted, LockInv
  <2>4. owner' # Nobody
    BY <2>2, LockersAre DEF LockInv
  <2> QED BY <1>1, <2>2, <2>3, <2>4
<1> QED BY <1>2, <1>3

Queuing ==
  {c \in Lockers : \/ c = Proc /\ pmode = "lock"
                   \/ c = Mon  /\ monitor \in {"unpause", "top"}
                   \/ c = Main /\ main = "locking"
                   \/ c = Sync /\ sync \in {"pauseLock", "updateLock", "resumeLock"}}

Inside == {"cancelSent", "cancel", "gathering", "resetSent", "reset", "countSent", "count",
           "publishSent", "publish", "restartSent", "restart"}
Holding ==
  {c \in Lockers : \/ c = Proc /\ pmode = "wait"
                   \/ c = Sync /\ sync \in Inside}

(* Where a coroutine waits for something outside the loop, or for nothing. *)
Away == {"idle", "pauseSent", "cancelSent", "resetSent", "paused", "transfer",
         "updateSent", "countSent", "publishSent", "resumeSent", "restartSent"}
Awake == {"created", "complete", "cut", "error", "put"}
Resting ==
  /\ Proc \in ToSet(ready) => pmode \notin {"cond", "stop"}
  /\ Main \in ToSet(ready) => pmode = "stop" /\ main \notin {"signalling", "exited"}
  /\ pmode # "stop" => main = "streaming"
  /\ Sync \in ToSet(ready) => sync \notin Away
  /\ sync = "gathering" => (Sync \in ToSet(ready) <=> active = {})
  /\ \A s \in Samples : Task(s) \in ToSet(ready) => task[s] \in Awake
  /\ \A s \in Samples : s \in active <=> task[s] # "none"

LoopInv == LockInv(Queuing, Holding) /\ Resting

(* Who is in which of the two sets.                                        *)
LEMMA LockersIn ==
  /\ Proc \in Queuing <=> pmode = "lock"
  /\ Mon \in Queuing <=> monitor \in {"unpause", "top"}
  /\ Main \in Queuing <=> main = "locking"
  /\ Sync \in Queuing <=> sync \in {"pauseLock", "updateLock", "resumeLock"}
  /\ Proc \in Holding <=> pmode = "wait"
  /\ Sync \in Holding <=> sync \in Inside
  /\ Mon \notin Holding /\ Main \notin Holding
  /\ Queuing \subseteq Lockers /\ Holding \subseteq Lockers
<1>1. /\ Proc # Mon /\ Proc # Main /\ Proc # Sync /\ Mon # Main /\ Mon # Sync /\ Main # Sync
  BY Names
<1>2. /\ Proc \in Queuing <=> pmode = "lock"
      /\ Mon \in Queuing <=> monitor \in {"unpause", "top"}
      /\ Main \in Queuing <=> main = "locking"
      /\ Sync \in Queuing <=> sync \in {"pauseLock", "updateLock", "resumeLock"}
  BY <1>1 DEF Queuing, Lockers
<1>3. /\ Proc \in Holding <=> pmode = "wait"
      /\ Sync \in Holding <=> sync \in Inside
      /\ Mon \notin Holding /\ Main \notin Holding
  BY <1>1 DEF Holding, Lockers
<1>4. Queuing \subseteq Lockers /\ Holding \subseteq Lockers
  BY DEF Queuing, Holding
<1> QED BY <1>2, <1>3, <1>4

(* Steps outside the loop: a coroutine that waits for them is woken. *)
LEMMA ArriveSteps ==
  ASSUME LoopInv, TypeInv, NEW c \in Coroutines, Arrive(c), UNCHANGED <<owner, waiters>>,
         c \notin ToSet(ready), c \notin Queuing,
         UNCHANGED <<Queuing, Holding>>
  PROVE  LockInv(Queuing, Holding)' /\ ToSet(ready') = ToSet(ready) \cup {c}
<1>1. LockInv(Queuing, Holding) /\ c \notin ToSet(waiters)
  BY DEF LoopInv, LockInv
<1>2. /\ Line(ready', Coroutines) /\ ToSet(ready') = ToSet(ready) \cup {c}
      /\ ToSet(ready') \cap ToSet(waiters') = {}
  BY <1>1, Wakes
<1> QED BY <1>1, <1>2 DEF LockInv, LockFree

(* The replies to a task.                                                  *)
LEMMA ServerSteps ==
  ASSUME LoopInv, TypeInv, NEW s \in Samples,
         ServerAdmit(s) \/ ServerAnswer(s) \/ ServerError(s) \/ QueuePut(s)
  PROVE  LoopInv'
<1> USE DEF procVars, syncVars
<1>1. /\ UNCHANGED <<owner, waiters, pmode, monitor, main, sync, active>>
      /\ task \in [Samples -> TaskState]
      /\ task[s] \in {"requested", "generating", "putting"}
      /\ \E t \in {"cut", "generating", "complete", "error", "put"} :
           /\ task' = [task EXCEPT ![s] = t]
           /\ IF t = "generating" THEN UNCHANGED ready ELSE Arrive(Task(s))
  BY DEF ServerAdmit, ServerAnswer, ServerError, QueuePut, TypeInv, SampleTypes
<1>2. PICK t \in {"cut", "generating", "complete", "error", "put"} :
         /\ task' = [task EXCEPT ![s] = t]
         /\ IF t = "generating" THEN UNCHANGED ready ELSE Arrive(Task(s))
  BY <1>1
<1>3. UNCHANGED <<Queuing, Holding>>
  BY <1>1 DEF Queuing, Holding
<1>4. Task(s) \notin ToSet(ready) /\ Task(s) \notin Queuing /\ Task(s) \in Coroutines
  BY <1>1, LockersAre, LockersIn, Names DEF LoopInv, Resting, Awake
<1>5. CASE t = "generating"
  <2>1. ready' = ready
    BY <1>2, <1>5
  <2>2. LockInv(Queuing, Holding)'
    BY <1>1, <1>3, <2>1 DEF LoopInv, LockInv, LockFree
  <2>3. Resting'
    BY <1>1, <1>2, <1>4, <1>5, <2>1 DEF LoopInv, Resting, Awake
  <2> QED BY <2>2, <2>3 DEF LoopInv
<1>6. CASE t # "generating"
  <2>1. LockInv(Queuing, Holding)' /\ ToSet(ready') = ToSet(ready) \cup {Task(s)}
    BY <1>1, <1>2, <1>3, <1>4, <1>6, ArriveSteps
  <2>2. Resting'
    BY <1>1, <1>2, <1>4, <1>6, <2>1, Names DEF LoopInv, Resting, Awake
  <2> QED BY <2>1, <2>2 DEF LoopInv
<1> QED BY <1>5, <1>6

(* The replies to the other coroutines, and the monitor's timer.           *)
LEMMA CallSteps ==
  ASSUME LoopInv, TypeInv, Replies \/ MonitorTimer
  PROVE  LoopInv'
<1> USE DEF procVars, syncVars, taskVars
<1>1. CASE MonitorTimer
  <2>1. /\ UNCHANGED <<owner, waiters, pmode, monitor, main, sync, active, task>>
        /\ monitor = "sleep" /\ Mon \notin ToSet(ready) /\ Arrive(Mon)
    BY <1>1 DEF MonitorTimer, IsReady
  <2>2. UNCHANGED <<Queuing, Holding>> /\ Mon \notin Queuing
    BY <2>1, LockersIn DEF Queuing, Holding
  <2>3. LockInv(Queuing, Holding)' /\ ToSet(ready') = ToSet(ready) \cup {Mon}
    BY <2>1, <2>2, ArriveSteps, Names
  <2>4. Resting'
    BY <2>1, <2>3, Names DEF LoopInv, Resting
  <2> QED BY <2>3, <2>4 DEF LoopInv
<1>2. CASE MainSignal
  <2>1. /\ UNCHANGED <<owner, waiters, pmode, monitor, sync, active, task>>
        /\ main = "signalling" /\ main' = "signalled" /\ Arrive(Main)
    BY <1>2 DEF MainSignal
  <2>2. UNCHANGED <<Queuing, Holding>> /\ Main \notin Queuing
    BY <2>1, LockersIn DEF Queuing, Holding
  <2>3. Main \notin ToSet(ready)
    BY <2>1 DEF LoopInv, Resting
  <2>4. LockInv(Queuing, Holding)' /\ ToSet(ready') = ToSet(ready) \cup {Main}
    BY <2>1, <2>2, <2>3, ArriveSteps, Names
  <2>5. Resting'
    BY <2>1, <2>4, Names DEF LoopInv, Resting
  <2> QED BY <2>4, <2>5 DEF LoopInv
<1>3. CASE Replies /\ ~MainSignal
  <2>1. /\ UNCHANGED <<owner, waiters, pmode, monitor, main, active, task>>
        /\ Arrive(Sync)
        /\ sync \in {"pauseSent", "updateSent", "resumeSent"} =>
             sync' \in {"pause", "update", "resume"}
        /\ sync \in Inside <=> sync' \in Inside
        /\ sync \in Away /\ sync' \notin Away /\ sync' # "gathering"
        /\ sync' \notin {"pauseLock", "updateLock", "resumeLock"}
    BY <1>3 DEF Replies, CallArrives, ServersCancel, ServersReset, QueueCounts,
       QueuePublishes, ServersResume, Inside, Away
  <2>2. UNCHANGED <<Queuing, Holding>> /\ Sync \notin Queuing
    BY <2>1, LockersIn DEF Queuing, Holding, Away
  <2>3. Sync \notin ToSet(ready)
    BY <2>1 DEF LoopInv, Resting
  <2>4. LockInv(Queuing, Holding)' /\ ToSet(ready') = ToSet(ready) \cup {Sync}
    BY <2>1, <2>2, <2>3, ArriveSteps, Names
  <2>5. Resting'
    BY <2>1, <2>4, Names DEF LoopInv, Resting
  <2> QED BY <2>4, <2>5 DEF LoopInv
<1> QED BY <1>1, <1>2, <1>3

(* The running coroutine suspends without the lock, or inside its section. *)
LEMMA YieldSteps ==
  ASSUME LoopInv, NEW c, Running(c), NEW v, Line(v, Coroutines), Yield(v),
         c \notin Queuing, ToSet(v) \cap (ToSet(ready) \ {c}) = {},
         ToSet(v) \cap Queuing = {},
         UNCHANGED <<owner, waiters, Queuing, Holding>>
  PROVE  /\ LockInv(Queuing, Holding)' /\ c \in ToSet(ready)
         /\ ToSet(ready') = (ToSet(ready) \ {c}) \cup ToSet(v)
<1>1. LockInv(Queuing, Holding)
  BY DEF LoopInv
<1>2. /\ Line(ready', Coroutines) /\ c \in ToSet(ready)
      /\ ToSet(ready') = (ToSet(ready) \ {c}) \cup ToSet(v)
  BY <1>1, Yields DEF LockInv
<1>3. ToSet(waiters) \subseteq Queuing /\ waiters' = waiters
  BY <1>1 DEF LockInv
<1> QED BY <1>1, <1>2, <1>3 DEF LockInv, LockFree

(* A step of the running coroutine that goes on without suspending.        *)
LEMMA ContinueSteps ==
  ASSUME LoopInv, NEW c, Running(c), NEW v, Line(v, Coroutines), Continue(v),
         ToSet(v) \cap ToSet(ready) = {}, ToSet(v) \cap Queuing = {},
         UNCHANGED <<owner, waiters, Queuing, Holding>>
  PROVE  /\ LockInv(Queuing, Holding)' /\ c \in ToSet(ready)
         /\ ToSet(ready') = ToSet(ready) \cup ToSet(v)
<1>1. LockInv(Queuing, Holding)
  BY DEF LoopInv
<1>2. /\ Line(ready', Coroutines) /\ c \in ToSet(ready)
      /\ ToSet(ready') = ToSet(ready) \cup ToSet(v)
  BY <1>1, Continues DEF LockInv
<1>3. ToSet(waiters) \subseteq Queuing /\ waiters' = waiters
  BY <1>1 DEF LockInv
<1> QED BY <1>1, <1>2, <1>3 DEF LockInv, LockFree

(* The running coroutine does not wait for the lock.                       *)
LEMMA RunningIsReady ==
  ASSUME LoopInv, NEW c, Running(c)
  PROVE  c \in ToSet(ready) /\ c \notin ToSet(waiters)
<1>1. Line(ready, Coroutines) /\ ready # <<>> /\ Head(ready) = c
  BY DEF LoopInv, LockInv, Running
<1>2. c \in ToSet(ready)
  BY <1>1, ShorterLine
<1> QED BY <1>2 DEF LoopInv, LockInv

(* The feeder and the tasks. *)
LEMMA TaskSteps ==
  ASSUME LoopInv, TypeInv, FeedSamples \/ Tasks
  PROVE  LoopInv'
<1> USE DEF procVars, syncVars, taskVars
<1>0. task \in [Samples -> TaskState] /\ active \subseteq Samples
  BY DEF TypeInv, SampleTypes
<1>1. CASE FeedSamples
  <2>1. PICK v \in {<<>>, <<Proc>>} :
           /\ Yield(v)
           /\ v = <<Proc>> => pmode = "get" /\ Proc \notin ToSet(ready)
    BY <1>1 DEF FeedSamples, IsReady
  <2>2. /\ UNCHANGED <<owner, waiters, pmode, monitor, main, sync, active, task>>
        /\ Running(Feeder)
    BY <1>1 DEF FeedSamples
  <2>3. UNCHANGED <<Queuing, Holding>>
    BY <2>2 DEF Queuing, Holding
  <2>4. Feeder \notin Queuing /\ (pmode = "get" => Proc \notin Queuing)
    BY LockersIn, LockersAre
  <2>5. Line(v, Coroutines) /\ ToSet(v) \cap ToSet(ready) = {} /\ ToSet(v) \cap Queuing = {}
        /\ ToSet(v) \subseteq {Proc} /\ (v # <<>> => pmode = "get")
    <3>1. CASE v = <<>>
      BY <3>1, EmptyLine
    <3>2. CASE v = <<Proc>> /\ v # <<>>
      <4>1. Line(v, Coroutines) /\ ToSet(v) = {Proc}
        BY <3>2, Names, OneLine
      <4> QED BY <2>1, <2>4, <3>2, <4>1
    <3> QED BY <2>1, <3>1, <3>2
  <2>6. /\ LockInv(Queuing, Holding)'
        /\ ToSet(ready') = (ToSet(ready) \ {Feeder}) \cup ToSet(v)
    BY <2>1, <2>2, <2>3, <2>4, <2>5, YieldSteps
  <2>7. Resting'
    <3>1. \A c \in ToSet(ready') : c \in ToSet(ready) \/ (c = Proc /\ pmode = "get")
      BY <2>5, <2>6, EmptyLine
    <3>2. Sync \in ToSet(ready') <=> Sync \in ToSet(ready)
      BY <2>5, <2>6, Names
    <3> QED BY <2>2, <3>1, <3>2, Names DEF LoopInv, Resting
  <2> QED BY <2>6, <2>7 DEF LoopInv
<1>2. ASSUME NEW s \in Samples, TaskSubmit(s) \/ TaskComplete(s)
      PROVE  LoopInv'
  <2>1. /\ UNCHANGED <<owner, waiters, pmode, monitor, main, sync, active>>
        /\ Running(Task(s)) /\ Yield(<<>>)
        /\ \E t \in {"requested", "putting"} : task' = [task EXCEPT ![s] = t]
        /\ task[s] # "none"
    BY <1>2 DEF TaskSubmit, TaskComplete
  <2>2. UNCHANGED <<Queuing, Holding>>
    BY <2>1 DEF Queuing, Holding
  <2>3. Task(s) \notin Queuing
    BY LockersIn, LockersAre
  <2>4. LockInv(Queuing, Holding)' /\ ToSet(ready') = ToSet(ready) \ {Task(s)}
    BY <2>1, <2>2, <2>3, EmptyLine, YieldSteps
  <2>5. Resting'
    BY <1>0, <2>1, <2>4, Names DEF LoopInv, Resting
  <2> QED BY <2>4, <2>5 DEF LoopInv
<1>3. ASSUME NEW s \in Samples, TaskReturn(s)
      PROVE  LoopInv'
  <2>1. /\ UNCHANGED <<owner, waiters, pmode, monitor, main, sync>>
        /\ Running(Task(s)) /\ task' = [task EXCEPT ![s] = "none"]
        /\ active' = active \ {s} /\ task[s] # "none"
    BY <1>3 DEF TaskReturn, Finish
  <2>2. PICK v : /\ Yield(v) /\ Line(v, Coroutines)
                 /\ \/ ToSet(v) = {Proc} /\ pmode = "wait" /\ Proc \notin ToSet(ready)
                    \/ ToSet(v) = {Sync} /\ sync = "gathering" /\ active = {s}
                    \/ ToSet(v) = {} /\ (pmode = "wait" \/ sync # "gathering" \/ active # {s})
    <3>1. ToSet(<<>>) = {} /\ Line(<<>>, Coroutines)
      BY EmptyLine
    <3>2. /\ ToSet(<<Proc>>) = {Proc} /\ Line(<<Proc>>, Coroutines)
          /\ ToSet(<<Sync>>) = {Sync} /\ Line(<<Sync>>, Coroutines)
      BY Names, OneLine
    <3>3. \/ Yield(<<Proc>>) /\ pmode = "wait" /\ Proc \notin ToSet(ready)
          \/ Yield(<<Sync>>) /\ sync = "gathering" /\ active = {s}
          \/ Yield(<<>>) /\ (pmode = "wait" \/ sync # "gathering" \/ active # {s})
      BY <1>3 DEF TaskReturn, Finish, IsReady
    <3> QED BY <3>1, <3>2, <3>3
  <2>3. UNCHANGED <<Queuing, Holding>>
    BY <2>1 DEF Queuing, Holding
  <2>4. Task(s) \notin Queuing /\ (pmode = "wait" => Proc \notin Queuing)
        /\ (sync = "gathering" => Sync \notin Queuing)
    BY LockersIn, LockersAre
  <2>5. ~(pmode = "wait" /\ sync = "gathering")
    BY LockersIn, Names DEF LoopInv, LockInv, Inside
  <2>6. sync = "gathering" /\ active = {s} => Sync \notin ToSet(ready)
    BY DEF LoopInv, Resting
  <2>7. ToSet(v) \cap ToSet(ready) = {} /\ ToSet(v) \cap Queuing = {}
    BY <2>2, <2>4, <2>6
  <2>8. /\ LockInv(Queuing, Holding)'
        /\ ToSet(ready') = (ToSet(ready) \ {Task(s)}) \cup ToSet(v)
    BY <2>1, <2>2, <2>3, <2>4, <2>7, YieldSteps
  <2>9. s \in active /\ (active' = {} <=> active = {s})
    BY <1>0, <2>1 DEF LoopInv, Resting
  <2>10. Resting'
    <3>1. CASE ToSet(v) = {} /\ (pmode = "wait" \/ sync # "gathering" \/ active # {s})
      BY <1>0, <2>1, <2>5, <2>8, <2>9, <3>1, Names DEF LoopInv, Resting
    <3>2. CASE ToSet(v) = {Proc} /\ pmode = "wait" /\ Proc \notin ToSet(ready)
      BY <1>0, <2>1, <2>5, <2>8, <2>9, <3>2, Names DEF LoopInv, Resting
    <3>3. CASE ToSet(v) = {Sync} /\ sync = "gathering" /\ active = {s}
      BY <1>0, <2>1, <2>5, <2>8, <2>9, <3>3, Names DEF LoopInv, Resting, Away
    <3> QED BY <2>2, <3>1, <3>2, <3>3
  <2> QED BY <2>8, <2>10 DEF LoopInv
<1> QED BY <1>1, <1>2, <1>3 DEF Tasks

(* A coroutine that runs after it asked for the lock was granted it. *)
LEMMA OwnerRuns ==
  ASSUME LoopInv, NEW c, Running(c), c \in Queuing \/ c \in Holding
  PROVE  owner = c
<1>1. c \notin ToSet(waiters)
  BY RunningIsReady
<1> QED BY <1>1 DEF LoopInv, LockInv

(* Who is granted the lock was waiting for it. *)
LEMMA GrantedRest ==
  ASSUME LoopInv
  PROVE  /\ Line(Granted, Coroutines) /\ ToSet(Granted) \cap ToSet(ready) = {}
         /\ ToSet(Granted) \subseteq Queuing /\ ToSet(Granted) \subseteq ToSet(waiters)
         /\ Proc \in ToSet(Granted) => pmode = "lock"
         /\ Mon \in ToSet(Granted) => monitor \in {"unpause", "top"}
         /\ Main \in ToSet(Granted) => main = "locking" /\ pmode = "stop"
         /\ Sync \in ToSet(Granted) => sync \in {"pauseLock", "updateLock", "resumeLock"}
         /\ Feeder \notin ToSet(Granted)
         /\ \A s \in Samples : Task(s) \notin ToSet(Granted)
<1>1. /\ Line(Granted, Coroutines) /\ ToSet(Granted) \cap ToSet(ready) = {}
      /\ ToSet(Granted) \subseteq Queuing /\ ToSet(Granted) \subseteq ToSet(waiters)
  BY GrantedFacts DEF LoopInv
<1>2. Feeder \notin ToSet(Granted) /\ \A s \in Samples : Task(s) \notin ToSet(Granted)
  BY <1>1, LockersIn, LockersAre
<1>3. main = "locking" => pmode = "stop"
  BY DEF LoopInv, Resting
<1> QED BY <1>1, <1>2, <1>3, LockersIn

(* It leaves its section and suspends.                                     *)
LEMMA ReleaseYields ==
  ASSUME LoopInv, NEW c \in Lockers, Running(c), Release,
         owner = c \/ (LockFree /\ c \notin Queuing \cup Holding),
         NEW v, Line(v, Coroutines), Yield(v), ToSet(Granted) \subseteq ToSet(v),
         ToSet(v) \cap Queuing \subseteq ToSet(Granted),
         ToSet(v) \cap (ToSet(ready) \ {c}) = {},
         Queuing' = Queuing \ {c}, Holding' = Holding \ {c}
  PROVE  /\ LockInv(Queuing, Holding)'
         /\ ToSet(ready') = (ToSet(ready) \ {c}) \cup ToSet(v)
<1>1. LockInv(Queuing, Holding)
  BY DEF LoopInv
<1>2. /\ Line(ready', Coroutines) /\ ToSet(ready') = (ToSet(ready) \ {c}) \cup ToSet(v)
  BY <1>1, Yields DEF LockInv
<1>3. ToSet(waiters) \subseteq Queuing /\ ToSet(ready) \cap ToSet(waiters) = {}
  BY <1>1 DEF LockInv
<1>4. /\ ToSet(Granted) \subseteq ToSet(ready')
      /\ ToSet(ready') \cap ToSet(waiters) \subseteq ToSet(Granted)
  BY <1>2, <1>3
<1>5. /\ Line(waiters', Coroutines) /\ ToSet(waiters') = (Queuing \ {c}) \ {owner'}
      /\ ToSet(ready') \cap ToSet(waiters') = {}
      /\ Holding \ {c} = {}
      /\ owner' = Nobody \/ owner' \in (Queuing \ {c}) \cap ToSet(ready')
      /\ owner' = Nobody => waiters' = <<>>
  BY <1>1, <1>2, <1>4, Releases
<1> QED BY <1>1, <1>2, <1>5 DEF LockInv, LockFree

(* It leaves its section and goes on.                                      *)
LEMMA ReleaseContinues ==
  ASSUME LoopInv, NEW c \in Lockers, Running(c), Release,
         owner = c \/ (LockFree /\ c \notin Queuing \cup Holding),
         NEW v, Line(v, Coroutines), Continue(v), ToSet(Granted) \subseteq ToSet(v),
         ToSet(v) \cap Queuing \subseteq ToSet(Granted),
         ToSet(v) \cap ToSet(ready) = {},
         Queuing' = Queuing \ {c}, Holding' = Holding \ {c}
  PROVE  /\ LockInv(Queuing, Holding)'
         /\ ToSet(ready') = ToSet(ready) \cup ToSet(v)
<1>1. LockInv(Queuing, Holding)
  BY DEF LoopInv
<1>2. /\ Line(ready', Coroutines) /\ ToSet(ready') = ToSet(ready) \cup ToSet(v)
  BY <1>1, Continues DEF LockInv
<1>3. ToSet(waiters) \subseteq Queuing /\ ToSet(ready) \cap ToSet(waiters) = {}
  BY <1>1 DEF LockInv
<1>4. /\ ToSet(Granted) \subseteq ToSet(ready')
      /\ ToSet(ready') \cap ToSet(waiters) \subseteq ToSet(Granted)
  BY <1>2, <1>3
<1>5. /\ Line(waiters', Coroutines) /\ ToSet(waiters') = (Queuing \ {c}) \ {owner'}
      /\ ToSet(ready') \cap ToSet(waiters') = {}
      /\ Holding \ {c} = {}
      /\ owner' = Nobody \/ owner' \in (Queuing \ {c}) \cap ToSet(ready')
      /\ owner' = Nobody => waiters' = <<>>
  BY <1>1, <1>2, <1>4, Releases
<1> QED BY <1>1, <1>2, <1>5 DEF LockInv, LockFree

(* It asks for a lock somebody holds.                                      *)
LEMMA EnqueueSteps ==
  ASSUME LoopInv, NEW c \in Lockers, Running(c), Enqueue(c), c \notin Queuing \cup Holding,
         Queuing' = Queuing \cup {c}, Holding' = Holding
  PROVE  /\ LockInv(Queuing, Holding)' /\ ToSet(ready') = ToSet(ready) \ {c}
         /\ c \in ToSet(ready)
<1>1. LockInv(Queuing, Holding)
  BY DEF LoopInv
<1>2. /\ ToSet(ready') = ToSet(ready) \ {c} /\ Line(ready', Coroutines)
      /\ Line(waiters', Coroutines) /\ ToSet(waiters') = (Queuing \cup {c}) \ {owner'}
      /\ owner' = owner /\ owner # Nobody /\ c \in ToSet(ready)
      /\ ToSet(ready') \cap ToSet(waiters') = {}
      /\ owner' \in Holding \/ owner' \in (Queuing \cup {c}) \cap ToSet(ready')
  BY <1>1, Enqueues
<1> QED BY <1>1, <1>2 DEF LockInv, LockFree

(* It suspends inside its section.                                         *)
LEMMA HoldSteps ==
  ASSUME LoopInv, NEW c \in Lockers, Running(c), Hold(c), owner = c \/ LockFree,
         NEW v, Line(v, Coroutines), Yield(v), ToSet(v) \subseteq {c},
         Queuing' = Queuing \ {c}, Holding' = {c}
  PROVE  /\ LockInv(Queuing, Holding)' /\ c \in ToSet(ready)
         /\ ToSet(ready') = (ToSet(ready) \ {c}) \cup ToSet(v)
<1>1. LockInv(Queuing, Holding)
  BY DEF LoopInv
<1>2. /\ Line(ready', Coroutines) /\ c \in ToSet(ready)
      /\ ToSet(ready') = (ToSet(ready) \ {c}) \cup ToSet(v)
  BY <1>1, Yields DEF LockInv
<1>3. ToSet(ready') \cap ToSet(waiters) = {}
  BY <1>1, <1>2 DEF LockInv
<1>4. /\ owner' = c /\ Line(waiters', Coroutines)
      /\ ToSet(waiters') = (Queuing \ {c}) \ {owner'}
      /\ waiters' = waiters /\ ToSet(ready') \cap ToSet(waiters') = {}
  BY <1>1, <1>2, <1>3, Holds
<1>5. owner' # Nobody
  BY <1>4, LockersAre
<1> QED BY <1>1, <1>2, <1>4, <1>5 DEF LockInv, LockFree

(* What the processor wakes leaves every coroutine where it may be. *)
LEMMA ProcRests ==
  ASSUME LoopInv, UNCHANGED <<monitor, main, sync, active, task>>, pmode # "stop",
         ToSet(ready) \ {Proc} \subseteq ToSet(ready'),
         \A c \in ToSet(ready') : \/ c \in ToSet(ready) \/ c \in ToSet(Granted)
                                  \/ c = Feeder \/ c = Proc
                                  \/ c = Main /\ pmode' = "stop",
         Proc \in ToSet(ready') => pmode' \notin {"cond", "stop"}
  PROVE  Resting'
<1>1. /\ Main \in ToSet(Granted) => pmode = "stop"
      /\ Sync \in ToSet(Granted) => sync \in {"pauseLock", "updateLock", "resumeLock"}
      /\ \A s \in Samples : Task(s) \notin ToSet(Granted)
  BY GrantedRest
<1>2. main = "streaming" /\ Main \notin ToSet(ready)
  BY DEF LoopInv, Resting
<1>3. Main \in ToSet(ready') => pmode' = "stop"
  BY <1>1, <1>2, Names
<1>4. Sync \in ToSet(ready') => Sync \in ToSet(ready) \/ Sync \in ToSet(Granted)
  BY Names
<1>5. Sync \in ToSet(ready) => Sync \in ToSet(ready')
  BY Names
<1>6. \A s \in Samples : Task(s) \in ToSet(ready') => Task(s) \in ToSet(ready)
  BY <1>1, Names
<1>7. Sync \in ToSet(ready') => sync' \notin Away
  BY <1>1, <1>4 DEF LoopInv, Resting, Away
<1>8. sync' = "gathering" => (Sync \in ToSet(ready') <=> active' = {})
  BY <1>1, <1>4, <1>5 DEF LoopInv, Resting
<1>9. \A s \in Samples : Task(s) \in ToSet(ready') => task'[s] \in Awake
  BY <1>6 DEF LoopInv, Resting
<1>10. \A s \in Samples : s \in active' <=> task'[s] # "none"
  BY DEF LoopInv, Resting
<1> QED BY <1>2, <1>3, <1>7, <1>8, <1>9, <1>10 DEF Resting, Awake

(* The processor outside the lock. *)
LEMMA ProcMoves ==
  ASSUME LoopInv, Running(Proc), UNCHANGED <<monitor, main, sync, active, task, owner, waiters>>,
         pmode \in {"run", "get"}, NEW v, Line(v, Coroutines),
         \/ Continue(v) /\ pmode' = "run" /\ ToSet(v) \subseteq {Feeder}
         \/ Yield(v) /\ pmode' = "stop" /\ ToSet(v) = {Main}
         \/ Yield(v) /\ pmode' = "get" /\ ToSet(v) = {},
         ToSet(v) \cap ToSet(ready) = {}
  PROVE  LoopInv'
<1>1. Proc \notin Queuing /\ UNCHANGED <<Queuing, Holding>>
  <2>1. Proc \notin Queuing
    BY LockersIn
  <2> QED BY <2>1 DEF Queuing, Holding
<1>2. main = "streaming"
  BY DEF LoopInv, Resting
<1>3. Feeder \notin Queuing /\ Main \notin Queuing
  BY <1>2, LockersIn, LockersAre
<1>4. ToSet(v) \cap Queuing = {} /\ Proc \notin ToSet(v)
  BY <1>3, Names
<1>5. CASE Continue(v) /\ pmode' = "run" /\ ToSet(v) \subseteq {Feeder}
  <2>1. LockInv(Queuing, Holding)' /\ ToSet(ready') = ToSet(ready) \cup ToSet(v)
    BY <1>1, <1>4, <1>5, ContinueSteps
  <2>2. Resting'
    BY <1>5, <2>1, ProcRests
  <2> QED BY <2>1, <2>2 DEF LoopInv
<1>6. CASE Yield(v) /\ \/ pmode' = "stop" /\ ToSet(v) = {Main}
                       \/ pmode' = "get" /\ ToSet(v) = {}
  <2>1. LockInv(Queuing, Holding)' /\ ToSet(ready') = (ToSet(ready) \ {Proc}) \cup ToSet(v)
    BY <1>1, <1>4, <1>6, YieldSteps
  <2>2. Resting'
    BY <1>4, <1>6, <2>1, ProcRests
  <2> QED BY <2>1, <2>2 DEF LoopInv
<1> QED BY <1>5, <1>6

(* A section of the processor ends. *)
LEMMA ProcReleases ==
  ASSUME LoopInv, Running(Proc), UNCHANGED <<monitor, main, sync, active, task>>,
         Release, owner = Proc \/ (LockFree /\ pmode \in {"run", "woken"}), pmode # "stop",
         \/ Continue(Granted) /\ pmode' = "run"
         \/ Yield(Granted) /\ pmode' = "cond"
         \/ Yield(Granted \o <<Main>>) /\ pmode' = "stop"
  PROVE  LoopInv'
<1>1. /\ Queuing' = Queuing \ {Proc} /\ Holding' = Holding \ {Proc}
  BY Names DEF Queuing, Holding
<1>2. owner = Proc \/ (LockFree /\ Proc \notin Queuing \cup Holding)
  BY LockersIn
<1>3. /\ Line(Granted, Coroutines) /\ ToSet(Granted) \cap ToSet(ready) = {}
      /\ ToSet(Granted) \subseteq Queuing /\ ToSet(Granted) \subseteq ToSet(waiters)
      /\ Main \notin ToSet(Granted)
  BY GrantedRest
<1>4. main = "streaming" /\ Main \notin ToSet(ready) /\ Main \notin Queuing
  BY LockersIn DEF LoopInv, Resting
<1>5. Proc \in Lockers /\ Proc \in ToSet(ready)
  BY RunningIsReady DEF Lockers
<1>6. CASE Continue(Granted) /\ pmode' = "run"
  <2>1. LockInv(Queuing, Holding)' /\ ToSet(ready') = ToSet(ready) \cup ToSet(Granted)
    BY <1>1, <1>2, <1>3, <1>5, <1>6, ReleaseContinues
  <2>2. Resting'
    BY <1>6, <2>1, ProcRests
  <2> QED BY <2>1, <2>2 DEF LoopInv
<1>7. CASE Yield(Granted) /\ pmode' = "cond"
  <2>1. LockInv(Queuing, Holding)' /\ ToSet(ready') = (ToSet(ready) \ {Proc}) \cup ToSet(Granted)
    BY <1>1, <1>2, <1>3, <1>5, <1>7, ReleaseYields
  <2>2. Resting'
    BY <1>3, <1>5, <1>7, <2>1, ProcRests
  <2> QED BY <2>1, <2>2 DEF LoopInv
<1>8. CASE Yield(Granted \o <<Main>>) /\ pmode' = "stop"
  <2>1. Line(<<Main>>, Coroutines) /\ ToSet(<<Main>>) = {Main}
    BY Names, OneLine
  <2>3. PICK v : /\ Yield(v) /\ Line(v, Coroutines) /\ ToSet(v) = ToSet(Granted) \cup {Main}
    BY <1>3, <1>8, <2>1, JoinedCoroutines
  <2>4. /\ LockInv(Queuing, Holding)'
        /\ ToSet(ready') = (ToSet(ready) \ {Proc}) \cup ToSet(v)
    <3>1. /\ ToSet(Granted) \subseteq ToSet(v) /\ ToSet(v) \cap Queuing \subseteq ToSet(Granted)
          /\ ToSet(v) \cap (ToSet(ready) \ {Proc}) = {}
      BY <1>3, <1>4, <2>3
    <3> QED BY <1>1, <1>2, <1>5, <2>3, <3>1, ReleaseYields
  <2>5. Proc \notin ToSet(ready')
    BY <1>3, <1>5, <2>3, <2>4, Names
  <2>6. Resting'
    BY <1>8, <2>3, <2>4, <2>5, ProcRests
  <2> QED BY <2>4, <2>6 DEF LoopInv
<1> QED BY <1>6, <1>7, <1>8

(* The sample in hand has no task. *)
HandIdle == \A s \in Samples : hand = s => task[s] = "none"

(* The processor's steps.                                                  *)
LEMMA ProcSteps ==
  ASSUME LoopInv, TypeInv, HandIdle, Processor
  PROVE  LoopInv'
<1> USE DEF procVars, syncVars, taskVars, queueVars
<1>1. ProcHasLock => owner = Proc \/ (LockFree /\ pmode \in {"run", "woken"})
  BY DEF ProcHasLock, WantsLock
<1>2. ProcHasLock => pmode # "stop" /\ Running(Proc)
  BY DEF ProcHasLock, WantsLock
<1>3. Line(<<>>, Coroutines) /\ ToSet(<<>>) = {}
  BY EmptyLine
<1>4. Proc \in Lockers
  BY DEF Lockers
<1>5. CASE ProcCheck \/ TakeCancelled
  BY <1>3, <1>5, ProcMoves DEF ProcCheck, TakeCancelled, GoOn
<1>6. CASE ProcLoopDone
  <2>1. \/ Continue(<<>>) /\ pmode' = "run"
        \/ Yield(<<Main>>) /\ pmode' = "stop"
    <3>1. <<>> \o <<Main>> = <<Main>>
      OBVIOUS
    <3> QED BY <1>6, <3>1 DEF ProcLoopDone, GoOn, Stop
  <2>2. /\ UNCHANGED <<monitor, main, sync, active, task, owner, waiters>>
        /\ Running(Proc) /\ pmode = "run"
    BY <1>6 DEF ProcLoopDone
  <2>3. CASE Continue(<<>>) /\ pmode' = "run"
    BY <1>3, <2>2, <2>3, ProcMoves
  <2>4. CASE Yield(<<Main>>) /\ pmode' = "stop"
    <3>1. Line(<<Main>>, Coroutines) /\ ToSet(<<Main>>) = {Main}
      BY Names, OneLine
    <3>2. Main \notin ToSet(ready)
      BY <2>2 DEF LoopInv, Resting
    <3> QED BY <2>2, <2>4, <3>1, <3>2, ProcMoves
  <2> QED BY <2>1, <2>3, <2>4
<1>7. CASE TakePending
  <2>1. /\ UNCHANGED <<monitor, main, sync, active, task, owner, waiters>>
        /\ Running(Proc) /\ pmode \in {"run", "get"} /\ pmode' = "run"
        /\ Continue(FeederWoken)
    BY <1>7 DEF TakePending, GoOn
  <2>2. /\ Line(FeederWoken, Coroutines) /\ ToSet(FeederWoken) \subseteq {Feeder}
        /\ ToSet(FeederWoken) \cap ToSet(ready) = {}
    <3>1. Line(<<Feeder>>, Coroutines) /\ ToSet(<<Feeder>>) = {Feeder}
      BY Names, OneLine
    <3>2. CASE Feeder \in ToSet(ready)
      BY <1>3, <3>2 DEF FeederWoken, IsReady
    <3>3. CASE Feeder \notin ToSet(ready)
      BY <1>3, <3>1, <3>3 DEF FeederWoken
    <3> QED BY <3>2, <3>3
  <2> QED BY <2>1, <2>2, ProcMoves
<1>8. CASE TakeWait
  BY <1>3, <1>8, ProcMoves DEF TakeWait, Suspend
<1>9. CASE ProcBlock
  <2>1. /\ UNCHANGED <<monitor, main, sync, active, task>> /\ pmode' = "lock"
        /\ Running(Proc) /\ pmode \in {"run", "woken"} /\ Enqueue(Proc)
    BY <1>9 DEF ProcBlock, WantsLock
  <2>2. Queuing' = Queuing \cup {Proc} /\ Holding' = Holding /\ Proc \notin Queuing \cup Holding
    <3>1. Proc \notin Queuing \cup Holding
      BY <2>1, LockersIn
    <3> QED BY <2>1, <3>1, Names DEF Queuing, Holding, Lockers
  <2>3. LockInv(Queuing, Holding)' /\ ToSet(ready') = ToSet(ready) \ {Proc}
    BY <1>4, <2>1, <2>2, EnqueueSteps
  <2>4. Resting'
    BY <2>1, <2>3, ProcRests
  <2> QED BY <2>3, <2>4 DEF LoopInv
<1>10. CASE ProcSetPaused
  BY <1>1, <1>2, <1>10, ProcReleases DEF ProcSetPaused, GoOn
<1>11. CASE ProcCollectBegin
  <2>1. /\ UNCHANGED <<monitor, main, sync, active, task>> /\ pmode' = "wait"
        /\ Running(Proc) /\ pmode # "stop" /\ Hold(Proc) /\ (owner = Proc \/ LockFree)
        /\ (Yield(<<>>) \/ Yield(<<Proc>>))
    BY <1>1, <1>2, <1>11 DEF ProcCollectBegin, Suspend
  <2>2. sync \notin Inside
    BY <2>1, LockersIn, LockersAre, Names DEF LoopInv, LockInv, LockFree
  <2>3. Queuing' = Queuing \ {Proc} /\ Holding' = {Proc}
    <3>1. Queuing' = Queuing \ {Proc}
      BY <2>1, Names DEF Queuing
    <3>2. Holding' = {Proc}
      BY <2>1, <2>2, Names DEF Holding, Lockers
    <3> QED BY <3>1, <3>2
  <2>4. PICK v : Line(v, Coroutines) /\ Yield(v) /\ ToSet(v) \subseteq {Proc}
    <3>1. Line(<<Proc>>, Coroutines) /\ ToSet(<<Proc>>) = {Proc}
      BY Names, OneLine
    <3> QED BY <1>3, <2>1, <3>1
  <2>5. LockInv(Queuing, Holding)' /\ ToSet(ready') = (ToSet(ready) \ {Proc}) \cup ToSet(v)
    BY <1>4, <2>1, <2>3, <2>4, HoldSteps
  <2>6. Resting'
    BY <2>1, <2>4, <2>5, ProcRests
  <2> QED BY <2>5, <2>6 DEF LoopInv
<1>12. CASE ProcCollect
  <2>1. pmode = "wait" /\ owner = Proc /\ Running(Proc)
    <3>1. pmode = "wait" /\ Running(Proc)
      BY <1>12 DEF ProcCollect
    <3> QED BY <3>1, LockersIn, OwnerRuns
  <2> QED BY <1>12, <2>1, ProcReleases DEF ProcCollect, GoOn, Stop
<1>13. CASE ProcCollectNothing
  BY <1>1, <1>2, <1>13, ProcReleases DEF ProcCollectNothing, GoOn, Stop
<1>14. CASE ProcIdle
  BY <1>1, <1>2, <1>14, ProcReleases DEF ProcIdle, GoOn, Suspend
<1>15. CASE ProcSubmit /\ paused
  BY <1>1, <1>2, <1>15, ProcReleases DEF ProcSubmit, Suspend
<1>16. CASE ProcSubmit /\ ~paused
  <2>1. hand \in Samples /\ task[hand] = "none" /\ task \in [Samples -> TaskState]
    BY <1>16 DEF ProcSubmit, TypeInv, InHand, SampleTypes, HandIdle
  <2>2. /\ active' = active \cup {hand} /\ task' = [task EXCEPT ![hand] = "created"]
        /\ pmode' = "run" /\ Release /\ UNCHANGED <<monitor, main, sync>>
        /\ Continue(<<Task(hand)>> \o Granted)
        /\ (owner = Proc \/ (LockFree /\ pmode \in {"run", "woken"}))
        /\ pmode # "stop" /\ Running(Proc)
    BY <1>1, <1>2, <1>16 DEF ProcSubmit, GoOn
  <2>3. Task(hand) \in Coroutines /\ Task(hand) \notin Lockers /\ Task(hand) \notin ToSet(ready)
    BY <2>1, Names, LockersAre DEF LoopInv, Resting, Awake
  <2>4. /\ Line(Granted, Coroutines) /\ ToSet(Granted) \cap ToSet(ready) = {}
        /\ ToSet(Granted) \subseteq Queuing /\ Queuing \subseteq Lockers
    BY GrantedRest, LockersIn
  <2>5. PICK v : /\ Line(v, Coroutines) /\ ToSet(v) = {Task(hand)} \cup ToSet(Granted)
                 /\ Continue(v)
    <3>1. Line(<<Task(hand)>>, Coroutines) /\ ToSet(<<Task(hand)>>) = {Task(hand)}
      BY <2>3, OneLine
    <3>3. ToSet(<<Task(hand)>>) \cap ToSet(Granted) = {}
      BY <2>3, <2>4, <3>1
    <3> QED BY <2>2, <2>4, <3>1, JoinedCoroutines, <3>3
  <2>6. Queuing' = Queuing \ {Proc} /\ Holding' = Holding \ {Proc}
    BY <2>2, Names DEF Queuing, Holding
  <2>7. owner = Proc \/ (LockFree /\ Proc \notin Queuing \cup Holding)
    BY <2>2, LockersIn
  <2>8. LockInv(Queuing, Holding)' /\ ToSet(ready') = ToSet(ready) \cup ToSet(v)
    <3>1. /\ ToSet(Granted) \subseteq ToSet(v) /\ ToSet(v) \cap Queuing \subseteq ToSet(Granted)
          /\ ToSet(v) \cap ToSet(ready) = {}
      BY <2>3, <2>4, <2>5
    <3> QED BY <1>4, <2>2, <2>5, <2>6, <2>7, <3>1, ReleaseContinues
  <2>9. Resting'
    <3>1. /\ Main \notin ToSet(Granted) /\ \A s \in Samples : Task(s) \notin ToSet(Granted)
          /\ Sync \in ToSet(Granted) => sync \in {"pauseLock", "updateLock", "resumeLock"}
      BY <2>2, GrantedRest
    <3>2. main = "streaming" /\ Main \notin ToSet(ready)
      BY <2>2 DEF LoopInv, Resting
    <3>3. Main \notin ToSet(ready') /\ (Sync \in ToSet(ready') <=>
                                          Sync \in ToSet(ready) \cup ToSet(Granted))
      BY <2>1, <2>5, <2>8, <3>1, <3>2, Names
    <3>4. \A s \in Samples : Task(s) \in ToSet(ready') => Task(s) \in ToSet(ready) \/ s = hand
      BY <2>1, <2>5, <2>8, <3>1, Names
    <3>5. \A s \in Samples : task'[s] = IF s = hand THEN "created" ELSE task[s]
      BY <2>1, <2>2
    <3>6. sync # "gathering"
      BY <2>2, LockersIn, LockersAre, Names DEF LoopInv, LockInv, LockFree, Inside
    <3>7. Sync \in ToSet(ready') => sync' \notin Away
      BY <2>2, <3>1, <3>3 DEF LoopInv, Resting, Away
    <3>8. \A s \in Samples : Task(s) \in ToSet(ready') => task'[s] \in Awake
      BY <3>4, <3>5 DEF LoopInv, Resting, Awake
    <3>9. \A s \in Samples : s \in active' <=> task'[s] # "none"
      BY <2>2, <3>5 DEF LoopInv, Resting
    <3> QED BY <2>2, <3>2, <3>3, <3>6, <3>7, <3>8, <3>9 DEF Resting
  <2> QED BY <2>8, <2>9 DEF LoopInv
<1> QED BY <1>5, <1>6, <1>7, <1>8, <1>9, <1>10, <1>11, <1>12, <1>13, <1>14, <1>15, <1>16
   DEF Processor

(* What the monitor, the main coroutine and the synchroniser's calls wake  *)
(* leaves every coroutine where it may be.                                 *)
LEMMA OtherRests ==
  ASSUME LoopInv, NEW c \in {Mon, Main, Sync}, Running(c), UNCHANGED <<active, task>>,
         c # Main => main' = main, c # Sync => sync' = sync, sync' # sync => sync' # "gathering",
         NEW V, ToSet(ready') = (ToSet(ready) \ {c}) \cup V,
         \/ pmode' = pmode /\ V \subseteq ToSet(Granted)
         \/ pmode = "cond" /\ pmode' = "woken" /\ V \subseteq ToSet(Granted) \cup {Proc},
         c = Sync => sync # "gathering"
  PROVE  Resting'
<1>1. /\ Main \in ToSet(Granted) => main = "locking" /\ pmode = "stop"
      /\ Proc \in ToSet(Granted) => pmode = "lock"
      /\ Sync \in ToSet(Granted) => sync \in {"pauseLock", "updateLock", "resumeLock"}
      /\ \A s \in Samples : Task(s) \notin ToSet(Granted)
      /\ ToSet(Granted) \cap ToSet(ready) = {}
  BY GrantedRest
<1>2. c \in ToSet(ready) /\ c \notin ToSet(Granted) /\ c # Proc
  BY <1>1, RunningIsReady, Names
<1>3. c \notin ToSet(ready')
  BY <1>2
<1>4. Proc \in ToSet(ready') => pmode' \notin {"cond", "stop"}
  BY <1>1 DEF LoopInv, Resting
<1>5. Main \in ToSet(ready') => pmode' = "stop" /\ main' \notin {"signalling", "exited"}
  BY <1>1, <1>3, Names DEF LoopInv, Resting
<1>6. pmode' # "stop" => main' = "streaming"
  BY <1>2 DEF LoopInv, Resting
<1>7. Sync \in ToSet(ready') => sync' \notin Away
  BY <1>1, <1>3, Names DEF LoopInv, Resting, Away
<1>8. sync' = "gathering" => (Sync \in ToSet(ready') <=> active' = {})
  BY <1>1, <1>3, Names DEF LoopInv, Resting
<1>9. \A s \in Samples : Task(s) \in ToSet(ready') => task'[s] \in Awake
  <2>1. \A s \in Samples : Task(s) \in ToSet(ready') => Task(s) \in ToSet(ready)
    BY <1>1, Names
  <2> QED BY <2>1 DEF LoopInv, Resting
<1>10. \A s \in Samples : s \in active' <=> task'[s] # "none"
  BY DEF LoopInv, Resting
<1> QED BY <1>4, <1>5, <1>6, <1>7, <1>8, <1>9, <1>10 DEF Resting

(* Notified processors and granted locks in one step. *)
LEMMA NotifiedGranted ==
  ASSUME LoopInv, Yield(Notified \o Granted)
  PROVE  \E v : /\ Yield(v) /\ Line(v, Coroutines)
                /\ ToSet(v) = ToSet(Granted) \cup (IF pmode = "cond" THEN {Proc} ELSE {})
<1>1. Line(<<>>, Coroutines) /\ ToSet(<<>>) = {}
  BY EmptyLine
<1>2. Line(<<Proc>>, Coroutines) /\ ToSet(<<Proc>>) = {Proc}
  BY Names, OneLine
<1>3. /\ Line(Notified, Coroutines)
      /\ ToSet(Notified) = IF pmode = "cond" THEN {Proc} ELSE {}
  BY <1>1, <1>2 DEF Notified
<1>4. Line(Granted, Coroutines) /\ (Proc \in ToSet(Granted) => pmode = "lock")
  BY GrantedRest
<1>6. ToSet(Notified) \cap ToSet(Granted) = {}
  BY <1>3, <1>4
<1>7. /\ Line(Notified \o Granted, Coroutines)
      /\ ToSet(Notified \o Granted) = ToSet(Notified) \cup ToSet(Granted)
  BY <1>3, <1>4, JoinedCoroutines, <1>6
<1> WITNESS Notified \o Granted
<1> QED BY <1>3, <1>7

(* The monitor's steps.                                                    *)
LEMMA MonitorLoop ==
  ASSUME LoopInv, TypeInv, Monitor
  PROVE  LoopInv'
<1> USE DEF procVars, syncVars, taskVars
<1>1. Line(<<>>, Coroutines) /\ ToSet(<<>>) = {}
  BY EmptyLine
<1>2. Mon \in Lockers /\ Mon \in {Mon, Main, Sync}
  BY DEF Lockers
<1>3. CASE MonitorTick
  <2>1. /\ UNCHANGED <<owner, waiters, active, task, main, sync>> /\ Running(Mon)
        /\ monitor = "sleep" /\ monitor' \in {"sleep", "exited"}
        /\ \/ Yield(<<>>) /\ pmode' = pmode
           \/ Yield(<<Proc>>) /\ pmode = "cond" /\ pmode' = "woken"
    BY <1>3 DEF MonitorTick, MonitorTop, NotifyProcessor, Notified
  <2>2. UNCHANGED <<Queuing, Holding>> /\ Mon \notin Queuing
    BY <2>1, LockersIn DEF Queuing, Holding
  <2>3. CASE Yield(<<>>) /\ pmode' = pmode
    <3>1. LockInv(Queuing, Holding)' /\ ToSet(ready') = (ToSet(ready) \ {Mon}) \cup {}
      BY <1>1, <2>1, <2>2, <2>3, YieldSteps
    <3>2. Resting'
      BY <1>2, <2>1, <2>3, <3>1, Names, OtherRests
    <3> QED BY <3>1, <3>2 DEF LoopInv
  <2>4. CASE Yield(<<Proc>>) /\ pmode = "cond" /\ pmode' = "woken"
    <3>1. Line(<<Proc>>, Coroutines) /\ ToSet(<<Proc>>) = {Proc}
      BY Names, OneLine
    <3>2. Proc \notin Queuing /\ Proc \notin ToSet(ready)
      BY <2>4, LockersIn DEF LoopInv, Resting
    <3>3. LockInv(Queuing, Holding)' /\ ToSet(ready') = (ToSet(ready) \ {Mon}) \cup {Proc}
      BY <2>1, <2>2, <2>4, <3>1, <3>2, YieldSteps
    <3>4. Resting'
      BY <1>2, <2>1, <2>4, <3>3, Names, OtherRests
    <3> QED BY <3>3, <3>4 DEF LoopInv
  <2> QED BY <2>1, <2>3, <2>4
<1>4. CASE MonitorBlock
  <2>1. /\ UNCHANGED <<active, task, main, sync, pmode>> /\ Running(Mon)
        /\ monitor = "sleep" /\ monitor' \in {"unpause", "top"} /\ Enqueue(Mon)
    BY <1>4 DEF MonitorBlock
  <2>2. Queuing' = Queuing \cup {Mon} /\ Holding' = Holding /\ Mon \notin Queuing \cup Holding
    <3>1. Mon \notin Queuing \cup Holding
      BY <2>1, LockersIn
    <3> QED BY <2>1, <3>1, Names DEF Queuing, Holding, Lockers
  <2>3. LockInv(Queuing, Holding)' /\ ToSet(ready') = (ToSet(ready) \ {Mon}) \cup {}
    BY <1>2, <2>1, <2>2, EnqueueSteps
  <2>4. Resting'
    BY <1>2, <2>1, <2>3, Names, OtherRests
  <2> QED BY <2>3, <2>4 DEF LoopInv
<1>5. CASE MonitorLook
  <2>1. /\ UNCHANGED <<active, task, main, sync, pmode>> /\ Running(Mon)
        /\ monitor = "top" /\ monitor' \in {"sleep", "exited"} /\ Release /\ Yield(Granted)
    BY <1>5 DEF MonitorLook, MonitorTop
  <2>2. Queuing' = Queuing \ {Mon} /\ Holding' = Holding \ {Mon} /\ owner = Mon
    <3>1. owner = Mon
      BY <2>1, LockersIn, OwnerRuns
    <3> QED BY <2>1, <3>1, Names DEF Queuing, Holding, Lockers
  <2>3. /\ Line(Granted, Coroutines) /\ ToSet(Granted) \cap ToSet(ready) = {}
    BY GrantedRest
  <2>4. LockInv(Queuing, Holding)' /\ ToSet(ready') = (ToSet(ready) \ {Mon}) \cup ToSet(Granted)
    BY <1>2, <2>1, <2>2, <2>3, ReleaseYields
  <2>5. Resting'
    BY <1>2, <2>1, <2>4, Names, OtherRests
  <2> QED BY <2>4, <2>5 DEF LoopInv
<1>6. CASE MonitorUnpause
  <2>1. /\ UNCHANGED <<active, task, main, sync>> /\ Running(Mon) /\ monitor = "unpause"
        /\ Yield(Notified \o Granted)
        /\ pmode' = IF pmode = "cond" THEN "woken" ELSE pmode
    BY <1>6 DEF MonitorUnpause, NotifyProcessor
  <2>2. PICK v : /\ Yield(v) /\ Line(v, Coroutines)
                 /\ ToSet(v) = ToSet(Granted) \cup (IF pmode = "cond" THEN {Proc} ELSE {})
    BY <2>1, NotifiedGranted
  <2>3. owner = Mon /\ Mon \in ToSet(ready) /\ Mon \notin ToSet(waiters)
    BY <2>1, LockersIn, OwnerRuns, RunningIsReady
  <2>4. /\ ToSet(Granted) \cap ToSet(ready) = {} /\ ToSet(Granted) \subseteq Queuing
        /\ ToSet(Granted) \subseteq ToSet(waiters)
    BY GrantedRest
  <2>5. pmode = "cond" => Proc \notin Queuing /\ Proc \notin ToSet(ready)
    BY LockersIn DEF LoopInv, Resting
  <2>6. /\ ToSet(Granted) \subseteq ToSet(v) /\ ToSet(v) \cap Queuing \subseteq ToSet(Granted)
        /\ ToSet(v) \cap ToSet(ready) = {} /\ ToSet(v) \subseteq ToSet(Granted) \cup {Proc}
    BY <2>2, <2>4, <2>5
  <2>7. Holding' = Holding \ {Mon}
    BY <2>1, Names DEF Holding, Lockers
  <2>8. /\ LockInv(Queuing, Holding)'
        /\ ToSet(ready') = (ToSet(ready) \ {Mon}) \cup ToSet(v)
    <3>1. CASE waiters = <<>>
      <4>1. Release /\ monitor' \in {"sleep", "exited"}
        BY <1>6, <3>1 DEF MonitorUnpause, MonitorTop, Release
      <4>2. Queuing' = Queuing \ {Mon}
        BY <2>1, <4>1, Names DEF Queuing, Lockers
      <4> QED BY <1>2, <2>1, <2>2, <2>3, <2>6, <2>7, <4>1, <4>2, ReleaseYields
    <3>2. CASE waiters # <<>>
      <4>1. /\ owner' = Head(waiters) /\ waiters' = Append(Tail(waiters), Mon)
            /\ monitor' = "top"
        BY <1>6, <3>2 DEF MonitorUnpause
      <4>2. Queuing' = Queuing /\ Holding' = {}
        <5>1. Queuing' = Queuing
          BY <2>1, <4>1, Names DEF Queuing, Lockers
        <5>2. Holding = {}
          BY <2>3, LockersIn DEF LoopInv, LockInv
        <5> QED BY <2>7, <5>1, <5>2
      <4>3. /\ Line(ready', Coroutines)
            /\ ToSet(ready') = (ToSet(ready) \ {Mon}) \cup ToSet(v)
        <5>1. Line(ready, Coroutines) /\ ToSet(v) \cap (ToSet(ready) \ {Mon}) = {}
          BY <2>6 DEF LoopInv, LockInv
        <5> QED BY <2>1, <2>2, <5>1, Yields
      <4>4. /\ Line(Tail(waiters), Coroutines) /\ owner' \in ToSet(waiters)
            /\ ToSet(Tail(waiters)) = ToSet(waiters) \ {owner'}
        BY <3>2, <4>1, ShorterLine DEF LoopInv, LockInv
      <4>5. /\ Line(waiters', Coroutines)
            /\ ToSet(waiters') = (ToSet(waiters) \ {owner'}) \cup {Mon}
        <5>1. Mon \in Coroutines /\ Mon \notin ToSet(Tail(waiters))
          BY <2>3, <4>4, Names
        <5>2. /\ Line(Append(Tail(waiters), Mon), Coroutines)
              /\ ToSet(Append(Tail(waiters), Mon)) = ToSet(Tail(waiters)) \cup {Mon}
          BY <4>4, <5>1, LongerCoroutines
        <5> QED BY <4>1, <4>4, <5>2
      <4>6. ToSet(Granted) = {owner'}
        BY <3>2, <4>1, <4>4, OneLine DEF Granted, LoopInv, LockInv
      <4>7. ToSet(waiters) = Queuing \ {Mon} /\ Mon \in Queuing
            /\ ToSet(ready) \cap ToSet(waiters) = {} /\ Queuing \subseteq Lockers
        BY <2>1, <2>3, LockersIn DEF LoopInv, LockInv
      <4>8. owner' \in Queuing /\ owner' # Mon /\ owner' # Nobody /\ owner' \in ToSet(ready')
        <5>1. owner' \in Queuing /\ owner' # Mon /\ owner' \in ToSet(v)
          BY <2>2, <4>4, <4>6, <4>7
        <5>2. owner' # Nobody
          BY <4>7, <5>1, LockersAre
        <5> QED BY <4>3, <5>1, <5>2
      <4>9. ToSet(waiters') = Queuing \ {owner'}
        BY <4>5, <4>7, <4>8
      <4>10. Mon \notin ToSet(ready')
        BY <2>3, <2>6, <4>3
      <4>11. ToSet(ready') \cap ToSet(waiters') = {}
        BY <2>2, <2>6, <4>3, <4>5, <4>6, <4>7, <4>10
      <4> QED BY <4>2, <4>3, <4>5, <4>7, <4>8, <4>9, <4>11 DEF LockInv, LockFree
    <3> QED BY <3>1, <3>2
  <2>9. Resting'
    <3>1. \/ pmode' = pmode /\ ToSet(v) \subseteq ToSet(Granted)
          \/ /\ pmode = "cond" /\ pmode' = "woken"
             /\ ToSet(v) \subseteq ToSet(Granted) \cup {Proc}
      BY <2>1, <2>2
    <3> QED BY <1>2, <2>1, <2>8, <3>1, Names, OtherRests
  <2> QED BY <2>8, <2>9 DEF LoopInv
<1> QED BY <1>3, <1>4, <1>5, <1>6 DEF Monitor

(* A coroutine that is no processor ends its section. *)
LEMMA OtherReleases ==
  ASSUME LoopInv, NEW c \in {Mon, Main, Sync}, Running(c), UNCHANGED <<active, task>>,
         c # Main => main' = main, c # Sync => sync' = sync, sync' # sync => sync' # "gathering",
         c = Sync => sync # "gathering", Release,
         owner = c \/ (LockFree /\ c \notin Queuing \cup Holding),
         \/ pmode' = pmode /\ Yield(Granted)
         \/ /\ pmode' = IF pmode = "cond" THEN "woken" ELSE pmode
            /\ Yield(Notified \o Granted),
         Queuing' = Queuing \ {c}, Holding' = Holding \ {c}
  PROVE  LoopInv'
<1>1. /\ Line(Granted, Coroutines) /\ ToSet(Granted) \cap ToSet(ready) = {}
      /\ ToSet(Granted) \subseteq Queuing
  BY GrantedRest
<1>2. c \in Lockers
  BY DEF Lockers
<1>3. PICK v : /\ Yield(v) /\ Line(v, Coroutines)
               /\ \/ pmode' = pmode /\ ToSet(v) = ToSet(Granted)
                  \/ /\ pmode = "cond" /\ pmode' = "woken"
                     /\ ToSet(v) = ToSet(Granted) \cup {Proc}
  <2>1. CASE pmode' = pmode /\ Yield(Granted)
    BY <1>1, <2>1
  <2>2. CASE /\ pmode' = IF pmode = "cond" THEN "woken" ELSE pmode
             /\ Yield(Notified \o Granted)
    <3>1. PICK v : /\ Yield(v) /\ Line(v, Coroutines)
                   /\ ToSet(v) = ToSet(Granted) \cup (IF pmode = "cond" THEN {Proc} ELSE {})
      BY <2>2, NotifiedGranted
    <3> QED BY <2>2, <3>1
  <2> QED BY <2>1, <2>2
<1>4. pmode = "cond" => Proc \notin Queuing /\ Proc \notin ToSet(ready)
  BY LockersIn DEF LoopInv, Resting
<1>5. /\ ToSet(Granted) \subseteq ToSet(v) /\ ToSet(v) \cap Queuing \subseteq ToSet(Granted)
      /\ ToSet(v) \cap (ToSet(ready) \ {c}) = {}
  BY <1>1, <1>3, <1>4
<1>6. LockInv(Queuing, Holding)' /\ ToSet(ready') = (ToSet(ready) \ {c}) \cup ToSet(v)
  BY <1>2, <1>3, <1>5, ReleaseYields
<1>7. Resting'
  BY <1>3, <1>6, OtherRests
<1> QED BY <1>6, <1>7 DEF LoopInv

(* The main coroutine's steps.                                             *)
LEMMA MainLoop ==
  ASSUME LoopInv, TypeInv, MainCoroutine
  PROVE  LoopInv'
<1> USE DEF procVars, syncVars, taskVars
<1>1. Line(<<>>, Coroutines) /\ ToSet(<<>>) = {}
  BY EmptyLine
<1>2. Main \in Lockers /\ Main \in {Mon, Main, Sync}
  BY DEF Lockers
<1>3. CASE MainWake
  <2>1. /\ UNCHANGED <<owner, waiters, active, task, monitor, sync, pmode>> /\ Running(Main)
        /\ main = "streaming" /\ main' = "signalling" /\ Yield(<<>>)
    BY <1>3 DEF MainWake
  <2>2. UNCHANGED <<Queuing, Holding>> /\ Main \notin Queuing
    BY <2>1, LockersIn DEF Queuing, Holding
  <2>3. LockInv(Queuing, Holding)' /\ ToSet(ready') = (ToSet(ready) \ {Main}) \cup {}
    BY <1>1, <2>1, <2>2, YieldSteps
  <2>4. Resting'
    BY <1>2, <2>1, <2>3, Names, OtherRests
  <2> QED BY <2>3, <2>4 DEF LoopInv
<1>4. CASE MainBlock
  <2>1. /\ UNCHANGED <<active, task, monitor, sync, pmode>> /\ Running(Main)
        /\ main = "signalled" /\ main' = "locking" /\ Enqueue(Main)
    BY <1>4 DEF MainBlock
  <2>2. Queuing' = Queuing \cup {Main} /\ Holding' = Holding /\ Main \notin Queuing \cup Holding
    <3>1. Main \notin Queuing \cup Holding
      BY <2>1, LockersIn
    <3> QED BY <2>1, <3>1, Names DEF Queuing, Holding, Lockers
  <2>3. LockInv(Queuing, Holding)' /\ ToSet(ready') = (ToSet(ready) \ {Main}) \cup {}
    BY <1>2, <2>1, <2>2, EnqueueSteps
  <2>4. Resting'
    BY <1>2, <2>1, <2>3, Names, OtherRests
  <2> QED BY <2>3, <2>4 DEF LoopInv
<1>5. CASE MainStop
  <2>1. /\ UNCHANGED <<active, task, monitor, sync, pmode>> /\ Running(Main)
        /\ main' = "exited" /\ Release /\ Yield(Granted)
        /\ (main = "signalled" /\ LockFree) \/ main = "locking"
    BY <1>5 DEF MainStop
  <2>2. owner = Main \/ (LockFree /\ Main \notin Queuing \cup Holding)
    <3>1. CASE main = "locking"
      BY <2>1, <3>1, LockersIn, OwnerRuns
    <3>2. CASE main = "signalled" /\ LockFree
      BY <3>2, LockersIn
    <3> QED BY <2>1, <3>1, <3>2
  <2>3. Queuing' = Queuing \ {Main} /\ Holding' = Holding \ {Main}
    BY <2>1, Names DEF Queuing, Holding, Lockers
  <2> QED BY <1>2, <2>1, <2>2, <2>3, Names, OtherReleases
<1> QED BY <1>3, <1>4, <1>5 DEF MainCoroutine

(* A call of the synchroniser enters its section. *)
LEMMA SyncHolds ==
  ASSUME LoopInv, Running(Sync), UNCHANGED <<active, task, monitor, main, pmode>>,
         Hold(Sync), owner = Sync \/ LockFree, sync # "gathering", sync' \in Inside,
         NEW v, Line(v, Coroutines), Yield(v), ToSet(v) \subseteq {Sync},
         IF sync' = "gathering" THEN Sync \in ToSet(v) <=> active = {} ELSE ToSet(v) = {}
  PROVE  LoopInv'
<1>1. pmode # "wait"
  BY LockersIn, LockersAre, Names DEF LoopInv, LockInv, LockFree
<1>2. Queuing' = Queuing \ {Sync} /\ Holding' = {Sync} /\ Sync \in Lockers
  <2>1. Queuing' = Queuing \ {Sync}
    BY Names DEF Queuing, Inside
  <2>2. Holding' = {Sync} /\ Sync \in Lockers
    BY <1>1, Names DEF Holding, Lockers
  <2> QED BY <2>1, <2>2
<1>3. /\ LockInv(Queuing, Holding)' /\ Sync \in ToSet(ready)
      /\ ToSet(ready') = (ToSet(ready) \ {Sync}) \cup ToSet(v)
  BY <1>2, HoldSteps
<1>4. Resting'
  BY <1>3, Names DEF LoopInv, Resting, Away
<1> QED BY <1>3, <1>4 DEF LoopInv

(* gather: the synchroniser sleeps unless no task is left.                 *)
LEMMA Gathers ==
  ASSUME GatherTasks
  PROVE  /\ sync' \in {"gathering", "resetSent"}
         /\ \E v : /\ Line(v, Coroutines) /\ Yield(v) /\ ToSet(v) \subseteq {Sync}
                   /\ IF sync' = "gathering" THEN Sync \in ToSet(v) <=> active = {}
                      ELSE ToSet(v) = {}
<1>1. Line(<<>>, Coroutines) /\ ToSet(<<>>) = {}
  BY EmptyLine
<1>2. Line(<<Sync>>, Coroutines) /\ ToSet(<<Sync>>) = {Sync}
  BY Names, OneLine
<1> QED BY <1>1, <1>2 DEF GatherTasks

(* The synchroniser's steps.                                               *)
LEMMA SyncLoop ==
  ASSUME LoopInv, TypeInv, SyncCalls
  PROVE  LoopInv'
<1> USE DEF procVars, syncVars
<1>1. Line(<<>>, Coroutines) /\ ToSet(<<>>) = {}
  BY EmptyLine
<1>2. Sync \in Lockers /\ Sync \in {Mon, Main, Sync}
  BY DEF Lockers
<1>3. ASSUME NEW called, NEW queued \in {"pauseLock", "updateLock", "resumeLock"},
             SyncEnters(called, queued)
      PROVE  Running(Sync) /\ (owner = Sync \/ LockFree) /\ sync \in {called, queued}
  <2>1. /\ Running(Sync) /\ sync \in {called, queued}
        /\ sync = queued \/ LockFree
    BY <1>3 DEF SyncEnters
  <2>2. sync = queued => owner = Sync
    BY <2>1, LockersIn, OwnerRuns
  <2> QED BY <2>1, <2>2
<1>4. CASE SyncBlock
  <2>1. /\ UNCHANGED <<active, task, monitor, main, pmode>> /\ Running(Sync)
        /\ sync \in {"pause", "update", "resume"} /\ Enqueue(Sync)
        /\ sync' \in {"pauseLock", "updateLock", "resumeLock"}
    BY <1>4 DEF SyncBlock, taskVars
  <2>2. Queuing' = Queuing \cup {Sync} /\ Holding' = Holding /\ Sync \notin Queuing \cup Holding
    <3>1. Sync \notin Queuing \cup Holding
      BY <2>1, LockersIn DEF Inside
    <3>2. Queuing' = Queuing \cup {Sync}
      BY <2>1, Names DEF Queuing, Lockers
    <3>3. Holding' = Holding
      BY <2>1, Names DEF Holding, Inside
    <3> QED BY <3>1, <3>2, <3>3
  <2>3. LockInv(Queuing, Holding)' /\ ToSet(ready') = (ToSet(ready) \ {Sync}) \cup {}
    BY <1>2, <2>1, <2>2, EnqueueSteps
  <2>4. Resting'
    BY <1>2, <2>1, <2>3, Names, OtherRests
  <2> QED BY <2>3, <2>4 DEF LoopInv
<1>5. CASE PauseBegin
  <2>1. /\ UNCHANGED <<active, task, monitor, main, pmode>> /\ Hold(Sync)
        /\ SyncEnters("pause", "pauseLock")
        /\ (sync' = "cancelSent" /\ Yield(<<>>)) \/ GatherTasks
    BY <1>5 DEF PauseBegin, taskVars
  <2>2. Running(Sync) /\ (owner = Sync \/ LockFree) /\ sync # "gathering"
    BY <1>3, <2>1
  <2>3. CASE sync' = "cancelSent" /\ Yield(<<>>)
    BY <1>1, <2>1, <2>2, <2>3, SyncHolds DEF Inside
  <2>4. CASE GatherTasks
    BY <2>1, <2>2, <2>4, Gathers, SyncHolds DEF Inside
  <2> QED BY <2>1, <2>3, <2>4
<1>6. CASE UpdateBegin \/ ResumeServers
  <2>1. /\ UNCHANGED <<active, task, monitor, main, pmode>> /\ Hold(Sync) /\ Yield(<<>>)
        /\ \/ SyncEnters("update", "updateLock")
           \/ SyncEnters("resume", "resumeLock")
        /\ sync' \in {"countSent", "restartSent"}
    BY <1>6 DEF UpdateBegin, ResumeServers, taskVars
  <2>2. Running(Sync) /\ (owner = Sync \/ LockFree) /\ sync # "gathering"
    BY <1>3, <2>1
  <2> QED BY <1>1, <2>1, <2>2, SyncHolds DEF Inside
<1>7. CASE PauseCancelled
  <2>1. /\ UNCHANGED <<owner, waiters, active, task, monitor, main, pmode>> /\ GatherTasks
        /\ Running(Sync) /\ sync = "cancel"
    BY <1>7 DEF PauseCancelled, taskVars
  <2>2. PICK v : /\ Line(v, Coroutines) /\ Yield(v) /\ ToSet(v) \subseteq {Sync}
                 /\ IF sync' = "gathering" THEN Sync \in ToSet(v) <=> active = {}
                    ELSE ToSet(v) = {}
    BY <2>1, Gathers
  <2>3. sync' \in {"gathering", "resetSent"}
    BY <2>1, Gathers
  <2>4. UNCHANGED <<Queuing, Holding>> /\ Sync \notin Queuing
    BY <2>1, <2>3, LockersIn DEF Queuing, Holding, Inside
  <2>5. LockInv(Queuing, Holding)' /\ ToSet(ready') = (ToSet(ready) \ {Sync}) \cup ToSet(v)
    BY <2>1, <2>2, <2>4, YieldSteps
  <2>6. Resting'
    BY <2>1, <2>2, <2>3, <2>5, Names DEF LoopInv, Resting, Away
  <2> QED BY <2>5, <2>6 DEF LoopInv
<1>8. CASE PauseGathered
  <2>1. /\ UNCHANGED <<owner, waiters, task, monitor, main, pmode>> /\ Yield(<<>>)
        /\ Running(Sync) /\ sync = "gathering" /\ sync' = "resetSent" /\ active' = {}
    BY <1>8 DEF PauseGathered
  <2>2. active = {}
    BY <2>1, RunningIsReady DEF LoopInv, Resting
  <2>3. UNCHANGED <<Queuing, Holding>> /\ Sync \notin Queuing
    BY <2>1, LockersIn DEF Queuing, Holding, Inside
  <2>4. LockInv(Queuing, Holding)' /\ ToSet(ready') = ToSet(ready) \ {Sync}
    BY <1>1, <2>1, <2>3, YieldSteps
  <2>5. Resting'
    BY <2>1, <2>2, <2>4, Names DEF LoopInv, Resting, Away
  <2> QED BY <2>4, <2>5 DEF LoopInv
<1>9. CASE UpdateCounted
  <2>1. /\ UNCHANGED <<owner, waiters, active, task, monitor, main, pmode>> /\ Yield(<<>>)
        /\ Running(Sync) /\ sync = "count" /\ sync' = "publishSent"
    BY <1>9 DEF UpdateCounted, taskVars
  <2>2. UNCHANGED <<Queuing, Holding>> /\ Sync \notin Queuing
    BY <2>1, LockersIn DEF Queuing, Holding, Inside
  <2>3. LockInv(Queuing, Holding)' /\ ToSet(ready') = (ToSet(ready) \ {Sync}) \cup {}
    BY <1>1, <2>1, <2>2, YieldSteps
  <2>4. Resting'
    BY <1>2, <2>1, <2>3, Names, OtherRests
  <2> QED BY <2>3, <2>4 DEF LoopInv
<1>10. CASE PauseEnd \/ UpdateEnd
  <2>1. /\ UNCHANGED <<active, task, monitor, main, pmode>> /\ Running(Sync)
        /\ Release /\ Yield(Granted) /\ sync \in {"reset", "publish"}
        /\ sync' \in {"paused", "resumeSent"}
    BY <1>10 DEF PauseEnd, UpdateEnd, taskVars
  <2>2. owner = Sync
    BY <2>1, LockersIn, OwnerRuns DEF Inside
  <2>3. Queuing' = Queuing \ {Sync} /\ Holding' = Holding \ {Sync}
    BY <2>1, Names DEF Queuing, Holding, Inside
  <2> QED BY <1>2, <2>1, <2>2, <2>3, Names, OtherReleases
<1>11. CASE ResumeEnd
  <2>1. /\ UNCHANGED <<active, task, monitor, main>>
        /\ Release /\ Yield(Notified \o Granted) /\ sync' = "idle"
        /\ pmode' = IF pmode = "cond" THEN "woken" ELSE pmode
        /\ SyncEnters("resume", "resumeLock") \/ (Running(Sync) /\ sync = "restart")
    BY <1>11 DEF ResumeEnd, ResumeEffect, NotifyProcessor, taskVars
  <2>2. /\ Running(Sync) /\ sync # "gathering"
        /\ owner = Sync \/ (LockFree /\ Sync \notin Queuing \cup Holding)
    <3>1. CASE Running(Sync) /\ sync = "restart"
      BY <3>1, LockersIn, OwnerRuns DEF Inside
    <3>2. CASE SyncEnters("resume", "resumeLock")
      <4>1. Running(Sync) /\ (sync = "resumeLock" \/ (sync = "resume" /\ LockFree))
        BY <3>2 DEF SyncEnters
      <4>2. sync = "resumeLock" => owner = Sync
        BY <4>1, LockersIn, OwnerRuns
      <4>3. sync = "resume" => Sync \notin Queuing \cup Holding
        BY LockersIn DEF Inside
      <4> QED BY <4>1, <4>2, <4>3
    <3> QED BY <2>1, <3>1, <3>2
  <2>3. Queuing' = Queuing \ {Sync} /\ Holding' = Holding \ {Sync}
    BY <2>1, Names DEF Queuing, Holding, Inside
  <2> QED BY <1>2, <2>1, <2>2, <2>3, Names, OtherReleases
<1> QED BY <1>4, <1>5, <1>6, <1>7, <1>8, <1>9, <1>10, <1>11 DEF SyncCalls

LEMMA LoopInvInit == Init => LoopInv
<1> SUFFICES ASSUME Init PROVE LoopInv
  OBVIOUS
<1> USE DEF Init, RollInit
<1>1. Line(<<>>, Coroutines) /\ ToSet(<<>>) = {}
  BY EmptyLine
<1>2. /\ Line(<<Feeder, Proc>>, Coroutines)
      /\ ToSet(<<Feeder, Proc>>) = {Feeder, Proc}
  BY Names, TwoLine
<1>3. Queuing = {} /\ Holding = {}
  BY DEF Queuing, Holding, Inside
<1>4. LockInv(Queuing, Holding)
  BY <1>1, <1>2, <1>3 DEF LockInv, LockFree
<1>5. Resting
  BY <1>2, Names DEF Resting
<1> QED BY <1>4, <1>5 DEF LoopInv

(* The trainer, the transfer and the task runner. *)
LEMMA OutsideLoop ==
  ASSUME LoopInv, Trainer \/ Transfer \/ MainClear \/ UNCHANGED vars
  PROVE  LoopInv'
<1> USE DEF rollVars, loopVars, taskVars, procVars, syncVars
<1>1. /\ UNCHANGED <<ready, owner, waiters, active, task, pmode, monitor, main>>
      /\ sync' = sync \/ (sync \in Away /\ sync' \in {"pauseSent", "transfer", "updateSent"}
                            /\ sync \notin Inside)
  <2>1. CASE Trainer
    BY <2>1 DEF Trainer, TrainerLog, TrainerGet, TrainerStep, SyncWeights, FinalLog,
                FinalDecide, FinalValidLog, LastCallOver, Away, Inside
  <2>2. CASE Transfer
    BY <2>2 DEF Transfer, TransferBegin, TransferEnd, Away, Inside
  <2>3. CASE MainClear \/ UNCHANGED vars
    BY <2>3 DEF MainClear, vars
  <2> QED BY <2>1, <2>2, <2>3
<1>2. UNCHANGED <<Queuing, Holding>>
  <2>1. Queuing' = Queuing
    BY <1>1 DEF Queuing, Away
  <2>2. Holding' = Holding
    BY <1>1 DEF Holding, Inside
  <2> QED BY <2>1, <2>2
<1>3. LockInv(Queuing, Holding)'
  BY <1>1, <1>2 DEF LoopInv, LockInv, LockFree
<1>4. Resting'
  BY <1>1 DEF LoopInv, Resting, Away
<1> QED BY <1>3, <1>4 DEF LoopInv

LEMMA LoopInvStep == LoopInv /\ TypeInv /\ HandIdle /\ [Next]_vars => LoopInv'
<1> SUFFICES ASSUME LoopInv, TypeInv, HandIdle, [Next]_vars
             PROVE  LoopInv'
  OBVIOUS
<1>1. CASE Rollout
  <2>1. RollNext
    BY <1>1 DEF Rollout
  <2>2. CASE EventLoop
    BY <2>2, TaskSteps, ProcSteps, MonitorLoop, MainLoop, SyncLoop DEF EventLoop
  <2>3. CASE Replies \/ MonitorTimer
    BY <2>3, CallSteps
  <2>4. CASE \E s \in Samples : Generation(s) \/ ServerError(s)
    BY <2>4, ServerSteps DEF Generation
  <2> QED BY <2>1, <2>2, <2>3, <2>4 DEF RollNext
<1>2. CASE Trainer \/ Transfer \/ MainClear \/ UNCHANGED vars
  BY <1>2, OutsideLoop
<1> QED BY <1>1, <1>2 DEF Next, Terminated

-----------------------------------------------------------------------------
(* The tasks.  The limit is verified before the second critical section    *)
(* of the processor; nothing adds a task between.                          *)
TasksInv ==
  /\ TasksLimited
  /\ ppc = "submit" => ActiveTasks < MaxConcurrent

(* What the count of the tasks is made of.                                 *)
LEMMA CountedTasks ==
  ASSUME TypeInv
  PROVE  /\ IsFiniteSet(active) /\ Cardinality(active) \in Nat
         /\ finished.ok \in Nat /\ finished.bad \in Nat /\ ActiveTasks \in Nat
         /\ finished = [ok |-> finished.ok, bad |-> finished.bad]
<1>1. active \subseteq Samples /\ finished \in [ok : Nat, bad : Nat]
  BY DEF TypeInv, SampleTypes
<1>2. IsFiniteSet(active)
  <2>1. IsFiniteSet(Samples)
    BY Constants, FS_Interval
  <2> QED BY <1>1, <2>1, FS_Subset
<1>3. Cardinality(active) \in Nat
  BY <1>2, FS_CardinalityType
<1>4. finished.ok \in Nat /\ finished.bad \in Nat
      /\ finished = [ok |-> finished.ok, bad |-> finished.bad]
  BY <1>1
<1>5. ActiveTasks \in Nat
  BY <1>3, <1>4 DEF ActiveTasks
<1> QED BY <1>2, <1>3, <1>4, <1>5

(* The steps that add, finish or forget tasks. *)
LEMMA TaskCountSteps ==
  ASSUME TypeInv, [Next]_vars
  PROVE  \/ ProcSubmit \/ ProcCollect \/ PauseGathered
         \/ ProcLoopDone /\ UNCHANGED <<active, finished>>
         \/ \E s \in Samples : TaskReturn(s)
         \/ UNCHANGED <<active, finished>> /\ (ppc' = "submit" => ppc = "submit")
<1> USE DEF taskVars, procVars, rollVars
<1>1. CASE Processor
  BY <1>1 DEF Processor, ProcCheck, ProcBlock, ProcSetPaused, ProcLoopDone, ProcCollectBegin,
     ProcCollectNothing, ProcIdle, TakeCancelled, TakePending, TakeWait, GoOn, Suspend, Stop
<1>2. CASE Tasks \/ FeedSamples
  BY <1>2 DEF Tasks, TaskSubmit, TaskComplete, FeedSamples
<1>3. CASE Monitor \/ MainCoroutine \/ MonitorTimer
  BY <1>3 DEF Monitor, MonitorTick, MonitorBlock, MonitorUnpause, MonitorLook,
     MainCoroutine, MainWake, MainBlock, MainStop, MonitorTimer
<1>4. CASE SyncCalls
  BY <1>4 DEF SyncCalls, SyncBlock, PauseBegin, PauseCancelled, PauseEnd, UpdateBegin,
     UpdateCounted, UpdateEnd, ResumeServers, ResumeEnd, ResumeEffect
<1>5. CASE Replies
  BY <1>5 DEF Replies, MainSignal, CallArrives, ServersCancel, ServersReset, QueueCounts,
     QueuePublishes, ServersResume
<1>6. CASE \E s \in Samples : Generation(s) \/ ServerError(s)
  BY <1>6 DEF Generation, ServerAdmit, ServerAnswer, ServerError, QueuePut
<1>7. CASE Trainer
  BY <1>7 DEF Trainer, TrainerLog, TrainerGet, TrainerStep, SyncWeights, FinalLog,
              FinalDecide, FinalValidLog
<1>8. CASE Transfer \/ MainClear \/ UNCHANGED vars
  BY <1>8 DEF Transfer, TransferBegin, TransferEnd, MainClear, vars
<1> QED BY <1>1, <1>2, <1>3, <1>4, <1>5, <1>6, <1>7, <1>8
   DEF Next, Rollout, RollNext, EventLoop, Terminated

LEMMA TasksInvInit == Init => TasksInv
<1> SUFFICES ASSUME Init PROVE TasksInv
  OBVIOUS
<1>1. ActiveTasks = 0
  <2>1. Cardinality(active) = 0
    BY FS_EmptySet DEF Init, RollInit
  <2> QED BY <2>1 DEF Init, RollInit, ActiveTasks
<1> QED BY <1>1, Constants DEF TasksInv, TasksLimited, Init, RollInit

LEMMA TasksInvStep == TasksInv /\ TypeInv /\ LoopInv /\ [Next]_vars => TasksInv'
<1> SUFFICES ASSUME TasksInv, TypeInv, LoopInv, [Next]_vars
             PROVE  TasksInv'
  OBVIOUS
<1> USE DEF TasksInv, TasksLimited
<1>1. /\ IsFiniteSet(active) /\ Cardinality(active) \in Nat
      /\ finished.ok \in Nat /\ finished.bad \in Nat /\ ActiveTasks \in Nat
      /\ ActiveTasks = Cardinality(active) + finished.ok + finished.bad
  BY CountedTasks DEF ActiveTasks
<1>2. MaxConcurrent \in Nat \ {0}
  BY Constants
<1>3. CASE UNCHANGED <<active, finished>> /\ (ppc' = "submit" => ppc = "submit")
  <2>1. ActiveTasks' = ActiveTasks
    BY <1>3 DEF ActiveTasks
  <2> QED BY <1>3, <2>1
<1>4. CASE ProcLoopDone /\ UNCHANGED <<active, finished>>
  <2>1. ActiveTasks' = ActiveTasks
    BY <1>4 DEF ActiveTasks
  <2>2. ppc' = "submit" => ~(ActiveTasks >= MaxConcurrent)
    BY <1>4 DEF ProcLoopDone, MustCollect, GoOn, Stop
  <2> QED BY <1>1, <1>2, <2>1, <2>2
<1>5. CASE ProcSubmit
  <2>1. ppc = "submit" /\ hand \in Samples /\ UNCHANGED finished
        /\ \/ UNCHANGED <<active, ppc>>
           \/ active' = active \cup {hand} /\ ppc' = "check"
    BY <1>5 DEF ProcSubmit, TypeInv, InHand, GoOn, Suspend
  <2>2. CASE UNCHANGED <<active, ppc>>
    <3>1. ActiveTasks' = ActiveTasks
      BY <2>1, <2>2 DEF ActiveTasks
    <3> QED BY <2>1, <2>2, <3>1
  <2>3. CASE active' = active \cup {hand} /\ ppc' = "check"
    <3>1. Cardinality(active \cup {hand}) \in {Cardinality(active), Cardinality(active) + 1}
      BY <1>1, FS_AddElement
    <3>2. ActiveTasks' = Cardinality(active') + finished.ok + finished.bad
      BY <2>1 DEF ActiveTasks
    <3>3. ActiveTasks' <= ActiveTasks + 1
      BY <1>1, <2>3, <3>1, <3>2
    <3>4. ActiveTasks' \in Nat
      BY <1>1, <2>3, <3>1, <3>2
    <3> QED BY <1>1, <1>2, <2>1, <2>3, <3>3, <3>4
  <2> QED BY <2>1, <2>2, <2>3
<1>6. CASE ProcCollect
  <2>1. active' = active /\ finished' = [ok |-> 0, bad |-> 0]
        /\ (ppc' = ppc \/ ppc' = "failed")
    BY <1>6 DEF ProcCollect, GoOn, Stop
  <2>2. ActiveTasks' = Cardinality(active)
    BY <1>1, <2>1 DEF ActiveTasks
  <2> QED BY <1>1, <1>2, <2>1, <2>2
<1>7. CASE PauseGathered
  <2>1. active' = {} /\ finished' = [ok |-> 0, bad |-> 0] /\ ppc' = ppc
    BY <1>7 DEF PauseGathered, procVars
  <2>2. ActiveTasks' = 0
    <3>1. Cardinality({}) = 0
      BY FS_EmptySet
    <3> QED BY <2>1, <3>1 DEF ActiveTasks
  <2> QED BY <1>1, <1>2, <2>1, <2>2
<1>8. ASSUME NEW s \in Samples, TaskReturn(s)
      PROVE  TasksInv'
  <2>1. task[s] # "none" /\ active' = active \ {s} /\ ppc' = ppc
        /\ \/ finished' = [finished EXCEPT !.ok = finished.ok + 1]
           \/ finished' = [finished EXCEPT !.bad = finished.bad + 1]
    BY <1>8 DEF TaskReturn, Finish, procVars
  <2>2. s \in active
    BY <2>1 DEF LoopInv, Resting
  <2>3. Cardinality(active \ {s}) = Cardinality(active) - 1
    BY <1>1, <2>2, FS_RemoveElement
  <2>4. finished'.ok + finished'.bad = finished.ok + finished.bad + 1
    <3>1. finished \in [ok : Nat, bad : Nat]
      BY DEF TypeInv, SampleTypes
    <3> QED BY <2>1, <3>1
  <2>5. finished'.ok \in Nat /\ finished'.bad \in Nat
    <3>1. finished \in [ok : Nat, bad : Nat]
      BY DEF TypeInv, SampleTypes
    <3> QED BY <2>1, <3>1
  <2>6. ActiveTasks' = Cardinality(active') + finished'.ok + finished'.bad
    BY DEF ActiveTasks
  <2>7. Cardinality(active') = Cardinality(active) - 1
    BY <2>1, <2>3
  <2>8. ActiveTasks' = ActiveTasks
    BY <1>1, <2>4, <2>5, <2>6, <2>7
  <2> QED BY <2>1, <2>8
<1> QED BY <1>3, <1>4, <1>5, <1>6, <1>7, <1>8, TaskCountSteps

===============================================================================
