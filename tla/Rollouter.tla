------------------------------- MODULE Rollouter -------------------------------
(***************************************************************************)
(* The FullyAsyncRollouter actor of recipe/fully_async_policy: one asyncio *)
(* event loop that runs the feeder, the processor, one task per sample in  *)
(* flight, the monitor, the main coroutine and the calls the parameter     *)
(* synchroniser makes (pause, update_param_version, resume); the rollout   *)
(* servers those tasks talk to; the message queue they put samples into.   *)
(*                                                                         *)
(* Scheduling.  ready is the event loop's FIFO of coroutines that can run. *)
(* The head of it runs until it suspends: taking a free lock, reading a    *)
(* non-empty queue and the blocking ray.get calls do not suspend.  Its     *)
(* stretch up to the suspension is one action; the processor, which may go *)
(* round its loop several times, takes several and stays the head.  The    *)
(* rest of the world (servers, queue, trainer, timers) interleaves freely  *)
(* and wakes coroutines by appending them to ready.                        *)
(*                                                                         *)
(* asyncio.Lock is fair: release() hands the lock to the first waiter and  *)
(* nobody overtakes one, so the lock is an owner and a queue.              *)
(***************************************************************************)
EXTENDS MessageQueue, SequencesExt

CONSTANTS
  Total,            (* total_rollout_steps: samples 1..Total are fed        *)
  Required,         (* required_samples = ppo_mini_batch_size*require_batches *)
  Trigger,          (* trigger_parameter_sync_step                          *)
  StalenessPct,     (* staleness_threshold, in hundredths                   *)
  ServerSlots,      (* 16 * number of server handles                        *)
  PendingCap,       (* maxsize of pending_queue (128)                       *)
  PartialRollout,   (* async_training.partial_rollout                       *)
  MaxFailures       (* bound of the model on failing generation calls       *)

Samples == 1..Total
DONE == Total + 1             (* the feeder's end signal                    *)
STOP == Total + 2             (* the None sample that ends the trainer      *)
Dataset == [i \in 1..DONE |-> i]

(* int(required_samples * (staleness_threshold + 1) * trigger) *)
MaxRequired == (Required * (100 + StalenessPct) * Trigger) \div 100
MaxConcurrent == IF ServerSlots < MaxRequired THEN ServerSlots ELSE MaxRequired

ASSUME RollouterAssumption ==
  /\ {Total, Required, Trigger, ServerSlots, PendingCap} \subseteq Nat \ {0}
  /\ StalenessPct \in Nat /\ MaxFailures \in Nat
  /\ PartialRollout \in BOOLEAN
  /\ max_queue_size = MaxRequired
  /\ Payload = Samples \cup {STOP}

(* The coroutines of the event loop. *)
Feeder == <<"feeder", 0>>
Proc   == <<"processor", 0>>
Mon    == <<"monitor", 0>>
Main   == <<"main", 0>>
Sync   == <<"sync", 0>>
Task(s) == <<"task", s>>
Nobody == <<"nobody", 0>>

VARIABLES
  ready,                 (* the event loop's ready queue                     *)
  owner, waiters,        (* self.lock: its holder and its FIFO of waiters    *)
  pending, fed,          (* pending_queue; how much of the dataset was put   *)
  cancelled,             (* cancel_queue                                     *)
  active,                (* unfinished members of active_tasks, by sample    *)
  finished,              (* finished members not yet collected: [ok, bad]    *)
  task,                  (* sample -> where its task stands                  *)
  ppc, pmode, hand,      (* processor: loop head, mode, rollout_sample       *)
  done_bound,            (* the processor's local done_tasks is bound        *)
  paused, running, monitor_loop_trigger, staleness_samples,
  current_param_version,
  monitor, main,         (* where the monitor and the main coroutine stand   *)
  sync,                  (* where the synchroniser's current call stands     *)
  sync_version,          (* the version it brings                            *)
  recount,               (* update_param_version's partial sum               *)
  server_paused, weights,(* rollout servers                                  *)
  stamp,                 (* sample -> param_version stamped at completion    *)
  made_by,               (* history: sample -> weights that generated it     *)
  dropped, failed,       (* history: samples evicted, samples whose task raised *)
  put_since_update       (* history: samples put since the last weight update *)

loopVars   == <<ready, owner, waiters>>
queueVars  == <<pending, fed, cancelled>>
taskVars   == <<active, finished, task>>
procVars   == <<ppc, pmode, hand, done_bound>>
flagVars   == <<paused, running, monitor_loop_trigger, staleness_samples,
                current_param_version>>
syncVars   == <<sync, sync_version, recount>>
serverVars == <<server_paused, weights>>
histVars   == <<stamp, made_by, dropped, failed, put_since_update>>
rollVars   == <<loopVars, queueVars, taskVars, procVars, flagVars, monitor, main,
                syncVars, serverVars, histVars>>

NoSample == 0

(* len(self.active_tasks) *)
ActiveTasks == Cardinality(active) + finished.ok + finished.bad

-----------------------------------------------------------------------------
(* The event loop, the lock and the condition.                             *)
Running(c) == ready # <<>> /\ Head(ready) = c

IsReady(c) == c \in ToSet(ready)

(* The running coroutine suspends or ends, having woken those of w in order. *)
Yield(w) == ready' = Tail(ready) \o w

(* The running coroutine goes on, having woken those of w. *)
Continue(w) == ready' = ready \o w

(* A reply, a call or a timer from outside the loop. *)
Arrive(c) == ready' = Append(ready, c)

LockFree == owner = Nobody

(* "async with self.lock" while the lock is held. *)
Enqueue(c) ==
  /\ ~LockFree
  /\ waiters' = Append(waiters, c)
  /\ Yield(<<>>)
  /\ UNCHANGED owner

Hold(c) == owner' = c /\ UNCHANGED waiters

Release ==
  IF waiters = <<>>
    THEN owner' = Nobody /\ UNCHANGED waiters
    ELSE owner' = Head(waiters) /\ waiters' = Tail(waiters)

Granted == IF waiters = <<>> THEN <<>> ELSE <<Head(waiters)>>

NotifyProcessorMutant == UNCHANGED pmode

(* condition.notify_all(): only the processor waits on the condition. *)
NotifyProcessor == pmode' = IF pmode = "cond" THEN "woken" ELSE pmode
NotifiedMutant == <<>>

Notified == IF pmode = "cond" THEN <<Proc>> ELSE <<>>

RollInit ==
  /\ ready = <<Feeder, Proc>> /\ owner = Nobody /\ waiters = <<>>
  /\ pending = <<>> /\ fed = 0 /\ cancelled = <<>>
  /\ active = {} /\ finished = [ok |-> 0, bad |-> 0]
  /\ task = [s \in Samples |-> "none"]
  /\ ppc = "check" /\ pmode = "run" /\ hand = NoSample /\ done_bound = FALSE
  /\ paused = FALSE /\ running = TRUE /\ monitor_loop_trigger = TRUE
  /\ staleness_samples = 0 /\ current_param_version = 0
  /\ monitor = "sleep" /\ main = "streaming"
  /\ sync = "idle" /\ sync_version = 0 /\ recount = 0
  /\ server_paused = FALSE /\ weights = 0
  /\ stamp = [s \in Samples |-> 0]
  /\ made_by = [s \in Samples |-> {}]
  /\ dropped = {} /\ failed = {} /\ put_since_update = 0

-----------------------------------------------------------------------------
(* _feed_samples: puts without suspending until pending_queue is full; the *)
(* first put wakes a processor that waits in pending_queue.get().          *)
FeedSamples ==
  /\ Running(Feeder)
  /\ LET room == PendingCap - Len(pending)
         last == IF fed + room < DONE THEN fed + room ELSE DONE
     IN /\ pending' = pending \o SubSeq(Dataset, fed + 1, last)
        /\ fed' = last
        /\ Yield(IF pmode = "get" /\ last > fed /\ ~IsReady(Proc)
                   THEN <<Proc>> ELSE <<>>)
  /\ UNCHANGED <<mqVars, owner, waiters, cancelled, taskVars, procVars, flagVars,
                 monitor, main, syncVars, serverVars, histVars>>

(* Taking an item wakes a feeder that waits in pending_queue.put(). *)
FeederWoken ==
  IF fed < DONE /\ Len(pending) = PendingCap /\ ~IsReady(Feeder)
    THEN <<Feeder>> ELSE <<>>

-----------------------------------------------------------------------------
ShouldPauseMutant == \/ Len(queue) >= max_queue_size
                     \/ staleness_samples > MaxRequired

(* _should_pause_generation                                                *)
ShouldPause == \/ Len(queue) >= max_queue_size
               \/ staleness_samples >= MaxRequired

(* _processor_worker.  ppc names the loop head or the locked section:      *)
(*   check -> (pause -> drain -> idle ->) check, or                        *)
(*   check -> take -> limit -> submit -> check, or take -> final -> exited *)
(* pmode: run; lock (queued for the lock, or just granted it); wait (in    *)
(* asyncio.wait, holding the lock); cond (in condition.wait); woken        *)
(* (notified, must take the lock again); get (in pending_queue.get());     *)
(* stop.                                                                   *)
GoOn(pc, w) == ppc' = pc /\ pmode' = "run" /\ Continue(w)
Suspend(mode, w) == pmode' = mode /\ Yield(w) /\ UNCHANGED ppc

(* Either way the main coroutine, which waits for the processor, wakes. *)
Stop(how, w) == ppc' = how /\ pmode' = "stop" /\ Yield(w \o <<Main>>)

ProcCheck ==
  /\ Running(Proc) /\ pmode = "run" /\ ppc = "check"
  /\ GoOn(IF paused \/ ShouldPause THEN "pause" ELSE "take", <<>>)
  /\ UNCHANGED <<mqVars, owner, waiters, queueVars, taskVars, hand, done_bound,
                 flagVars, monitor, main, syncVars, serverVars, histVars>>

MustCollectMutant == \/ ppc \in {"drain", "final"} /\ ActiveTasks > 0
                     \/ ppc = "limit" /\ ActiveTasks > MaxConcurrent

(* while self.active_tasks / while len(self.active_tasks) >= max_concurrent *)
MustCollect == \/ ppc \in {"drain", "final"} /\ ActiveTasks > 0
               \/ ppc = "limit" /\ ActiveTasks >= MaxConcurrent

WantsLock ==
  \/ pmode = "run" /\ (ppc \in {"pause", "idle", "submit"} \/ MustCollect)
  \/ pmode = "woken"

(* After a notification condition.wait() takes the lock again. *)
ProcBlock ==
  /\ Running(Proc) /\ WantsLock
  /\ Enqueue(Proc)
  /\ pmode' = "lock"
  /\ UNCHANGED <<mqVars, queueVars, taskVars, ppc, hand, done_bound, flagVars,
                 monitor, main, syncVars, serverVars, histVars>>

(* The processor enters a locked section: the lock was granted or is free. *)
ProcHasLock ==
  /\ Running(Proc)
  /\ \/ pmode = "lock" /\ owner = Proc
     \/ WantsLock /\ LockFree

ProcSetPaused ==
  /\ ppc = "pause" /\ ProcHasLock
  /\ paused' = TRUE
  /\ Release
  /\ GoOn("drain", Granted)
  /\ UNCHANGED <<mqVars, queueVars, taskVars, hand, done_bound, running,
                 monitor_loop_trigger, staleness_samples, current_param_version,
                 monitor, main, syncVars, serverVars, histVars>>

ProcLoopDone ==
  /\ Running(Proc) /\ pmode = "run" /\ ~MustCollect
  /\ \/ ppc = "drain" /\ GoOn("idle", <<>>)
     \/ ppc = "limit" /\ GoOn("submit", <<>>)
     \/ ppc = "final" /\ Stop("exited", <<>>)
  /\ UNCHANGED <<mqVars, owner, waiters, queueVars, taskVars, hand, done_bound,
                 flagVars, monitor, main, syncVars, serverVars, histVars>>

(* asyncio.wait(self.active_tasks, FIRST_COMPLETED) suspends even when a   *)
(* task is finished already; the lock stays held.                          *)
ProcCollectBegin ==
  /\ ppc \in {"drain", "limit", "final"} /\ ProcHasLock
  /\ ActiveTasks > 0
  /\ Hold(Proc)
  /\ Suspend("wait", IF finished.ok + finished.bad > 0 THEN <<Proc>> ELSE <<>>)
  /\ UNCHANGED <<mqVars, queueVars, taskVars, hand, done_bound, flagVars, monitor,
                 main, syncVars, serverVars, histVars>>

(* The wait returns every finished task; awaiting a failed one raises. *)
ProcCollect ==
  /\ Running(Proc) /\ pmode = "wait"
  /\ finished' = [ok |-> 0, bad |-> 0]
  /\ done_bound' = TRUE
  /\ Release
  /\ IF finished.bad > 0 THEN Stop("failed", Granted) ELSE GoOn(ppc, Granted)
  /\ UNCHANGED <<mqVars, queueVars, active, task, hand, flagVars, monitor, main,
                 syncVars, serverVars, histVars>>

(* pause() emptied active_tasks while the processor queued for the lock:   *)
(* the for loop runs over the done_tasks of an earlier wait or, when there *)
(* was none, raises UnboundLocalError.                                     *)
ProcCollectNothing ==
  /\ ppc \in {"drain", "limit", "final"} /\ ProcHasLock
  /\ ActiveTasks = 0
  /\ Release
  /\ IF done_bound THEN GoOn(ppc, Granted) ELSE Stop("failed", Granted)
  /\ UNCHANGED <<mqVars, queueVars, taskVars, hand, done_bound, flagVars, monitor,
                 main, syncVars, serverVars, histVars>>

(* async with self.lock: while self.paused: await self.condition.wait() *)
ProcIdle ==
  /\ ppc = "idle" /\ ProcHasLock
  /\ Release
  /\ IF paused THEN Suspend("cond", Granted) ELSE GoOn("check", Granted)
  /\ UNCHANGED <<mqVars, queueVars, taskVars, hand, done_bound, flagVars, monitor,
                 main, syncVars, serverVars, histVars>>

(* The cancel queue goes first; get() of an empty pending_queue suspends   *)
(* and, once woken, does not look at the cancel queue again.               *)
TakeCancelled ==
  /\ Running(Proc) /\ pmode = "run" /\ ppc = "take" /\ cancelled # <<>>
  /\ hand' = Head(cancelled)
  /\ cancelled' = Tail(cancelled)
  /\ GoOn("limit", <<>>)
  /\ UNCHANGED <<mqVars, owner, waiters, pending, fed, taskVars, done_bound,
                 flagVars, monitor, main, syncVars, serverVars, histVars>>

TakePending ==
  /\ Running(Proc) /\ pending # <<>>
  /\ \/ pmode = "run" /\ ppc = "take" /\ cancelled = <<>>
     \/ pmode = "get"
  /\ hand' = Head(pending)
  /\ pending' = Tail(pending)
  /\ staleness_samples' = staleness_samples + 1
  /\ GoOn(IF Head(pending) = DONE THEN "final" ELSE "limit", FeederWoken)
  /\ UNCHANGED <<mqVars, owner, waiters, fed, cancelled, taskVars, done_bound,
                 paused, running, monitor_loop_trigger, current_param_version,
                 monitor, main, syncVars, serverVars, histVars>>

TakeWait ==
  /\ Running(Proc) /\ pmode = "run" /\ ppc = "take"
  /\ cancelled = <<>> /\ pending = <<>>
  /\ Suspend("get", <<>>)
  /\ UNCHANGED <<mqVars, owner, waiters, queueVars, taskVars, hand, done_bound,
                 flagVars, monitor, main, syncVars, serverVars, histVars>>

(* The second critical section: wait while paused, then create the task. *)
ProcSubmit ==
  /\ ppc = "submit" /\ ProcHasLock
  /\ Release
  /\ IF paused
       THEN /\ Suspend("cond", Granted)
            /\ UNCHANGED <<hand, active, task>>
       ELSE /\ active' = active \cup {hand}
            /\ task' = [task EXCEPT ![hand] = "created"]
            /\ hand' = NoSample
            /\ GoOn("check", <<Task(hand)>> \o Granted)
  /\ UNCHANGED <<mqVars, queueVars, finished, done_bound, flagVars, monitor, main,
                 syncVars, serverVars, histVars>>

Processor ==
  \/ ProcCheck \/ ProcBlock \/ ProcSetPaused \/ ProcLoopDone
  \/ ProcCollectBegin \/ ProcCollect \/ ProcCollectNothing \/ ProcIdle
  \/ TakeCancelled \/ TakePending \/ TakeWait \/ ProcSubmit

-----------------------------------------------------------------------------
(* _process_single_sample_streaming and the rollout servers.  A task is    *)
(* created (in the ready queue for the first time), then its request is    *)
(* requested (on its way to a server) and generating; the answer (complete, *)
(* cut or error) wakes the task, which puts the sample (putting) or queues *)
(* it for another submission; put is the reply of the message queue.       *)
TaskSubmit(s) ==
  /\ Running(Task(s)) /\ task[s] = "created"
  /\ task' = [task EXCEPT ![s] = "requested"]
  /\ Yield(<<>>)
  /\ UNCHANGED <<mqVars, owner, waiters, queueVars, active, finished, procVars,
                 flagVars, monitor, main, syncVars, serverVars, histVars>>

Rejects == server_paused

(* generate_for_partial: a paused server sends the request back at once. *)
ServerAdmit(s) ==
  /\ task[s] = "requested"
  /\ IF Rejects
       THEN /\ task' = [task EXCEPT ![s] = "cut"]
            /\ Arrive(Task(s))
            /\ UNCHANGED made_by
       ELSE /\ task' = [task EXCEPT ![s] = "generating"]
            /\ made_by' = [made_by EXCEPT ![s] = @ \cup {weights}]
            /\ UNCHANGED ready
  /\ UNCHANGED <<mqVars, owner, waiters, queueVars, active, finished, procVars,
                 flagVars, monitor, main, syncVars, serverVars, stamp, dropped,
                 failed, put_since_update>>

(* The generation ends; once cancel() has reached the server it may be cut. *)
ServerAnswer(s) ==
  /\ task[s] = "generating"
  /\ \/ task' = [task EXCEPT ![s] = "complete"]
     \/ server_paused /\ task' = [task EXCEPT ![s] = "cut"]
  /\ made_by' = [made_by EXCEPT ![s] = @ \cup {weights}]
  /\ Arrive(Task(s))
  /\ UNCHANGED <<mqVars, owner, waiters, queueVars, active, finished, procVars,
                 flagVars, monitor, main, syncVars, serverVars, stamp, dropped,
                 failed, put_since_update>>

ServerError(s) ==
  /\ task[s] = "generating"
  /\ Cardinality(failed) < MaxFailures
  /\ task' = [task EXCEPT ![s] = "error"]
  /\ failed' = failed \cup {s}
  /\ Arrive(Task(s))
  /\ UNCHANGED <<mqVars, owner, waiters, queueVars, active, finished, procVars,
                 flagVars, monitor, main, syncVars, serverVars, stamp, made_by,
                 dropped, put_since_update>>

StampMutant(s) == UNCHANGED stamp

(* rollout_sample.param_version = self.current_param_version *)
Stamp(s) == stamp' = [stamp EXCEPT ![s] = current_param_version]

TaskComplete(s) ==
  /\ Running(Task(s)) /\ task[s] = "complete"
  /\ Stamp(s)
  /\ task' = [task EXCEPT ![s] = "putting"]
  /\ Yield(<<>>)
  /\ UNCHANGED <<mqVars, owner, waiters, queueVars, active, finished, procVars,
                 flagVars, monitor, main, syncVars, serverVars, made_by, dropped,
                 failed, put_since_update>>

(* What put_sample evicts; a history of the message queue's popleft(). *)
Evict == dropped' = dropped \cup (ToSet(queue) \ ToSet(Evicted))

QueuePut(s) ==
  /\ task[s] = "putting"
  /\ PutSample(s)
  /\ Evict
  /\ put_since_update' = put_since_update + 1
  /\ task' = [task EXCEPT ![s] = "put"]
  /\ Arrive(Task(s))
  /\ UNCHANGED <<owner, waiters, queueVars, active, finished, procVars, flagVars,
                 monitor, main, syncVars, serverVars, stamp, made_by, failed>>

(* The task is done: it stays in active_tasks until somebody collects it,  *)
(* and wakes the processor's asyncio.wait and, being the last, the gather. *)
Finish(s, outcome) ==
  /\ active' = active \ {s}
  /\ finished' = [finished EXCEPT ![outcome] = @ + 1]
  /\ task' = [task EXCEPT ![s] = "none"]
  /\ Yield(IF pmode = "wait" /\ ~IsReady(Proc) THEN <<Proc>>
           ELSE IF sync = "gathering" /\ active = {s} THEN <<Sync>> ELSE <<>>)

RequeueMutant(s) == UNCHANGED cancelled

(* cancel_queue.put of a sample whose generation was cut. *)
Requeue(s) == cancelled' = Append(cancelled, s)

TaskReturn(s) ==
  /\ Running(Task(s))
  /\ \/ task[s] = "put" /\ Finish(s, "ok") /\ UNCHANGED cancelled
     \/ task[s] = "cut" /\ Finish(s, "ok") /\ Requeue(s)
     \/ task[s] = "error" /\ Finish(s, "bad") /\ UNCHANGED cancelled
  /\ UNCHANGED <<mqVars, owner, waiters, pending, fed, procVars, flagVars, monitor,
                 main, syncVars, serverVars, histVars>>

Tasks == \E s \in Samples : TaskSubmit(s) \/ TaskComplete(s) \/ TaskReturn(s)

-----------------------------------------------------------------------------
(* _async_monitor_loop: sleep; unpause (queued for the lock to unpause);   *)
(* top (queued for the lock to look at self.running).                      *)
MonitorTimer ==
  /\ monitor = "sleep" /\ ~IsReady(Mon)
  /\ Arrive(Mon)
  /\ UNCHANGED <<mqVars, owner, waiters, queueVars, taskVars, procVars, flagVars,
                 monitor, main, syncVars, serverVars, histVars>>

Recovers == monitor_loop_trigger /\ ~ShouldPause
MonitorTop == monitor' = IF running THEN "sleep" ELSE "exited"

(* The wake-up finds the lock free, and so takes it twice without waiting. *)
MonitorTick ==
  /\ Running(Mon) /\ monitor = "sleep" /\ LockFree
  /\ MonitorTop
  /\ IF Recovers
       THEN paused' = FALSE /\ NotifyProcessor /\ Yield(Notified)
       ELSE Yield(<<>>) /\ UNCHANGED <<paused, pmode>>
  /\ UNCHANGED <<mqVars, owner, waiters, queueVars, taskVars, ppc, hand,
                 done_bound, running, monitor_loop_trigger, staleness_samples,
                 current_param_version, main, syncVars, serverVars, histVars>>

(* It finds the lock held.  What it decided is not looked at again. *)
MonitorBlock ==
  /\ Running(Mon) /\ monitor = "sleep"
  /\ Enqueue(Mon)
  /\ monitor' = IF Recovers THEN "unpause" ELSE "top"
  /\ UNCHANGED <<mqVars, queueVars, taskVars, procVars, flagVars, main, syncVars,
                 serverVars, histVars>>

MonitorUnpause ==
  /\ Running(Mon) /\ monitor = "unpause"
  /\ paused' = FALSE
  /\ NotifyProcessor
  /\ Yield(Notified \o Granted)
  /\ IF waiters = <<>>
       THEN owner' = Nobody /\ UNCHANGED waiters /\ MonitorTop
       ELSE /\ owner' = Head(waiters)
            /\ waiters' = Append(Tail(waiters), Mon)
            /\ monitor' = "top"
  /\ UNCHANGED <<mqVars, queueVars, taskVars, ppc, hand, done_bound, running,
                 monitor_loop_trigger, staleness_samples, current_param_version,
                 main, syncVars, serverVars, histVars>>

MonitorLook ==
  /\ Running(Mon) /\ monitor = "top"
  /\ MonitorTop
  /\ Release
  /\ Yield(Granted)
  /\ UNCHANGED <<mqVars, queueVars, taskVars, procVars, flagVars, main, syncVars,
                 serverVars, histVars>>

Monitor == MonitorTick \/ MonitorBlock \/ MonitorUnpause \/ MonitorLook

-----------------------------------------------------------------------------
(* _streaming_generation_main after the processor ended, in whatever way:  *)
(* put the None sample, then running = False under the lock.               *)
MainWake ==
  /\ Running(Main) /\ main = "streaming"
  /\ main' = "signalling"
  /\ Yield(<<>>)
  /\ UNCHANGED <<mqVars, owner, waiters, queueVars, taskVars, procVars, flagVars,
                 monitor, syncVars, serverVars, histVars>>

MainSignal ==
  /\ main = "signalling"
  /\ PutSample(STOP)
  /\ Evict
  /\ main' = "signalled"
  /\ Arrive(Main)
  /\ UNCHANGED <<owner, waiters, queueVars, taskVars, procVars, flagVars, monitor,
                 syncVars, serverVars, stamp, made_by, failed, put_since_update>>

MainBlock ==
  /\ Running(Main) /\ main = "signalled"
  /\ Enqueue(Main)
  /\ main' = "locking"
  /\ UNCHANGED <<mqVars, queueVars, taskVars, procVars, flagVars, monitor,
                 syncVars, serverVars, histVars>>

MainStop ==
  /\ Running(Main)
  /\ \/ main = "signalled" /\ LockFree
     \/ main = "locking"
  /\ running' = FALSE
  /\ Release
  /\ Yield(Granted)
  /\ main' = "exited"
  /\ UNCHANGED <<mqVars, queueVars, taskVars, procVars, paused,
                 monitor_loop_trigger, staleness_samples, current_param_version,
                 monitor, syncVars, serverVars, histVars>>

MainCoroutine == MainWake \/ MainBlock \/ MainStop

-----------------------------------------------------------------------------
(* The calls of ParameterSynchronizer.sync_weights: pause, and later       *)
(* update_param_version and, on its result, resume.  sync:                 *)
(*   idle                                                                  *)
(*   pauseSent -> pause [-> pauseLock] -> [cancelSent -> cancel ->]        *)
(*     [gathering ->] resetSent -> reset -> paused (returned)              *)
(*   transfer (module FullyAsync)                                          *)
(*   updateSent -> update [-> updateLock] -> countSent -> count ->         *)
(*     publishSent -> publish -> resumeSent -> resume [-> resumeLock] ->   *)
(*     [restartSent -> restart ->] idle                                    *)
(* In a ...Sent state a remote call is under way; its reply, or the call   *)
(* itself, wakes Sync, and the next state is the stretch that then runs.   *)
(* The lock is held from the first stretch of each of the three calls to   *)
(* the last.                                                               *)
CallArrives ==
  /\ \/ sync = "pauseSent"  /\ sync' = "pause"
     \/ sync = "updateSent" /\ sync' = "update"
     \/ sync = "resumeSent" /\ sync' = "resume"
  /\ Arrive(Sync)
  /\ UNCHANGED <<mqVars, owner, waiters, queueVars, taskVars, procVars, flagVars,
                 monitor, main, sync_version, recount, serverVars, histVars>>

SyncBlock ==
  /\ Running(Sync)
  /\ \/ sync = "pause"  /\ sync' = "pauseLock"
     \/ sync = "update" /\ sync' = "updateLock"
     \/ sync = "resume" /\ sync' = "resumeLock"
  /\ Enqueue(Sync)
  /\ UNCHANGED <<mqVars, queueVars, taskVars, procVars, flagVars, monitor, main,
                 sync_version, recount, serverVars, histVars>>

SyncEnters(called, queued) ==
  /\ Running(Sync)
  /\ \/ sync = called /\ LockFree
     \/ sync = queued

GatherTasksMutant == sync' = "resetSent" /\ Yield(<<>>)

(* pause after the cancellation: gather(active_tasks), if there are any.   *)
(* A gather of finished tasks suspends once, too.                          *)
GatherTasks ==
  IF ActiveTasks > 0
    THEN sync' = "gathering" /\ Yield(IF active = {} THEN <<Sync>> ELSE <<>>)
    ELSE sync' = "resetSent" /\ Yield(<<>>)

PauseBegin ==
  /\ SyncEnters("pause", "pauseLock")
  /\ Hold(Sync)
  /\ paused' = TRUE
  /\ IF PartialRollout THEN sync' = "cancelSent" /\ Yield(<<>>) ELSE GatherTasks
  /\ UNCHANGED <<mqVars, queueVars, taskVars, procVars, running,
                 monitor_loop_trigger, staleness_samples, current_param_version,
                 monitor, main, sync_version, recount, serverVars, histVars>>

PauseCancelled ==
  /\ Running(Sync) /\ sync = "cancel"
  /\ GatherTasks
  /\ UNCHANGED <<mqVars, owner, waiters, queueVars, taskVars, procVars, flagVars,
                 monitor, main, sync_version, recount, serverVars, histVars>>

(* return_exceptions=True, then active_tasks.clear(): the exception of a   *)
(* failed task goes nowhere.                                               *)
PauseGathered ==
  /\ Running(Sync) /\ sync = "gathering"
  /\ finished' = [ok |-> 0, bad |-> 0]
  /\ active' = {}
  /\ sync' = "resetSent"
  /\ Yield(<<>>)
  /\ UNCHANGED <<mqVars, owner, waiters, queueVars, task, procVars, flagVars,
                 monitor, main, sync_version, recount, serverVars, histVars>>

(* After reset_prefix_cache() the monitor is told to keep still. *)
PauseEnd ==
  /\ Running(Sync) /\ sync = "reset"
  /\ monitor_loop_trigger' = FALSE
  /\ Release
  /\ Yield(Granted)
  /\ sync' = "paused"
  /\ UNCHANGED <<mqVars, queueVars, taskVars, procVars, paused, running,
                 staleness_samples, current_param_version, monitor, main,
                 sync_version, recount, serverVars, histVars>>

RecountMutant == ActiveTasks

(* len(self.active_tasks) + self.cancel_queue.qsize() *)
Recount == ActiveTasks + Len(cancelled)

SetVersionMutant == UNCHANGED current_param_version

SetVersion == current_param_version' = sync_version

(* The local terms of the sum are read before the await of get_queue_size. *)
UpdateBegin ==
  /\ SyncEnters("update", "updateLock")
  /\ Hold(Sync)
  /\ SetVersion
  /\ recount' = Recount
  /\ sync' = "countSent"
  /\ Yield(<<>>)
  /\ UNCHANGED <<mqVars, queueVars, taskVars, procVars, paused, running,
                 monitor_loop_trigger, staleness_samples, monitor, main,
                 sync_version, serverVars, histVars>>

UpdateCounted ==
  /\ Running(Sync) /\ sync = "count"
  /\ staleness_samples' = recount
  /\ recount' = 0
  /\ sync' = "publishSent"
  /\ Yield(<<>>)
  /\ UNCHANGED <<mqVars, owner, waiters, queueVars, taskVars, procVars, paused,
                 running, monitor_loop_trigger, current_param_version, monitor,
                 main, sync_version, serverVars, histVars>>

UpdateEnd ==
  /\ Running(Sync) /\ sync = "publish"
  /\ Release
  /\ Yield(Granted)
  /\ sync' = "resumeSent"
  /\ UNCHANGED <<mqVars, queueVars, taskVars, procVars, flagVars, monitor, main,
                 sync_version, recount, serverVars, histVars>>

(* The end of resume, after the servers' own resume with partial rollout. *)
ResumeEffect ==
  /\ paused' = FALSE
  /\ monitor_loop_trigger' = TRUE
  /\ NotifyProcessor
  /\ Release
  /\ Yield(Notified \o Granted)
  /\ sync' = "idle"
  /\ UNCHANGED <<mqVars, queueVars, taskVars, ppc, hand, done_bound, running,
                 staleness_samples, current_param_version, monitor, main,
                 sync_version, recount, serverVars, histVars>>

ResumeServers ==
  /\ PartialRollout
  /\ SyncEnters("resume", "resumeLock")
  /\ Hold(Sync)
  /\ sync' = "restartSent"
  /\ Yield(<<>>)
  /\ UNCHANGED <<mqVars, queueVars, taskVars, procVars, flagVars, monitor, main,
                 sync_version, recount, serverVars, histVars>>

ResumeEnd ==
  /\ \/ ~PartialRollout /\ SyncEnters("resume", "resumeLock")
     \/ Running(Sync) /\ sync = "restart"
  /\ ResumeEffect

(* The remote calls of the three methods take effect and reply.            *)
ServersCancel ==
  /\ sync = "cancelSent" /\ sync' = "cancel"
  /\ server_paused' = TRUE
  /\ Arrive(Sync)
  /\ UNCHANGED <<mqVars, owner, waiters, queueVars, taskVars, procVars, flagVars,
                 monitor, main, sync_version, recount, weights, histVars>>

ServersReset ==
  /\ sync = "resetSent" /\ sync' = "reset"
  /\ Arrive(Sync)
  /\ UNCHANGED <<mqVars, owner, waiters, queueVars, taskVars, procVars, flagVars,
                 monitor, main, sync_version, recount, serverVars, histVars>>

QueueCounts ==
  /\ sync = "countSent" /\ sync' = "count"
  /\ recount' = recount + Len(queue)
  /\ Arrive(Sync)
  /\ UNCHANGED <<mqVars, owner, waiters, queueVars, taskVars, procVars, flagVars,
                 monitor, main, sync_version, serverVars, histVars>>

QueuePublishes ==
  /\ sync = "publishSent" /\ sync' = "publish"
  /\ PutValidate(sync_version)
  /\ Arrive(Sync)
  /\ UNCHANGED <<owner, waiters, queueVars, taskVars, procVars, flagVars, monitor,
                 main, sync_version, recount, serverVars, histVars>>

ServersResume ==
  /\ sync = "restartSent" /\ sync' = "restart"
  /\ server_paused' = FALSE
  /\ Arrive(Sync)
  /\ UNCHANGED <<mqVars, owner, waiters, queueVars, taskVars, procVars, flagVars,
                 monitor, main, sync_version, recount, weights, histVars>>

SyncCalls ==
  \/ SyncBlock
  \/ PauseBegin \/ PauseCancelled \/ PauseGathered \/ PauseEnd
  \/ UpdateBegin \/ UpdateCounted \/ UpdateEnd
  \/ ResumeServers \/ ResumeEnd

(* The one thread of the actor: the head of ready runs.                    *)
EventLoop == FeedSamples \/ Processor \/ Tasks \/ Monitor \/ MainCoroutine
             \/ SyncCalls

(* What the loop waits for: calls that arrive, replies of other actors.    *)
Replies ==
  \/ MainSignal \/ CallArrives
  \/ ServersCancel \/ ServersReset \/ QueueCounts \/ QueuePublishes
  \/ ServersResume

Generation(s) == ServerAdmit(s) \/ ServerAnswer(s) \/ QueuePut(s)

RollNext ==
  \/ EventLoop
  \/ MonitorTimer
  \/ Replies
  \/ \E s \in Samples : Generation(s) \/ ServerError(s)
===============================================================================
