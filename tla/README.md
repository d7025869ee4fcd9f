# TLA+ models of the training recipes

This directory specifies, model-checks and proves properties of the
asynchronous reinforcement-learning recipes of this repository. Its core is
`recipe/fully_async_policy`: a *rollouter* that generates samples all the time,
a *trainer* that consumes them all the time, a bounded *message queue* between
them, and a *parameter synchroniser* that now and then pauses the rollouter and
replaces the weights of its inference servers. Everything interesting in it is
a matter of interleaving: one asyncio event loop with half a dozen coroutines, a
lock, a condition, four queues, and calls from three other processes.

The second subject is on-policy distillation: the trainer of `recipe/gkd`, which
keeps a generation and a call of the teacher in flight while the actor trains,
and the client of the teacher service that it shares, nearly word for word, with
`verl/workers/reward_manager/opd.py`; and what the actor makes of the teacher's
answer: the alignment of the two tokenisations, the credit of each token, the
transforms of the advantage and the controllers of the size of an update.

The third is what the recipes share or build on: one step of the colocated PPO
trainer with the batch that is cut up, balanced, dealt out and put together
again; the hybrid engine, whose workers hold the actor and the inference engine on
one device and change between them for every generation; the trainers that
overlap generation with training (`recipe/one_step_off_policy`) or collect a batch
over several generations (`recipe/dapo`); the checkpoints; the rate-limited reward
loop.

Paths below are relative to `recipe/fully_async_policy/` unless they start with
another top-level directory.

## 1. Inventory

| Component | State it keeps | Operations | Talks to | What is hard |
|---|---|---|---|---|
| Message queue (`message_queue.py`, a Ray actor) | bounded deque of samples, queue of validation results, version, counters, `running` | `put_sample`, `get_sample` (waits on a condition), `update_param_version`, `clear_queue`, `shutdown`, `put_validate`, `get_validate` | called by rollouter, trainer, synchroniser, task runner | eviction when full, lost wake-ups, shutdown with waiting consumers |
| Rollouter (`fully_async_rollouter.py`, an async Ray actor) | `paused`, `running`, `monitor_loop_trigger`, `staleness_samples`, version, `pending_queue`, `cancel_queue`, `active_tasks`, a lock and its condition | feeder, processor, one task per sample, monitor loop, main coroutine; the calls `pause`, `update_param_version`, `resume`, checkpoints | servers, queue; called by the synchroniser | every await is a point where the others change what was read before it |
| Rollout servers and agent loops (`vllm_rollout/`, `agent_loop/`, `verl/experimental/agent_loop/tool_agent_loop.py`) | per server: `paused`, outstanding requests and their cancel events; per trajectory: `agent_data` and its state; per worker: the cancellation event | `generate_for_partial`, `cancel`, `resume`, `reset_prefix_cache`; the state machine of a trajectory; `cancel_agent_loops`, `resume_agent_loops` | called by the rollouter's tasks | requests arriving between cancel and resume, a cut between any two tokens or states, what a cut trajectory continues from |
| Parameter synchroniser (`param_sync.py`, a Ray actor) | references to the last update and resume calls | `sync_weights`, `wait_last_valid`, `rollouter_save_checkpoint` | rollouter, queue, worker groups; called by the trainer | update and resume run in the background while the trainer goes on |
| Trainer (`fully_async_trainer.py`, a Ray actor) | `current_param_version`, `local_trigger_step`, the batch | `fit`: collect, train, trigger a synchronisation, log validation, save | queue, synchroniser | the end of training: remaining results, the last synchronisation |
| Task runner (`fully_async_main.py`) | futures of both `fit()` calls | initialise, wait, clear the queue | all | one component failing |
| Weight-transfer workers (`fsdp_workers.py`, `megatron_worker.py`) | tensors | collective broadcast | – | none in TLC's reach |
| Teacher service of on-policy distillation (`recipe/gkd/teacher/`, client also in `verl/workers/reward_manager/opd.py`) | per client a task queue, per thread a REQ socket and the tasks of its request | `submit`, `bg_task`, proxy forwarding, worker replies; `get_teacher_knowledge` on top | GKD trainer, OPD reward manager | time-outs and retries on a request/reply socket, tasks of a failed attempt still out |
| GKD trainer (`recipe/gkd/ray_trainer.py`) | the generator's futures, the shared buffer of teacher knowledge, step and position in the data, the last checkpoint | `fit`, `one_step_off_scheduler`, `two_step_off_scheduler`, checkpoint, restart | rollout and actor worker groups, teacher service | what is in flight when weights are synchronised, a step is skipped, a checkpoint is written or the job dies |
| One-step-off trainer (`recipe/one_step_off_policy/`) | the batch in flight, step, dataloader, the two groups' weights | `fit`: synchronise, generate the next batch, train on this one, validate, save, resume | rollout and actor worker groups, reward function | which weights made, test and are logged with what; what is in flight at a save, a crash, the end |
| DAPO trainer (`recipe/dapo/dapo_ray_trainer.py`) | the prompts collected so far, their count, the generation batches tried | `fit`: generate, filter groups, go on or update, save | worker groups, dataloader | counters and rows that must agree over several iterations of one loop; the end of the data |
| Hybrid engine (`verl/workers/fsdp_workers.py`, `megatron_workers.py`, `verl/workers/rollout/vllm_rollout/`, `verl/experimental/agent_loop/agent_loop.py`) | per worker: what is on the device, the engine's weights and adapter, `base_sync_done`, two random states; per replica: the prefix cache | `wake_up`/`rollout_mode`, `generate_sequences`, `sleep`/`trainer_mode`, `update_actor`, `compute_log_prob`, checkpoints | colocated trainer, replicas and servers | workers change modes in an interleaving of awaits; weights destroyed by sleep; stale prefixes; memory of two tenants; two random streams in one generator |
| Rate-limited reward loop (`verl/experimental/reward/reward_loop/limited.py`) | two token buckets, a semaphore, threads | `acquire`, `run_single`, `compute_score` | external APIs | fairness and overdraft of a bucket across awaits, a time-out that ends the wait but not the call |
| OPD reward manager (`verl/workers/reward_manager/opd.py`) | the payload of a response | `retokenize_batch`, `_align_chunks`, `handle_futures` | teacher service, actor | texts that meet in places nobody foresaw: half characters, chunks, cuts, end tokens |
| Policy losses, trust-region controllers (`verl/trainer/ppo/core_algos.py`, `verl/workers/actor/dp_actor.py`) | the controllers' averages on every rank | `compute_policy_loss_opd`, `_apply_adv_transform`, the tail of `update_policy` | ranks, optimizer, learning-rate scheduler | sentinels, sums that vanish, a controller that must be the same on all ranks and see only what was applied |
| Colocated PPO trainer, batch assembly, worker groups (`verl/trainer/ppo/ray_trainer.py`, `verl/utils/seqlen_balancing.py`, `verl/protocol.py`, `verl/single_controller/`) | the batch, a table whose columns belong together by position | repeat, balance, dispatch, micro-batches, collect, union, advantages, mini-batches | workers, reward function | every step permutes or cuts the rows; ranks must run equally many collective operations |
| Checkpoints (`verl/utils/checkpoint/`, `_save_checkpoint` and `_load_checkpoint` of the trainers) | directories, a tracker file, the managers' list of paths | save (also asynchronous), rotation, load | all trainers | a crash between any two disk operations |


Correctness, per component:

* *Message queue*: each sample is delivered at most once, in order; only the
  oldest one of a full queue is dropped; nobody sleeps while there is something
  to take; a shutdown releases everybody.
* *Rollouter*: no sample is lost or duplicated by cuts, re-submissions and
  failures; nothing is generated while the weights are replaced; the stamped
  version is the one that generated the sample; the number of samples per
  version is bounded; every pause ends; the run ends.
* *Trainer and synchroniser*: the versions of the parts agree up to the
  synchronisation under way; all validation results are logged, in order; with
  `staleness_threshold = 0` the whole is synchronous training.
* *Teacher service*: a call returns knowledge about exactly its own prompts, in
  their order, or raises; it raises only if each of its attempts met a fault; it
  always ends.
* *GKD trainer*: every batch is trained on once, in order, with its own teacher
  knowledge and with sequences at most two updates old; all announced steps are
  taken and the last weights are saved; a crash loses only what was in flight.
* *Agent loops*: tokens, mask and log-probabilities of a trajectory stay aligned
  and complete through any number of cuts; no tool call is executed twice; the
  versions stamped on it bracket those that made it.
* *Rate-limited loop*: the limits hold over every window of time, and every
  request gets a reward.
* *Checkpoints*: what the tracker names can be loaded; no batch goes into the
  weights twice; a restart is not behind the last completed save.
* *One-step-off trainer*: a batch is trained on with weights exactly one update newer
  than those it was generated with; no batch is trained on twice, and a restart
  loses only what was being generated; `fit` returns with its last weights saved.
* *Dynamic sampling*: a training batch is made of whole groups with a difference in
  reward, of as many as asked for, each prompt once; giving up is justified.
* *Hybrid engine*: a generation uses the actor's weights as they are, on every worker,
  and no prefix of other weights; parameters and cache never need the device
  together; training and generation have random streams of their own.
* *PPO step*: the columns of a row stay about one response; an advantage is
  relative to the prompt's own responses; every response weighs the same; ranks
  never wait for one another for ever.
* *OPD signal and loss*: no log-probability of the teacher is lost, doubled or put
  on another text; tokens it says nothing of have no gradient; a transform keeps
  the strength it says it keeps; the controllers of all ranks agree, and follow
  only updates that were applied.

The hazards the code is exposed to, each with its line and with the properties
that would notice, are listed in `PROJECT.json` under `hazards`.

## 2. Modules

```
LossyFifo                abstract queue            MessageQueue   the actor
    ^ implemented by                                 |        |
MQClients  = MessageQueue + arbitrary clients  <-----'        |
    MQClients_proofs                                          v
                                     Rollouter  = event loop + servers + queue
                                                              |
                   FullyAsync = Rollouter + trainer + synchroniser + task runner
                        FullyAsync_proofs, Rollouter_proofs, MC_FullyAsync, MC_Synchronous

TeacherCall              abstract call             OnPolicyDistill   fit() and its schedulers
    ^ implemented by                                   OnPolicyDistill_proofs, MC_OnPolicyDistill
TeacherService           client, proxy, worker
    TeacherService_proofs, MC_TeacherService

OnPolicyDistill, TeacherService                >  MC_Distillation

Checkpoint       saves, crashes, restarts     \
RewardLimiter    the rate-limited loop         \
    Services_proofs                             >  MC_Services
AgentLoop        trajectories under cuts       /
    AgentLoop_proofs                          /
MQClients                                    /

PpoBatch (on SeqlenBalancing)   one PPO step  \      (also MC_PpoBatch)
OpdAlign         alignment of tokenisations    \     (also MC_OpdAlign)
OpdLoss          credit and transforms          \
OpdControllers   DCTV, TV schedule               >  MC_Training
OneStepOff       overlapped training            /
HybridEngine     modes of a worker             /
DynamicSampling  batches over generations     /
    Training_proofs (of the last four)       /
```

`MC_Distillation`, `MC_Services` and `MC_Training` put modules together that share no state:
a run chooses one of them at the start and goes through its states while the others
stay where they are (`side`, `service`, `part`). It is the sum of the instances, not their product.

**MessageQueue.** One action per method. Every method runs under one asyncio
lock and suspends nowhere but in `condition.wait()`, so it is atomic;
`get_sample` is the exception and has two actions, the call (`GetSample`) and the
re-check of its `while` after a wake-up (`Recheck`), between which other calls
may come. `getter[c]` says where the call of consumer `c` stands. `cleared`
is a history of `clear_queue`.

**MQClients** closes the queue under any number of consumers that call anything
at any time. This is more than the system does: the trainer is the only
consumer, and nobody calls `shutdown`.

**LossyFifo** is what the queue promises: a log and a position that only grows.
`MQClients!ImplementsFifo` is the refinement (`position` is the sum of the
consumed, dropped and cleared samples; deque, lock and waiting are hidden).

**Rollouter.** asyncio is cooperative, and the model takes it literally:
`ready` is the loop's FIFO of runnable coroutines, its head runs until it
suspends, and what it wakes is appended. A stretch of code between two
suspension points is one action (a few for the processor, which can go round its
loop without suspending and remains the head meanwhile). `async with self.lock`
does not suspend when the lock is free; a contended lock is an `owner` and a
FIFO of `waiters`, handed over by `Release` as `asyncio.Lock` does.

| Code | Model |
|---|---|
| `_feed_samples` | `FeedSamples` (up to a full `pending_queue`) |
| `_processor_worker` | `Processor`; `ppc` is the loop head or locked section, `pmode` how it is suspended |
| `_process_single_sample_streaming` | `TaskSubmit`, `TaskComplete`, `TaskReturn`; `task[s]` is where the task of sample `s` stands |
| `generate_for_partial` of the servers | `ServerAdmit`, `ServerAnswer`, `ServerError` |
| `_async_monitor_loop` | `MonitorTimer`, `MonitorTick`, `MonitorBlock`, `MonitorUnpause`, `MonitorLook` |
| `_streaming_generation_main` | `MainWake`, `MainSignal`, `MainBlock`, `MainStop` |
| `pause` / `update_param_version` / `resume` | `PauseBegin` … `PauseEnd` / `UpdateBegin` … `UpdateEnd` / `ResumeServers`, `ResumeEnd`; `sync` is where the current call stands |

**FullyAsync** adds the trainer's `fit()` (`Trainer`), the synchroniser's
`sync_weights` (`SyncWeights`, `Transfer`) and `wait_last_valid`
(`LastCallOver`), and the end of the task runner (`MainClear`). `Init` is the
state in which both `fit()` have just been called: version 0 is in place and its
validation result is in the queue.

**OnPolicyDistill.** `fit()` and the generator it pulls batches from are one
thread, the driver. An iteration of a scheduler's loop is a sequence of five
operations (`Iteration`, `Epilogue`), and `steps` is what is left of it:

| Code | Model |
|---|---|
| `for i, (epoch, batch_dict) in enumerate(continuous_iterator)` | `NextBatch`, `LoopEnds` |
| `sync_rollout_weights`, `_async_gen_next_batch` | `"sync"`: `SyncRolloutWeights`, `"gen"`: `StartGeneration` |
| `_async_get_teacher_knowledge` (waits for the generation, submits it) | `"ask"`: `AskTeacher` |
| `GenerationBatchFuture.get` | `"get"`: `GetResult`, which unpacks the answer into `padded` |
| `yield` and the body of `fit`'s loop up to the next `next(scheduler)` | `"yield"`: `Train` or `Skip` |
| `next(scheduler)` without a batch, a future read before it is assigned | `SchedulerRaises` |
| `_save_checkpoint`, `_load_checkpoint` of the base class | `Checkpoint`, `Restart` |

A restart may happen between any two steps. A crash inside a checkpoint is a crash
before it: `_load_checkpoint` follows the tracker file, which is written last.
One `i` decides the sequence, exactly as the `if` statements do, with the missing
`elif` of `one_step_off_scheduler` translated literally (`OneStepOff`).

**TeacherService.** `get_teacher_knowledge` is the caller (`Ask`, `Collect`,
`CollectFailure`, `Resubmit`); `MaxRetries = 3` is `opd.py`, `MaxRetries = 0`
with `SkipsFailed` is `recipe/gkd`, whose trainer goes on after a failed call.
`bg_task` of thread `t` is `Gather` (one `task_queue.get()` each, under the mutex),
`PrepareFails`, `Send` or `SendFails`, and `Receive`, `ReceiveError` or `Timeout`.
The REQ socket is an automaton of two states; ROUTER/DEALER proxy and REP worker
answer the socket that asked, so an exchange is the one value `wire[t]`.
`faulty` is a history of the attempts that met a fault.

**TeacherCall** is what a call promises; `ImplementsCall` is the refinement.
`Return` and `Raise` are `TeacherAnswers` and `TeacherFails` of
`OnPolicyDistill`, where a whole call is one future: both schedulers read the
previous future before they ask again, so one call is out at a time, which is
also what `TeacherCall` says.

**AgentLoop** is one sample below the level of `Rollouter`: its trajectories, each
an agent loop of the worker, one server, and `pause()` and `resume()` of the
rollouter around a change of weights.

| Code | Model |
|---|---|
| `_process_single_sample_streaming`, `generate_sequences_no_post` | `Submit`, `Start`, `WorkerReturns` |
| `pause`, `resume` | `Pause`, `CancelAgentLoops`, `CancelServer` (two calls in either order), `Transfer`, `ResumeAgentLoops`, `ResumeServer`, `Resumed` |
| `generate_for_partial` of the server | `AgentAdmit`, `Emit` (a token), `Answers`, `Refuses` |
| the states of `AsyncPartialToolAgentLoop` | `Pending`, `Generated`, `ToolsReturn`, `UserAnswers`; `Dispatch` is the look at the event between two of them |
| `_build_cancelled_output`, `_build_completed_output` | the actions of these names |
| `PartialSingleTurnAgentLoop.run` | `SingleTurn` |

**RewardLimiter.** `run_single` of every request through `_extract_response`,
both buckets, the semaphore and `compute_score` under `wait_for`; `Tick` moves the
clock when no coroutine can run. `acquire` has its two branches: `AcquireStandard`
(look, take or sleep and look again) and `AcquireLarge` (reserve, then sleep). An
asynchronous call is cancelled by its time-out (`Cancelled`), one in a thread is not.

**Checkpoint.** A save is a sequence of disk operations (`SaveCheckpoint`), which
depends on trainer, manager and settings; `Save` does the next one and
`CrashAndRestart` may come before any of them. `disk` holds for each step which
parts are whole. `AsyncWritten` and `Finalised` are Megatron's asynchronous save.
`_load_checkpoint` is `Loads`, `Restored` and `FromScratch`.

**SeqlenBalancing** is pure: `KarmarkarKarp`, `BalancedPartitions`, `MicroBatches`
and `RestoredOrder` are the functions of `seqlen_balancing.py`. **PpoBatch** uses
them in one iteration of `fit`: `Generate`, `BalanceBatch`, `Reward` and
`RewardTaskEnds`, `LogProbStart` … `LogProbEnd`, `ComputeAdvantage`, `MiniStart`,
`Backward`, `StepOptimizer`. What a column holds is named by the response it was
computed from, so that a row put in the wrong place is seen.

**OpdAlign** translates the loop of `_align_chunks` (`Match`, `Grow`, `Fallback`) and the
filling of the payload (`Fill`). Tokens are byte strings over an alphabet with a
character of two bytes, so that a token may end in the middle of a character; the
inputs are all ways to cut a text on either side. **OpdLoss** goes through
`AssignCredit`, `ClampAdvantage` and `TransformAdvantage` with exact fractions in lowest terms
(`Numbers`), so that equal numbers are equal.
**OpdControllers** is the tail of `update_policy` on all ranks: `Losses`,
`OptimizerStep`, `ControllerStep`, and `ResumeTraining`.

**OneStepOff** is `fit` of the one-step-off trainer. `fit` is where the driver is; a
version is the number of updates the weights have been through, and `lineage` the
batches that made them.

| Code | Model |
|---|---|
| `init_workers`, `_load_checkpoint` | `OverlapInit`, `BeginFrom` |
| `_async_gen_next_batch` (reads, synchronises, launches; or the data is at its end, or raises) | `AsyncGenNextBatch`, in `FirstGeneration` and `NextGeneration` |
| the rollout workers, the wait for them | `GenerationEnds`, `WaitPrevGen` |
| reward, log-probabilities, advantage, `update_actor` | `TrainStep` |
| `_validate`, `_save_checkpoint`, the end of the loop | `ValidateFirst`, `Validate`, `SaveAndGoOn` |
| loss of the job, its restart | `CrashAndResume` |

The reward task it launches with a generation is in `PpoBatch` (`config.overlapped`).

**DynamicSampling** is `fit` of the DAPO trainer at one action per generation batch
(`GenerateAndFilter`): which prompts got equal rewards is chosen, the rest is
the code: `KeepGenerating` is the `continue` and the `ValueError`, `Update` the step and the
resets after it, `Exhausted` what follows the loop over the epochs.

**HybridEngine.** `driver` is what `fit` is doing, `turn` how far the manager's
`generate_sequences` is, `worker_at[w]` where each worker is between the two modes.
Replicas wake and sleep independently, and so do the workers of one; only the
collection of sharded parameters makes them meet (`UpdateWeights`).

| Code | Model |
|---|---|
| `wake_up` and `sleep` of a server | `ServerWakeUp`, `ServerSleep` |
| `rollout_mode` of a worker, await by await | `LoadParams`, `ResumeWeights`, `UpdateWeights`, `ResumeKvCache` |
| `trainer_mode` | `Release` |
| `AgentLoopManager.generate_sequences` | `SendRequests`, `GenerateOn`, `Concat`, `CallDone` |
| `compute_log_prob`, `update_actor`, `save_checkpoint`, `load_checkpoint` of a worker | `Begin`, and `ComputeLogProb`, `UpdateActor`, `SaveCheckpoint`, `LoadCheckpoint` |
| the loop of `fit`: warm-up of the critic, REMAX, validation, saves | `AfterCall`, `CriticOnly`, `NothingToLoad`, `NextStep` |
| `init_workers`, a crash and the launch after it | `Launched`, `EngineCrash` |

### What the model abstracts

* In `Rollouter` a sample is a number; its `rollout.n` trajectories are one request,
  which answers when the last one would (`AgentLoop` looks inside it). All inference servers are one: `cancel`,
  `reset_prefix_cache` and `resume` of all replicas are gathered and so have one
  effect, at one moment.
* `asyncio.wait` and `asyncio.gather` wake their caller when the condition
  becomes true, in one hop instead of two through the loop's call-backs.
* `ray.get` in a coroutine blocks the loop: its answer is part of the stretch.
* Statistics, timing, profiling, logging and metrics are left out, the three
  counters of the message queue excepted. Validation is the publication of its result.
* `made_by`, `dropped`, `failed`, `put_since_update`, `trained` and `logged` are
  histories: nothing reads them but the properties.
* The version starts at 0; checkpoints and restarts of the fully asynchronous
  system are in `Checkpoint`, with the samples in flight as a queue.
* A batch of `OnPolicyDistill` is its number in the order in which the dataloader
  gave it out; a checkpoint keeps that order (`StatefulDataLoader`), and a run
  without one starts again with batch 1.
* A prompt of `TeacherService` stands for what the teacher says about it; the top-k
  tensors, re-tokenisation and padding are left out. A reply that arrives after
  the time-out of its request stays in the socket, which never reads it.
* In `AgentLoop` a token is the beginning or end of a tool call, text, or an
  observation; a tool may fail, which is an observation too. `Room` is large enough
  for what tools say, as the configured `max_model_len` has to be.
* In `RewardLimiter` a cost is the estimate the code debits, the same for all requests.
* In `Checkpoint` an asynchronous write ends before its directory is rotated away,
  and a rank of SFT that runs ahead is one rank.
* Texts of `OpdAlign` are in normal form (`_align_chunks` normalises only to
  compare), and all tokens of a response are under its mask.
* `OpdLoss` takes natural exponents, the fractions that `param` lists, and one
  pseudo-random permutation for each that is possible.
* In `OneStepOff` a save is one step (its operations are in `Checkpoint`), and reward, advantage
  and update of a batch are one step (in `PpoBatch`).
* In `DynamicSampling` a row is its place in the dataloader; two iterations of the
  training step do not differ, and validation is left out.
* `HybridEngine` names weights by the number of updates they have been through and random
  states by a stream and the draws from it. `update_weights` is one step of each
  worker. An exchange of random states is that of the GPU generator. LoRA is
  taken with an engine that loads the base model, as `docs/advance/ppo_lora.rst:32` asks;
  with `load_format: dummy` the first generation of a life would have no adapter.
* `OpdControllers` counts in hundredths rounded down, with values for which this is fine
  enough (`PrecisionAssumption`); 1 − exp of a difference is a
  sampled discrepancy, and a gradient norm that is not finite is a value of its own.

## 3. Runs

Twelve runs: six instances on which the properties hold, six that show a
disagreement between the code and what is said of it.

| Run | Instance | Shows |
|---|---|---|
| `FullyAsync_partial` | 4 samples, batch 1, staleness 1, partial rollout, one generation may fail | safety of the composed system, below |
| `FullyAsync_sync` | 7 samples, staleness 0, batches of 2, 2 batches per synchronisation, partial rollout set and not set, one failure | `SynchronousMode`, `FixedNumber`, `Termination` |
| `FullyAsync_excess` | 6 samples, batches of 2, staleness 0.5, no partial rollout, no failure | violation of `RolloutNumBounded` |
| `FullyAsync_hang` | as `partial`, no failure, fair | violation of `Termination` |
| `Distillation` | the trainer: both schedulers, 2 epochs of 5 batches, a save every 3 steps, 2 failing calls, 2 crashes; the teacher service: 2 threads, 4 parts of 2 prompts, 2 tasks per request, 1 retry, 2 calls, all faults | `Staleness`, `OwnKnowledge`, `LastWeightsSaved`, `ResumedOnce`, `TrainingFinishes` (`Finishes`); `AttemptsNotWasted`, `CallEnds`, the refinement `ImplementsCall` |
| `FullyAsync_unbound` | as `partial`, staleness 4, room on the servers for every sample, no failure | violation of `ProcessorSurvives` |
| `Distill_onestep` | one step off, 4 batches | violation of `EveryBatchOnce` |
| `Teacher_wedged` | 2 threads, 2 parts, 3 retries, 1 call, all faults | violation of `RaisedIsJustified` |
| `Services` | 7 jobs of 4 steps with 2 crashes; 3 requests under 4 settings of the limiter; 3 kinds of agent loop with 2 cuts; the message queue with 2 payloads, 2 consumers, capacity 2, 4 puts | below; for the queue `QueueIsSuffix`, `NoLostWakeup`, `ShutdownReleases` and the refinement `ImplementsFifo` |
| `Training` | 8 rows on 1, 2 and 4 workers; all cuts of texts of up to 4 bytes; 24 settings of the loss on pairs of sequences; 3 controllers on 2 ranks; overlapped training over 2 epochs of 2 batches with 2 crashes; 4 settings of sampling over 5 generation batches; 5 settings of the hybrid engine with 2 replicas, 2 steps, 1 crash | below |
| `Overlapped_rewards` | 4 rows on 2 workers, rewards launched with the generation, `balance_batch` | violation of `RowsTogether` |
| `Opd_truncated` | texts of up to 4 bytes, the teacher cut anywhere | violation of `CutIsGivenUp` |

Safety of `FullyAsync_partial`: `NoGenerationInTransfer` (no server generates
while the weights are replaced), `FreshBatch` (a batch is at most ceil(staleness) + 1
versions old by its stamps, and the stamps are true: `StampMatchesWeights`, the
version on a sample is the newest one that generated a part of it, although the
counter it is read from lags behind the weights), `SectionsExclusive` (the types;
`LockDiscipline`: one coroutine at a time inside the sections of the lock, whatever
suspends in them; `TasksLimited`: the limit of tasks, tested before the lock was
released and taken again, still holds when a task is added), `NoLostResume`,
`VersionsInOrder`, `ValidationComplete` (at the end every version's result has been
logged, in order), `SamplesConserved` (no cut, re-submission, pause or failure
loses or doubles a sample), `StalenessCounted` (the recount misses one sample at most: no
more than `max_required_samples` + 1 are outstanding).

The properties of `Services` and `Training` are conjunctions of the named parts in
the second column, each with a comment of its own in its module.

| Property | Parts | Says |
|---|---|---|
| `ResumesWhole` | `OrderedTracker`, `NothingRepeated`, `NothingSkipped`, `Retention`, `LastStepSaved` | what the tracker names can be loaded whatever the crash; weights and dataloader position are restored together, through several restarts. Claimed of the jobs that save in order (`Ordered`); the others are among the remarks. Rotation keeps what it should, the last step above all |
| `ProgressKept` | | a restart is not behind the last completed save |
| `LimitsKept` | `RateKept`, `ConcurrencyKept` | the rate over any window of time, and the number of calls out |
| `TrajectoryIntact` | `Aligned`, `NothingLost`, `VersionSpan`, `TurnsCounted`, `PostprocessedOnce`, `CallsExecutedOnce` | tokens, mask, log-probabilities and versions of a trajectory cut anywhere; a cut repeats nothing that is done once |
| `EveryServiceEnds` | `CkptEnds`, `AllScored`, `PauseEnds`, `SampleDone` | liveness of the three services; the queue's is `ShutdownReleases` |
| `RowsIntact` | `RowsTogether`, `OwnGroup` | the columns of a row are about one response, its advantage about its own group |
| `DealtEvenly` | `NoneLeftWaiting`, `WorkersBalanced`, `MemoryBounded`, `EqualParts` | ranks run equally many collective operations, on about equal work; every response has the same part in the gradients of an epoch |
| `ChunksAligned` | `Conserved`, `SameText` | a chunk has the teacher's sum over the same text, once |
| `AllCredited` | `WhollyAligned`, `EndCredited` | what can be credited is |
| `CreditKept` | `ChunkConserved`, `PushedTogether`, `SentinelsInert`, `StrengthKept`, `SweepsMeet` | the credit of a chunk is all given and goes one way; transforms turn no token around, keep the strength they say they keep, and meet at the ends of their sweeps |
| `RanksInStep` | `OneFactor`, `OnlyApplied`, `LearningRateKept` | the controllers of all ranks are one, and see only what was applied |
| `MotionBounded` | | the motion of the scaled update stays within the discrepancy, though it is never measured unscaled |
| `OneStepBehind` | `TrainedOneBehind`, `ValidatedBehind` | how old the weights are that generated what is trained on, and those a validation has tested |
| `OverlapKept` | `InFlightOnly`, `SavedAtReturn` | nothing is trained on twice, restarts lose what was being generated and no more, and the last weights are saved |
| `SamplingKept` | `CountAgrees`, `WholeGroups`, `RaisedTooFew`, `NumberedByUpdates` | a training batch consists of whole informative groups, no prompt twice; giving up and the numbers of the checkpoints are right |
| `HybridKept` | `EngineCurrent`, `CacheCurrent`, `MemoryShared`, `StreamsApart` | weights, prefixes, device memory and random streams at the changes of modes |
| `EveryPartEnds` | `AlignEnds`, `OverlapEnds`, `SamplingEnds`, `HybridEnds` | liveness of the parts of training that have loops or wait for one another |

Deadlock is checked in all runs: only a finished system (`Terminated`,
`Stopped`, `Done`, `CkptStopped`, `LimFinished`, `AgentFinished`, `BatchFinished`,
`AlignFinished`, `LossFinished`, `CtlFinished`, `OverlapStopped`, `SamplingOver`, or
`driver = "ended"` on the hybrid engine) may stand still.

### Bounds

`Total` samples, batches of `Required`, a synchronisation every `Trigger`
batches, the staleness threshold in hundredths. The processor needs two
concurrent tasks, one sample in hand and one more to come to show every
interleaving of a pause with its work; four samples give that over four
synchronisations. Where batches are of two samples it takes six (two for each of
three intervals) before the sample in the hand at one update is counted neither by
it nor by the next; with five the data ends first, and an earlier version of this
project took `RolloutNumBounded` for true. In synchronous mode seven samples give a whole
interval of four and one that the end of the data cuts short.
`ServerSlots = 2`, `PendingCap = 2` make both limits bind. `MaxPuts` never binds
(`Total + 1`); `MaxFailures` bounds failing generations. `FreshBatch` needs a
sample that outlives two synchronisations, `SamplesConserved` one that is cut
twice; both happen with four samples.

The pipeline of a scheduler is filled by batch 3 and in its steady state from
batch 4; five batches per epoch and a second epoch give every iteration, the
epilogue, a save in each phase and an end of an epoch in the middle. `MaxFailures`
and `MaxCrashes` bound environment events only. Two crashes show a restart from a
checkpoint that was itself written after a restart; they also show one with no
checkpoint yet. A resumed job may run out of batches before its steps are over;
`Finishes` allows that after a crash only. In a life without a crash
`ResumedOnce` says what `EveryBatchOnce` says of
two_step_off: nothing twice, nothing left out.

Two threads are enough for one to hold what the other waits for; four parts of
two tasks per request give two requests of one attempt, and a failed first call
leaves tasks behind for the next one. `Teacher_wedged` uses the symmetry of the
threads, which the specification never names; the runs with liveness or a
refinement do not.

`Services`. Four steps with a save every three have a periodic save, a final one and
one that an ESI asks for in between, two of them in flight for the asynchronous manager; the
second crash hits a life that began with a restart, where the managers have forgotten
the old paths. Three requests and a semaphore of one make a request wait in
each of the layers, and rates below, at and above the cost of a request take both
branches of `acquire`. Two trajectories of one generation, or one with tools, under
two cuts: a cut of what has been cut already; four tokens of response with an
observation of one or two reach every limit from both sides.

`Training`. Four prompts with two responses on up to two data-parallel ranks (with two
workers each) and two mini-batches; lengths equal, balanced, and all one-sided
extremes. Four bytes hold every way in which two tokenisations can disagree about
a character of two bytes and two of one byte; a threshold of two makes chunks too
large. Two sequences show that chunks and signs do not mix across rows. The
controllers need two mini-batches in each of two calls to show a factor left over, and a
restart. Two epochs of two batches put a save and a crash before, at and after the
end of an epoch and let a resumed life resume again; three total steps end
before the data does, five after it. Five generation batches of two prompts
and training batches of three take up to three generations for a batch, leave a
prompt over, and run out. Two replicas, of two workers and of one, have
workers of one replica and of different replicas overtake one another; the second
step is the first after the warm-up, so that generations see weights of
two versions; five settings take every branch of `rollout_mode` and `trainer_mode`.

### Disagreements with documentation and comments

1. `FullyAsync_hang`. `docs/advance/fully_async.md:212` says that interrupted
   samples are generated on after the synchronisation. `update_param_version`
   recounts the stale samples as `active_tasks` + queue + `cancel_queue` (215-217).
   A request refused between `cancel` and `resume` is already in `cancel_queue`
   while its finished task is still in `active_tasks`, so it counts twice. The
   count can reach `max_required_samples` with nothing under way; the processor
   then pauses at once (425), the monitor never recovers it (640), and the trainer,
   whose next synchronisation would correct the count, waits for samples for ever.
   The same recount can go wrong without partial rollout, by a finished task whose
   sample is in the queue already; that takes a batch of 3 and a threshold of
   0.34 and is not among the runs. With `staleness_threshold = 0` the trainer
   holds all samples when it synchronises and `FullyAsync_sync` shows termination.
2. `Distill_onestep`. In `one_step_off_scheduler` a comment says that the first
   iteration goes on to the next one (`recipe/gkd/ray_trainer.py:424`), but the test
   that follows is `if i == 1`, not `elif`: iteration 0 runs the `else` block too.
   The first batch is generated and trained on twice, everything is one batch late
   and the last batch is generated but never trained on. With `elif` in the model
   `EveryBatchOnce` holds for this scheduler and no batch is older than one update.
3. `Teacher_wedged`. After a time-out `bg_task` keeps its REQ socket, which refuses
   to send until it has received: the thread fails every task it takes from then
   on. A retry gives it a part again, so one time-out uses up all attempts
   (`opd.py:709`, `recipe/gkd/teacher/client.py:142`). `AttemptsNotWasted` in
   `Distillation` shows that nothing else can waste one.
4. `Opd_truncated`. Teacher tokens beyond `max_seq_len` are cut, which "will skip
   gradient for this sequence" (`opd.py:354-360`); the comment at 1109 says that the
   whole sequence is skipped. If the cut falls inside a chunk, the fallback branch
   (533-598) moves both pointers to the end, `if s_ptr < n_stu` (605) finds nothing
   left over, `teacher_truncated` stays false, and the chunks before the cut are
   trained on. (A prompt cut to `max_seq_len` leaves no token to generate, 669-670;
   an engine that refuses such a request fails the whole call instead.)
5. `Overlapped_rewards`. With `reward_model.launch_reward_fn_async` the one-step-off trainer
   launches the reward task on the rows as they are generated
   (`recipe/one_step_off_policy/ray_trainer.py:352-356`, 361-398). `balance_batch`, on by
   default, then reorders the batch, which, says the comment at 489-491, does not affect
   the advantage since that goes by `uid`. But the rewards are put into the batch by
   position (506, 563), so each lands on the row that happens to be there. (The
   colocated trainer launches its task after it has balanced the batch; `RowsTogether`
   holds for it in `Training`.)
6. `FullyAsync_unbound`. The processor verifies the number of tasks again after it has
   acquired the lock, as the comment at `fully_async_rollouter.py:433` asks, but
   `for task in done_tasks` (438, 465, 476) runs whatever the outcome. A `pause()` that
   held the lock meanwhile has emptied `active_tasks` (677-679); if the processor has
   never been through an `asyncio.wait`, `done_tasks` is unbound, and the exception
   ends the rollout although no generation failed. It takes a first
   synchronisation before the processor has met a limit, for instance because the data
   ends before `max_concurrent_samples` are in flight.
7. `FullyAsync_excess`. `docs/advance/fully_async.md:135` bounds what is generated between
   two parameter updates by `max_required_samples` less the stale ones. The processor counts a sample
   when it takes it (453) and may then have to wait for the lock or for the end of
   the pause, with the sample in its hand. `update_param_version` sums the tasks, the cut samples and the
   queue (215-217), not that one, and overwrites the count. After `resume` the sample is
   submitted and `max_required_samples` others are taken. What does hold is `StalenessCounted`: never more
   than one is missed, however many updates follow one another.

Remarks without a run.

*Fully asynchronous system.* Without partial rollout, `docs/advance/fully_async.md:203`
promises that a triggered synchronisation adds no tasks. But the monitor tests its
condition (`fully_async_rollouter.py:639`) before it takes the lock (641); if
`pause()` holds it by then, the monitor clears `paused` behind it, and the processor
submits a sample while the weights are transferred. With partial rollout the
servers refuse the request until they are resumed (`NoGenerationInTransfer` of
`FullyAsync_partial`), but the refused request leads to disagreement 1. A sample cut
after the processor has taken the end signal is never generated on: its final loop
(455-467) does not look at `cancel_queue` again. The sample of disagreement 7 may find the
queue full; the oldest one in it is evicted for it.

*Agent loops.* A tool call that straddles a cut is not executed: the parser sees
only the tokens since the cut (`partial_tool_agent_loop.py:218`), although
`docs/advance/fully_async.md:437` speaks of resuming from the saved state; for the
same reason an interaction is told only the last fragment of a message. A pause
waits for the tools under way, which have no time-out. The single-turn loop does not
look at the cancellation event. A request cut before its first output leaves its entries in
`cancel_event` and `req_output`.

*Distillation.* The dataloader position in a checkpoint is ahead of its step by the
batches in flight; a job resumed in its last epoch has nothing to make up for them
and ends with an exception, where `docs/examples/config.rst:597` says it resumes. A
step of `recipe/gkd` without teacher knowledge leaves the loop body before
`stop_profile`. `README.md:66` places the retries in `recipe/gkd/teacher/client.py`, they
are in `opd.py`. The comment at `client.py:87` calls 600000 ms thirty minutes.

*Checkpoints.* `ray_trainer.py:895` empties the tracker before it writes it; after a
crash in between `int()` of nothing raises in every restart, although whole
checkpoints are there (`OrderedTracker` and `ProgressKept` speak of restarts that load). Megatron's
synchronous save writes the tracker itself, before critic and dataloader are saved,
though the trainer writes it last "for atomic usage" (882). Rank 0 of SFT renames
the tracker while the others may still write their positions. `max_ckpt_to_keep = 1`
removes the only checkpoint before the next one is saved. Checkpoints of earlier
lives are never rotated away.

*Reward loop.* A synchronous `compute_score` runs on in its thread after its time-out while
the semaphore is released, so more calls than `max_concurrent` can be out. Tokens are
taken before the semaphore: calls that waited for it can start all at once. The
limiters are class variables, that is, per process.

*Batches.* `rearrange_micro_batches` says of `max_token_len` that it is the maximum of
a micro-batch (`seqlen_balancing.py:275`); a partition into the computed number can
exceed it, by less than a factor of two (`MemoryBounded`). A mini-batch size that does
not divide the rows of a rank gives the rows of the last mini-batch another
weight, and with token-mean aggregation rows of different micro-batches are not
weighted equally; `EqualParts` is about sizes that divide, and sums over rows.

*One-step-off trainer.* A validation generates with the weights of the last
synchronisation: one update behind those it is logged for, in the last step two, and
`val_before_train` of a resumed job tests the weights before any training, because they
were sent before the checkpoint was loaded (`ValidatedBehind` says exactly this).
Whatever is raised while the next batch is read counts as the end of the data
(`except Exception`): training then ends quietly, without the last validation and
save. A job resumed from its last step trains one step more than its total.

*Dynamic sampling.* After the data is exhausted, `dapo_ray_trainer.py:409-418` looks for the last
checkpoint under the number after the last step, finds none and always saves again, one
number too far, even with saving switched off (`NumberedByUpdates`). The prompts of
an unfinished collection are dropped. An iteration that goes on with `continue`
begins its profile again.

*Hybrid engine.* The manager's first `sleep` writes the engine's random state over
`gen_random_states`, so the seed per data-parallel rank of `fsdp_workers.py:613-617` is never
used: all replicas generate from the engine's seed (`vllm_async_server.py:250`). The
random stream of generation begins anew after a restart, that of training is restored.

*Loss and controllers.* In mode raw the transform is skipped (`core_algos.py:1550`), so
without chunk ids masked positions keep a value, which the mask of the aggregation
removes. Sign groups are those of a micro-batch, so an advantage depends on its
company. A restart begins the controllers anew: one step is taken with c = 1 (the comment at
`dp_actor.py:96` speaks of a few; `step` is counted but not used), and the TV schedule
compares with the discrepancy after the restart, so c jumps back to 1. A first
step without valid tokens makes the reference 0, and c stays 1. Once c is below eps the
division by it no longer recovers the motion (`sunk` exempts this in `MotionBounded`).

### Fairness

`FairSpec` of `MQClients` assumes only that a notified coroutine runs: it is in
the ready list of the actor's loop. `FairSpec` of `FullyAsync` assumes weak
fairness of: the event loop (`EventLoop`: the head of `ready` runs, one thread,
and since `ready` is a FIFO no fairness between coroutines is assumed); the
monitor's `sleep`, a timer; the replies of other actors (`Replies`) and of each
sample's generation (`Generation`), which Ray delivers once, reliably; the
trainer; the transfer. `ServerError` is not fair: failures may happen and need
not. No strong fairness is used: the lock is a FIFO.

`FairSpec` of `OnPolicyDistill`: the driver is one thread that runs; a generation
ends; a teacher call ends one way or the other (`CallEnds` of `TeacherService`
shows why that may be assumed). Crashes are not fair. `FairSpec` of
`TeacherService`: the caller and the client's threads run, each weakly fair, which
includes the time-out of a `recv` without an answer; of proxy and workers nothing is
assumed.

`Distillation`: the two specifications' own fairness, each while its part was chosen.
`Services`: everything a trainer does on its own happens in its time, crashes need not
(`CkptProgress`); the event loop of the reward loop runs and its clock advances, but a call
need not return (`CallEnds` is not fair); calls between actors are delivered, every
trajectory's coroutine, its tools and the engine run, a synchronisation need not come.
The queue in `Services` has the fairness of `MQClients`.
`Training`: the loop of the alignment (`AlignSteps`) is one thread; driver and rollout
workers of the one-step-off trainer go on (`OverlapSteps`), the loop of the DAPO trainer
(`SamplingSteps`), and workers, servers and driver of the hybrid engine (`HybridSteps`).
Weak fairness of the disjunction is enough in all four: something can always happen
until the end, and every step gets closer to it. Crashes are not fair. The
parts without loops are checked for safety.

### Mutants

The definitions whose names end in `Mutant`, or whose comment says mutant, are
plausible bugs of the definition that follows each: an inverted boundary
(`ShouldPauseMutant`), a forgotten wake-up (`NotifyAllMutant`, `NotifiedMutant`), a cut
sample not queued again, a stamp not set, results in the wrong order. Nothing uses them; with one put
in the place of its original the property listed with it in `PROJECT.json` fails.

## 4. Proofs

TLC checks the instances above, TLAPS proves the following for all values of the
constants, from the named assumptions of the modules (`MQAssumption`,
`RollouterAssumption`, `DistillAssumption`, `ServiceAssumption`, `OpdControllersAssumption`,
`OverlapAssumption`, `EngineAssumption`, `CheckpointAssumption`, `LimiterAssumption`,
`AgentLoopAssumption`, `SamplingAssumption`, `OpdAlignAssumption`, `LossAssumption`,
`PrecisionAssumption`). Most of them give constants their types. Three say more.
`LossAssumption`: a log-probability is at most 0 and a fraction in lowest terms, a limit of the
clamp is positive, `param` of the mode `dctv` is not negative, and exponents are 0, 1 or 2, for which the
model multiplies out. `OpdAlignAssumption`: which texts and thresholds there are.
`PrecisionAssumption`: the hundredths of the model stand for floating-point numbers; dividing a norm by the
factor, rounded, loses at most `Eps` of motion.

* `MQClients_proofs`: `TypeCorrect`, `SamplesAccounted` (`QueueIsSuffix`),
  `NoWakeupIsLost` (`NoLostWakeup`) and `FifoImplemented` (`ImplementsFifo`).
  `TypeOK` and `QueueIsSuffix` are inductive together; the arithmetic is in four
  lemmas, one for each way the queue changes (`EvictedFacts`, `PutFacts`,
  `TakeFacts`, `ClearFacts`), which are used again for the steps of the
  refinement. `NoLostWakeup` is inductive given `TypeOK`: only a put and a shutdown
  make it false for a waiting consumer and both call `notify_all`.
* `FullyAsync_proofs`: `ResumeReachesProcessor` (`NoLostResume`),
  `SynchronisationsInOrder` (`VersionsInOrder`) and `ValidationsAllLogged`
  (`ValidationComplete`). The first is inductive as it is:
  whoever clears `paused` notifies. The second is not: where the versions may
  differ depends on how far the synchronisation is. `VersionsInv` says it for each
  phase of `sync` (`VersionsAtPhase`: who already has the new version) and for each
  place of the trainer (`TrainerAhead`); a step of the protocol moves from one
  phase to the next, and the lemmas `QuietSteps`, `ProcessorSteps`, `MonitorSteps`,
  `SyncSteps`, `OutsideSteps` say what all the other steps leave alone.
  The third says where the results of the versions so far are, for each place of the
  trainer: in the log in order, in `val_queue`, or one on its way. The module also has
  the types, the event loop and the tasks, that is, the first four parts of what follows.
* `Rollouter_proofs`: `SectionsSerialised` (`SectionsExclusive`) and `EverySampleInOnePlace`
  (`SamplesConserved`). Their inductive invariant is `SystemInv`, of five parts:
  `VersionsInv` from above; the types `TypeInv`; `LoopInv`, which relates the event loop
  and the lock; `TasksInv`; `SampleInv`.
  `LockDiscipline` speaks of one coroutine in a section at a time, but why that is so is
  spread over `ready`, `owner` and `waiters`: `LoopInv` says that the two lines hold no
  coroutine twice and none in common, that the waiters are those at a lock
  (`Queuing`) less the one that was granted it, that whoever is in a section
  (`Holding`) is the owner, and that an owner not yet there is in `ready` (`LockInv`);
  and where a coroutine can be while it is ready (`Resting`). The coroutines take
  the lock, pass it on and are woken by few operators, and one lemma for
  each (`Wakes`, `Enqueues`, `Holds`, `Releases`, ...) says what it does to the two lines.
  `TasksInv` says that the limit tested before the lock was released still holds when it
  is taken again, because only the processor adds tasks. `SampleInv` says that
  a sample is in exactly one of the places a sample can be (`Located`), the end
  signal too; the lemmas ending in `Locates` go through the steps by what moves.
* In the same module, on top of `SystemInv`: `TransferAlone` (`NoGenerationInTransfer`) and
  `BatchesFresh` (`FreshBatch`), both for partial rollout, the hypothesis of the two theorems.
  Without it the first is false, as the remarks say (a recovery that the monitor decided
  before the pause submits a sample during the transfer). `ServersInv` says between
  which steps of the protocol the servers are paused, and that from the end of the
  gather to `resume` no task is at one that generates; `StampInv`, that a sample being
  generated is being generated by the servers' weights and that its stamp is the newest version it was made
  by. `AgeInv` is about positions: the i-th sample in the queue will be the trainer's
  sample number `Taken + i`, and that is at most the number it takes until
  one synchronisation after the stamp, plus the capacity of the queue (`InTime`); so the
  versions that pass before it is taken are bounded (`AgeFromPosition`, which
  is the arithmetic of `ceil(staleness)`). The age of a batch is thus reduced to the capacity of
  the queue, not to the counter `staleness_samples`, which can be wrong.
* `CountMissesOne` (`StalenessCounted`), with partial rollout or without. The recount reads its
  three terms at different moments, and between them tasks put samples into the queue and the
  trainer takes them out. `CountInv` says what the count so far is good for: once the tasks
  and the cut samples are read, they are at least those there still are (`Carried`), and
  with the queue's answer at least all but the one in the hand (`Held`): a sample
  can pass from what was read to what will be read, never the other way. The hand is at
  most one sample, and a sample is taken only below the limit.
* Synchronous mode, with partial rollout or without: `SynchronousIsSynchronous`
  (`SynchronousMode`) and `FixedCount` (`FixedNumber`). Their hypothesis is `StalenessPct = 0`, which is
  how the documentation defines the mode. That it is synchronous is nowhere in the code, which has
  one path for all modes; it follows from the count. `FlowInv` and `EndInv` hold for every threshold
  (`BaseInvHolds`): samples are taken in their order and the trainer has the first `Taken` of those
  that reach it; the processor has stopped before the trainer sees the None sample. With a threshold
  of zero `PaceInv` adds that the count is the number of samples taken since the last update and at most
  an interval. So a trainer that is due to synchronise has
  received as many samples as were taken at all (`FullInterval`): nothing is in the hand, in a task, cut
  or in the queue, and neither the processor (at its limit) nor the monitor (which would need a count below it)
  can go on. This is `EmptiedInSync`, and it makes every step of the protocol harmless: no generation
  is there to cut (`Uncut`), to be counted twice (`StillInv`) or to mix two weights (`FreshInv`), and the
  puts of an interval are exactly its samples (`PutInv`). Two races need their own parts: a recovery the monitor
  decided before it took the lock gets the lock before the processor can submit the last sample of
  the interval (`MonitorFirst`, on the lines of the lock), and the processor has been through an
  `asyncio.wait` before anyone can empty `active_tasks` (`FirstWait`), so that disagreement 6 cannot occur.
* `OnPolicyDistill_proofs` (from `DistillAssumption`): `TypeCorrect` (`TypeOK`),
  `KnowledgeIsOwn` (`OwnKnowledge`), `LastWeightsAreSaved` (`LastWeightsSaved`),
  `StalenessBounded` (`Staleness`) and `ResumedRunsLoseTwo` (`ResumedOnce`). `TypeOK` and
  `OwnKnowledge` need strengthening: a running `fit()` is
  short of its last step (`Running`), and between `get` and `yield` the shared buffer
  holds the knowledge of the result under way (`BufferMatches`), in the history of the
  checkpoint as in that of the run. How old a batch is and which batch comes next
  depends on what each scheduler still has to do in its iteration: `OneStepPipeline` and
  `TwoStepPipeline` have a case for each list of remaining steps, with the batches
  and the weights of the generation, the teacher call and the result under way, and
  `InFlight` counts them against the last batch trained on. `HistoryInv` keeps of the past
  what the two properties say, in the checkpoint too.
* `TeacherService_proofs`: `CallImplemented` (the refinement `ImplementsCall`) and
  `GivesUpOnFaults` (`AttemptsNotWasted`), for any threads, parts, sizes, retries and calls.
  The arithmetic is that of a reply cut where its request was put together: the k-th slice is
  about the prompts of the k-th task (`SliceOfTask`, by quotient and remainder), and what
  was collected is about the first parts of the call (`OnePartMore`). `AnswerInv` says
  that a future that is done is about its part of the current call, which tasks of
  earlier attempts cannot disturb since their futures are no longer looked at
  (`Resolved`). For the second theorem a wedged socket stays wedged (`WedgedStays`), and
  as long as there is none `FaultInv` keeps account: every earlier attempt has had a
  fault, the current one as soon as one of its futures has failed, and an error
  reply on its way is a fault of the attempts its request belongs to.
* `Training_proofs`, the parts of training one after the other. Of `OpdControllers`:
  `RanksStayInStep` (`RanksInStep`, from `FactorsAgree`,
  `UpdatesSeenOnce` and `RateIsTheSchedules`) and `ReferenceStays` (`Anchored`), for any
  ranks, samples, norms and schedule. `ControllersInv` says that the copies of the
  controller are equal and how far each is behind the optimizer at each place of the
  step; `SameUpdate` is the reason: what a rank makes of reduced values depends on
  its copy and its learning rate only. `MotionStaysBounded` (`MotionBounded`) is about
  the numbers. The controller divides the factor out of the norm again before it averages,
  and an average with weights `Beta` and its complement does not add up what
  each step rounds off (`AverageWithin`): so the true motion stays within a fixed
  distance of the average the controller sees (`MotionFollowed`, part of `MotionInv`), which its
  factor keeps below the averaged discrepancy. That the sum over the ranks is a number
  (`SumIsNumber`) needs the fold to be a function, see below.
* Of `OneStepOff`: `OverlapStaysOneStep` (`OneStepBehind`) and
  `OverlapLosesInFlightOnly` (`OverlapKept`), for any dataloader, number of steps and
  restarts. Neither is inductive: how old a batch is depends on whether it is being
  generated, waited for or trained on. `OverlapInv` says for each place in `fit` how the
  numbers and versions of the batch in hand and of the one being generated stand to
  the weights (`AtStart`, `AtWait`, `AtTrain`, `AtTrained`, `AtEnd`), and of a checkpoint that it
  owes one batch more than the life that wrote it (`CheckpointOwes`).
* Of `HybridEngine`: `HybridStaysTogether` (`HybridKept`), for any replicas,
  settings, number of steps and restarts. `HybridInv` says at which places the workers can be in
  each turn of the manager (`Turns`), what the engine holds on the way to its next generation
  (`Weights`), what is on the device at each place (`Memory`), and that the two random
  states of a worker are of different streams, exchanged at each change of modes
  (`Random`), in the checkpoint too (`Keeps`). The driver alone does not know: workers of one
  replica may be ready to generate while those of another still load.
* Of `DynamicSampling`: `SamplingStaysWhole` (`SamplingKept`), for any data, batch sizes, number of
  responses, settings and rewards. A batch that is made of whole groups (`Grouped`) is described by the sequence of its
  prompts; the lemmas `RowsGrouped`, `GroupedConcat`, `GroupedPrefix` and `GroupedHas` say that rows of one generation are
  grouped, that groups put behind groups and the first groups of a batch are, and what such a batch contains. `Collecting`
  says that the rows are exactly the informative prompts of the generations since the last step (`Collected`), so that a
  count too low is a lack of prompts and not of rows; `BatchesApart` that what was trained on comes from earlier
  generations, which later rewards cannot make flat.
* Of `OpdAlign`: `ChunksStayAligned` (`ChunksAligned`), for any byte strings over the alphabet, any
  ways to cut them into tokens, any cut of the teacher's sequence and any threshold. `AlignInv`
  keeps for every chunk marked so far the tokens it was made of on either side
  (`AlignedAs`): it lies behind both pointers, which only advance, so no later chunk reaches into
  it; the row filled in at the end is what was marked (`RowFilled`).
  `NothingLeftOut` (`AllCredited`) needs in addition that the two sides are cuts of one text. A text
  is a fold over tokens; `FlattenAs` and `CutsInOrder` make the tokens `from` to `to` the slice of the
  bytes between two cuts (`TokensBetween`), and the text of a slice the characters that start in it
  (`SliceChars`), for a text of any length. `CoverInv` says that a chunk begins at the same byte on both
  sides, where a character starts. Both texts are then beginnings of the same characters,
  so their lengths tell which side is behind (`LengthsTell`), which is what `Grow` goes by; texts that are
  equal and whole end at the same byte, where `Match` cuts; and a side that can grow no more
  is at the end of the text, where the other one meets it. Hence for a readable text `Fallback` is never
  reached, and every token behind the pointers is in a chunk or in one too large.
* Of `OpdLoss`: `CreditStaysWhole` (`CreditKept`), for any payloads, chunk ids and settings. Everything in
  this model is sums, products and quotients of fractions in lowest terms, so the proof begins
  with arithmetic. By Euclid's argument about coprime factors (`DividesOther`) a number is only one fraction
  in lowest terms (`SameValue`); hence addition and multiplication obey the usual laws as equations
  between fractions (`PlusLaws`, `TimesLaws`, `OverLaws`, `MinusLaws`), and sums may be taken in any order
  (`SumApart`), split (`SumUnion`), permuted (`SumPermuted`) and freed of a common factor (`SumScaled`).
  Two invariants follow. `LossInv` is about signs and about what is not zero: no strength, count or
  chunk that is divided by can be, because a group that has a member has a strength, and because
  `AssignCredit` shares evenly where the student's own sum is zero. `CreditInv` is about values.
  From it: a chunk gets all of the teacher's (`ChunksConserved`); the strength of each sign or of both
  together is kept (`GroupKeeps`, `TogetherKeep`), the latter because the interpolated
  share is a part of one that its clamp only moves towards an end; and the sweeps meet the
  modes at their ends (`SweepsDoMeet`, by `AllocEnds` and `InterpEnds`).
* `AgentLoop_proofs`: `TrajectoriesStayWhole` (`TrajectoryIntact`), for any number of
  responses, limits, answers of model and tools, and cuts. `AgentInv` compares what was
  said with what the loop keeps and the server still holds (`Heard`), says what a saved state
  promises about the arrays (`Sound`: mask and log-probabilities token by token, turns against
  the state), that the engine is asked only where there is room (`Fitting`), how the place of a
  coroutine stands to the state it saved (`Placed`), and where coroutines can be in each
  phase of a synchronisation (`Phases`).
* `Services_proofs`: `ResumesFromWhole` (`ResumesWhole`) and `RestartsKeepProgress`
  (`ProgressKept`) of `Checkpoint`, for any trainers, managers and settings, any length of training
  and number of crashes; `LimitsAreKept` (`LimitsKept`) of `RewardLimiter`, for any finite set of
  requests and any settings. `CkptInv` says, for each list of operations that can be left of a
  save (`Planned`), what the directory of its step already holds (`Saved`) and what the tracker
  names meanwhile (`Named`, `Advanced`, `Finishing`), which paths a manager remembers, so
  that rotation removes none of that (`Rotating`, `Directories`), the same for the calls of an asynchronous
  save (`Calls`), and how weights, positions and batches in flight stand to one another
  (`Reading`, `Trained`). In `LimInv` a limiter whose requests fit its bucket is
  `Metered`: what it let through since any moment and what is in the bucket never exceed what was
  refilled. One whose requests are larger is `Spaced`: it books each as of the moment its sleep
  ends (`Reservations`), one cost apart. `Semaphored` is about the calls.

Facts about sequences and cardinalities are cited from the library's `SequenceTheorems` and
`FiniteSetTheorems`. What is needed about folds is proved without an induction theorem: a property
of a fold over a finite set is assumed to fail for a least number of elements, and one
element less gives the contradiction (`FoldsOnSmall`, `FoldExists`, `FoldsAgree`; `SumApart` in the same way).

Only model-checked: all liveness (`ShutdownReleases`, `Termination`, `Finishes`,
`CallEnds`, `EveryServiceEnds`, `EveryPartEnds`), which needs ENABLED; and what depends on all that a search computes:
`RowsIntact` and `DealtEvenly` of `PpoBatch` (the Karmarkar–Karp partition of `SeqlenBalancing`, a
heap of partial partitions).

## 5. Plan

1. *Done*: message queue, rollouter, trainer, synchroniser; on-policy distillation
   trainer with restarts; teacher service; agent loops under partial rollout;
   checkpoints; rate-limited reward loop; a PPO step; alignment, loss and
   controllers of on-policy distillation; one-step-off training, dynamic sampling, the
   hybrid engine; theorems about all of these but the balancing of a batch.
2. The choice of a server in `AsyncLLMServerManager`; `AgentLoop` shown to implement
   the one-request abstraction used by `Rollouter`.

## 6. Not modelled

The repository has about 116 thousand lines of implementation, and the models stand for
the small part of them that has a protocol: state that outlives a call and is
shared between processes, threads, coroutines or steps. The larger part is not modelled:

* model definitions, kernels, weight converters and patches of inference engines
  (`verl/models`, `verl/utils/kernel`, `verl/utils/megatron`, `verl/third_party`,
  `recipe/vla/models`): tensor computation without state between calls;
* recipes whose `fit` is a variation of the colocated trainer's with another loss,
  reward or environment (`recipe/prime`, `entropy`, `sppo`, `r1`, `vla`, `spin`): the path of a
  batch is the one in `PpoBatch`. Of these `spin` has a protocol of its own, a reference
  model that is replaced by a saved actor now and then, which is left for later;
* `recipe/transfer_queue`: the colocated `fit` on a queue that is an external package;
* SGLang as the engine of the rollout; vLLM is the one modelled;
* losses and advantage estimators other than those of on-policy distillation
  (`core_algos.py`), the critic, validation, metrics, tracking, profilers;
* weight transfer, padding and packing of batches; datasets, reward scores, tools and
  interactions, which are functions or external services;
* configuration, docker, examples, documentation tools, vendored code and tests.

The list with reasons is in `PROJECT.json` under
`components`.
