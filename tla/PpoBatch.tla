-------------------------------- MODULE PpoBatch --------------------------------
(***************************************************************************)
(* One batch of the colocated trainer, from the prompts to the gradient:   *)
(* fit of verl/trainer/ppo/ray_trainer.py, the dispatch and the collection *)
(* of verl/single_controller/base/decorator.py and verl/protocol.py, and   *)
(* compute_log_prob and update_policy of verl/workers/actor/dp_actor.py;   *)
(* or one of recipe/one_step_off_policy/ray_trainer.py (overlapped), whose *)
(* fit differs in where a reward task is begun and waited for.             *)
(*                                                                         *)
(* A response is <<prompt, number>>.  The batch is a table of columns that *)
(* belong together by position only; the log-probability and the score of  *)
(* a response are named by it.  The workers are driven together by their   *)
(* collective operations (the maximum of the numbers of micro-batches, and *)
(* the parameters gathered by each forward pass): one takes the next when  *)
(* all do.                                                                 *)
(***************************************************************************)
EXTENDS SeqlenBalancing

CONSTANTS
  Configs,         (* overlapped, balance_batch, launch_async: trainer and flags *)
  Prompts, N,      (* prompts of the batch, responses to each of them          *)
  Layouts,         (* dp_rank_mapping: the data-parallel rank of each worker   *)
  Lengths,         (* sequences of the lengths the responses may come out with *)
  MaxTokens,       (* max_token_len of a micro-batch                           *)
  MiniPrompts,     (* actor.ppo_mini_batch_size, in prompts                    *)
  MicroSize,       (* rows of a micro-batch that is not dynamic                *)
  PpoEpochs

VARIABLES
  config, layout, dynamic, length,     (* fixed at the start *)
  phase,           (* where fit is                                             *)
  batch,           (* the columns of the table                                 *)
  future_reward,   (* the rows the reward is being computed for                *)
  rank,            (* of each worker: its rows, micro-batches, results         *)
  epoch, mini,     (* the mini-batch the update is at                          *)
  weight           (* of each response in the gradients so far, all workers    *)

batchVars == <<config, layout, dynamic, length, phase, batch, future_reward, rank, epoch,
               mini, weight>>
batchSetting == <<config, layout, dynamic, length>>

AllResponses == (1..Prompts) \X (1..N)
Rows == Prompts * N
Workers == DOMAIN layout
World == Len(layout)
DpSize == Max({layout[r] : r \in Workers}) + 1
LengthsOf(responses) == [i \in DOMAIN responses |-> length[responses[i]]]
Slice(s, n, size) == SubSeq(s, (n - 1) * size + 1, n * size)

(* repeat(repeat_times=n, interleave=True) *)
Repeated == [i \in 1..Rows |-> (i - 1) \div N + 1]
Task(rows) == [of |-> rows, done |-> FALSE]
NoTask == Task(<<>>)
Idle == [rows |-> <<>>, micros |-> <<>>, next |-> 1, out |-> <<>>]

BatchInit ==
  /\ config \in Configs /\ layout \in Layouts /\ dynamic \in BOOLEAN
  /\ \E s \in Lengths : length = [x \in AllResponses |-> s[(x[1] - 1) * N + x[2]]]
  /\ phase = "gen"
  /\ batch = [uid |-> <<>>, response |-> <<>>, score |-> <<>>, logp |-> <<>>, advantage |-> <<>>]
  /\ future_reward = NoTask
  /\ rank = [r \in Workers |-> Idle]
  /\ epoch = 1 /\ mini = 1
  /\ weight = [x \in AllResponses |-> 0]

-------------------------------------------------------------------------------
(* The prompts are repeated, the responses come back in their order.  The  *)
(* overlapped trainer begins the reward task together with the generation, *)
(* on what comes out of it.                                                *)
AsGenerated == [i \in 1..Rows |-> <<Repeated[i], 1 + ((i - 1) % N)>>]
Generate ==
  /\ phase = "gen"
  /\ batch' = [batch EXCEPT !.uid = Repeated, !.response = AsGenerated]
  /\ future_reward' = IF config.overlapped /\ config.launch_async THEN Task(AsGenerated) ELSE NoTask
  /\ phase' = IF config.balance_batch THEN "balance" ELSE "reward"
  /\ UNCHANGED <<batchSetting, rank, epoch, mini, weight>>

(* _balance_batch: each worker's rows have the same number and nearly the  *)
(* same workload; the small ones are at both ends.                         *)
Ordered(partition, work) ==
  LET sorted == SortSeq(partition, LAMBDA a, b : work[a] < work[b] \/ (work[a] = work[b] /\ a < b))
  IN EveryOther(sorted, 1) \o Reverse(EveryOther(sorted, 2))
GlobalOrder(parts, work) ==
  FlattenSeq([p \in 1..World |-> Ordered(parts[p], work)])
Reordered(order) ==
  [batch EXCEPT !.uid = [i \in 1..Rows |-> batch.uid[order[i]]],
                !.response = [i \in 1..Rows |-> batch.response[order[i]]]]
WorkloadOf(responses) == [i \in DOMAIN responses |-> Workload(length[responses[i]])]
BalanceBatch ==
  /\ phase = "balance"
  /\ LET work == WorkloadOf(batch.response)
         parts == BalancedPartitions(work, World, TRUE)
     IN batch' = Reordered(GlobalOrder(parts, work))
  /\ phase' = "reward"
  /\ UNCHANGED <<batchSetting, future_reward, rank, epoch, mini, weight>>

(* The overlapped trainer waits for the task it began when it launched the *)
(* generation, and assigns the rewards by position.                        *)
LaunchedReward ==
  /\ config.launch_async /\ config.overlapped /\ future_reward.done
  /\ batch' = [batch EXCEPT !.score = future_reward.of]
  /\ UNCHANGED future_reward

(* The reward is computed now, or by a task of its own, which the          *)
(* colocated trainer begins on the batch as it is now and waits for before *)
(* the advantage.                                                          *)
Reward ==
  /\ phase = "reward"
  /\ \/ /\ ~config.launch_async
        /\ batch' = [batch EXCEPT !.score = batch.response]
        /\ UNCHANGED future_reward
     \/ /\ config.launch_async /\ ~config.overlapped
        /\ future_reward' = Task(batch.response)
        /\ UNCHANGED batch
     \/ LaunchedReward
  /\ phase' = "log_prob"
  /\ UNCHANGED <<batchSetting, rank, epoch, mini, weight>>
RewardTaskEnds ==
  /\ future_reward.of # <<>> /\ ~future_reward.done
  /\ future_reward' = [future_reward EXCEPT !.done = TRUE]
  /\ UNCHANGED <<batchSetting, phase, batch, rank, epoch, mini, weight>>

-------------------------------------------------------------------------------
(* dispatch_nd_compute and collect_nd_compute: a chunk of the batch to the *)
(* workers of each data-parallel rank, the results of one of them back.    *)
RankRows(r) == Slice(batch.response, layout[r] + 1, Rows \div DpSize)
Collects(r) == \A s \in Workers : s < r => layout[s] # layout[r]

(* prepare_dynamic_batch, and split otherwise. *)
MicroBatchesHere(rows, count) ==
  IF dynamic
  THEN MicroBatches(LengthsOf(rows), count)
  ELSE [n \in 1..CeilDiv(Len(rows), MicroSize) |->
         [i \in 1..Min({MicroSize, Len(rows) - (n - 1) * MicroSize}) |-> (n - 1) * MicroSize + i]]
(* Mutant: each worker goes by its own number. *)
CountForMutant(r, rows) == MicroBatchCount(LengthsOf(rows[r]), MaxTokens)
CountFor(r, rows) == Max({MicroBatchCount(LengthsOf(rows[s]), MaxTokens) : s \in Workers})
Loaded(rows) ==
  [r \in Workers |-> [Idle EXCEPT !.rows = rows[r],
                                  !.micros = MicroBatchesHere(rows[r], CountFor(r, rows))]]

More(r) == rank[r].next <= Len(rank[r].micros)
Current(r) == LET idx == rank[r].micros[rank[r].next] IN [i \in DOMAIN idx |-> rank[r].rows[idx[i]]]

(* compute_log_prob *)
LogProbStart ==
  /\ phase = "log_prob"
  /\ rank' = Loaded([r \in Workers |-> RankRows(r)])
  /\ phase' = "log_prob_forward"
  /\ UNCHANGED <<batchSetting, batch, future_reward, epoch, mini, weight>>
LogProbForward ==
  /\ phase = "log_prob_forward" /\ \A r \in Workers : More(r)
  /\ rank' = [r \in Workers |-> [rank[r] EXCEPT !.next = @ + 1, !.out = @ \o Current(r)]]
  /\ UNCHANGED <<batchSetting, phase, batch, future_reward, epoch, mini, weight>>
(* Mutant: the results are left in the order they were computed in. *)
ResultMutant(r) == rank[r].out
Result(r) == IF dynamic THEN RestoredOrder(rank[r].out, rank[r].micros) ELSE rank[r].out
LogProbEnd ==
  /\ phase = "log_prob_forward" /\ \A r \in Workers : ~More(r)
  /\ batch' = [batch EXCEPT !.logp =
                FlattenSeq([r \in Workers |-> IF Collects(r) THEN Result(r) ELSE <<>>])]
  /\ rank' = [r \in Workers |-> Idle]
  /\ phase' = "adv"
  /\ UNCHANGED <<batchSetting, future_reward, epoch, mini, weight>>

-------------------------------------------------------------------------------
(* compute_grpo_outcome_advantage: a score against those of its group. *)
Group(score, i) == {score[j] : j \in {k \in 1..Rows : batch.uid[k] = batch.uid[i]}}
ComputeAdvantage ==
  /\ phase = "adv"
  /\ config.launch_async => future_reward.done
  /\ LET score == IF config.launch_async THEN future_reward.of ELSE batch.score
     IN batch' = [batch EXCEPT !.score = score,
                    !.advantage = [i \in 1..Rows |-> [of |-> score[i], group |-> Group(score, i)]]]
  /\ phase' = "update"
  /\ UNCHANGED <<batchSetting, future_reward, rank, epoch, mini, weight>>

-------------------------------------------------------------------------------
(* update_policy.  The size of a mini-batch is that of all workers divided *)
(* among the data-parallel ranks.                                          *)
MiniSize == (MiniPrompts * N) \div DpSize
Minis == (Rows \div DpSize) \div MiniSize
MiniStart ==
  /\ phase = "update" /\ epoch <= PpoEpochs
  /\ rank' = Loaded([r \in Workers |-> Slice(RankRows(r), mini, MiniSize)])
  /\ phase' = "backward"
  /\ UNCHANGED <<batchSetting, batch, future_reward, epoch, mini, weight>>

(* The loss of a micro-batch is the mean of its rows, scaled; the gradient *)
(* is the mean of those of the workers.  In parts of WeightUnit.           *)
WeightUnit == 840
RowWeight(r) ==
  LET rows == Len(Current(r))
  IN IF dynamic THEN (WeightUnit * rows) \div (MiniSize * rows)
     ELSE WeightUnit \div ((MiniSize \div MicroSize) * rows)
Backward ==
  /\ phase = "backward" /\ \A r \in Workers : More(r)
  /\ weight' = [x \in AllResponses |->
       weight[x] + MapThenSumSet(RowWeight, {r \in Workers : x \in ToSet(Current(r))})]
  /\ rank' = [r \in Workers |-> [rank[r] EXCEPT !.next = @ + 1]]
  /\ UNCHANGED <<batchSetting, phase, batch, future_reward, epoch, mini>>
StepOptimizer ==
  /\ phase = "backward" /\ \A r \in Workers : ~More(r)
  /\ rank' = [r \in Workers |-> Idle]
  /\ IF mini < Minis THEN mini' = mini + 1 /\ UNCHANGED epoch
                     ELSE mini' = 1 /\ epoch' = epoch + 1
  /\ phase' = "update"
  /\ UNCHANGED <<batchSetting, batch, future_reward, weight>>

UpdateEnd ==
  /\ phase = "update" /\ epoch > PpoEpochs
  /\ phase' = "done"
  /\ UNCHANGED <<batchSetting, batch, future_reward, rank, epoch, mini, weight>>
BatchFinished == phase = "done" /\ UNCHANGED batchVars

BatchSteps ==
  \/ Generate \/ BalanceBatch \/ Reward \/ RewardTaskEnds
  \/ LogProbStart \/ LogProbForward \/ LogProbEnd
  \/ ComputeAdvantage
  \/ MiniStart \/ Backward \/ StepOptimizer \/ UpdateEnd
BatchNext == BatchSteps \/ BatchFinished
BatchSpec == BatchInit /\ [][BatchNext]_batchVars

-------------------------------------------------------------------------------
Complete(column) == column = <<>> \/ Len(column) = Rows
BatchTypeOK ==
  /\ phase \in {"gen", "balance", "reward", "log_prob", "log_prob_forward", "adv", "update",
                "backward", "done"}
  /\ \A name \in DOMAIN batch : Complete(batch[name])
  /\ epoch \in 1..PpoEpochs + 1 /\ mini \in 1..Minis
  /\ \A r \in Workers : rank[r].next \in 1..Len(rank[r].micros) + 1
  /\ weight \in [AllResponses -> Nat]

(* What the columns of a row hold is about one response: neither the order *)
(* the ranks are balanced in, nor that of the micro-batches, nor a reward  *)
(* computed meanwhile comes between them ("won't affect the advantage      *)
(* calculation (since it's based on uid)").                                *)
RowsTogether ==
  /\ ToSet(batch.response) = (IF phase = "gen" THEN {} ELSE AllResponses)
  /\ \A i \in 1..Len(batch.response) :
       /\ batch.uid[i] = batch.response[i][1]
       /\ batch.score # <<>> => batch.score[i] = batch.response[i]
       /\ batch.logp # <<>> => batch.logp[i] = batch.response[i]

(* An advantage is that of the row's own score against the scores of all   *)
(* the responses to its prompt, wherever balancing has put them.           *)
OwnGroup ==
  \A i \in 1..Len(batch.advantage) :
    batch.advantage[i] = [of |-> batch.response[i], group |-> {batch.response[i][1]} \X (1..N)]

(* After each epoch every response has had the same part in the gradients, *)
(* however rows were dealt out to workers, mini- and micro-batches.        *)
EqualParts ==
  phase \in {"update", "done"} /\ mini = 1 =>
    \A x \in AllResponses :
      weight[x] * MiniPrompts * N = WeightUnit * World * (epoch - 1)

(* Balanced, the workers' rows differ in workload by no more than two      *)
(* rows do.                                                                *)
WorkersBalanced ==
  config.balance_batch /\ phase \notin {"gen", "balance"} =>
    LET work == WorkloadOf(batch.response)
    IN SumSpread(work, [p \in 1..World |-> [i \in 1..Rows \div World |-> (p - 1) * (Rows \div World) + i]])
         <= Max(ToSet(work)) - Min(ToSet(work))

(* The lengths of a dynamic micro-batch add up to less than twice the      *)
(* tokens it is meant to have.                                             *)
MemoryBounded ==
  dynamic => \A r \in Workers : \A n \in DOMAIN rank[r].micros :
    Total(LengthsOf(rank[r].rows), rank[r].micros[n]) < 2 * MaxTokens

(* The workers of a collective operation all take part in it: none of them *)
(* is through with its micro-batches before the others.                    *)
NoneLeftWaiting == \A r, s \in Workers : More(r) = More(s)

(* A row stays one response's through every permutation, and is compared   *)
(* with its own group.                                                     *)
RowsIntact == BatchTypeOK /\ RowsTogether /\ OwnGroup

(* The work is dealt out so that nobody waits for ever, none has much more *)
(* than the others, no micro-batch is twice what it is meant to be, and    *)
(* each response counts the same.                                          *)
DealtEvenly == NoneLeftWaiting /\ WorkersBalanced /\ MemoryBounded /\ EqualParts
===============================================================================
