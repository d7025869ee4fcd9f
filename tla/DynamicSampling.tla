---------------------------- MODULE DynamicSampling ----------------------------
(***************************************************************************)
(* Dynamic sampling: fit of recipe/dapo/dapo_ray_trainer.py collects the   *)
(* prompts whose responses differ in reward, over as many generation       *)
(* batches as it takes to fill a training batch.                           *)
(*                                                                         *)
(* Prompt <<g, i>> is the i-th of generation batch g; <<g, i, k>> is its   *)
(* k-th response, a row of the batch.  Which responses differ is chosen by *)
(* the model.  What the step does with a batch is the subject of PpoBatch. *)
(***************************************************************************)
EXTENDS Integers, Sequences, FiniteSets, SequencesExt, FiniteSetsExt

CONSTANTS
  Samplings,       (* filter_groups.enable, max_num_gen_batches, rollout.n,     *)
                   (* total_training_steps and save_freq                        *)
  GenBatchSize, TrainBatchSize,
  GenBatches       (* generation batches in all epochs                          *)

ASSUME SamplingAssumption ==
  /\ Samplings \subseteq [filter : BOOLEAN, max_num_gen_batches : Int, n : Nat \ {0},
                          total_steps : Nat \ {0}, save_freq : Int]
  /\ {GenBatchSize, TrainBatchSize, GenBatches} \subseteq Nat \ {0}

VARIABLES
  sampling,             (* the settings                                         *)
  dapo,                 (* fit: "running", "returned", "raised", "exhausted"    *)
  drawn,                (* generation batches drawn from the dataloader         *)
  gen_step,             (* global_steps                                         *)
  rows,                 (* batch                                                *)
  num_prompt_in_batch, num_gen_batches,
  flat,                 (* history: prompts whose responses got one reward      *)
  trained,              (* history: the batches trained on                      *)
  saved                 (* the checkpoints: global_steps -> updates they hold   *)

samplingVars == <<sampling, dapo, drawn, gen_step, rows, num_prompt_in_batch, num_gen_batches,
                  flat, trained, saved>>

SamplingInit ==
  /\ sampling \in Samplings
  /\ dapo = "running"
  /\ drawn = 0 /\ gen_step = 1
  /\ rows = <<>> /\ num_prompt_in_batch = 0 /\ num_gen_batches = 0
  /\ flat = {} /\ trained = <<>> /\ saved = <<>>

PromptsOf(g) == {g} \X (1..GenBatchSize)

(* The prompts stay in their order, and the responses to a prompt follow   *)
(* each other (repeat, interleave).                                        *)
PlaceOf(p, prompts) == Cardinality({q \in prompts : q[2] <= p[2]})
PromptAt(j, prompts) == CHOOSE p \in prompts : PlaceOf(p, prompts) = j
RowsOf(prompts) ==
  [r \in 1..Cardinality(prompts) * sampling.n |->
     LET p == PromptAt((r - 1) \div sampling.n + 1, prompts)
     IN <<p[1], p[2], ((r - 1) % sampling.n) + 1>>]

(* A checkpoint under global_steps, of as many updates. *)
WithCheckpoint(updates) ==
  [s \in DOMAIN saved \cup {gen_step} |-> IF s = gen_step THEN updates ELSE saved[s]]
SavesAt(s) == sampling.save_freq > 0
              /\ (s >= sampling.total_steps \/ s % sampling.save_freq = 0)

(* Too few prompts yet: the next generation batch adds to these, or fit    *)
(* raises.                                                                 *)
MayGoOn(batches) == sampling.max_num_gen_batches <= 0 \/ batches < sampling.max_num_gen_batches
KeepGenerating(all, count) ==
  /\ rows' = all
  /\ num_prompt_in_batch' = count
  /\ num_gen_batches' = num_gen_batches + 1
  /\ dapo' = IF MayGoOn(num_gen_batches + 1) THEN "running" ELSE "raised"
  /\ UNCHANGED <<gen_step, trained, saved>>

(* A step on the batch, and what is collected begins anew.  What is left   *)
(* over of the last generation batch goes with it.                         *)
(* Mutant: the number of prompts is not reset. *)
CountAfterStepMutant(count) == count
CountAfterStep(count) == 0
Update(batch, count) ==
  /\ trained' = Append(trained, batch)
  /\ saved' = IF SavesAt(gen_step) THEN WithCheckpoint(Len(trained) + 1) ELSE saved
  /\ rows' = <<>>
  /\ num_prompt_in_batch' = CountAfterStep(count) /\ num_gen_batches' = 0
  /\ IF gen_step >= sampling.total_steps
     THEN dapo' = "returned" /\ UNCHANGED gen_step
     ELSE gen_step' = gen_step + 1 /\ UNCHANGED dapo

(* One generation batch; with one response to a prompt all are kept. *)
GenerateAndFilter(same) ==
  LET kept == IF sampling.n = 1 THEN PromptsOf(drawn + 1) ELSE PromptsOf(drawn + 1) \ same
      all == rows \o RowsOf(kept)
      count == num_prompt_in_batch + Cardinality(kept)
  IN /\ dapo = "running" /\ drawn < GenBatches
     /\ drawn' = drawn + 1
     /\ flat' = flat \cup same
     /\ IF ~sampling.filter
        THEN Update(RowsOf(PromptsOf(drawn + 1)), num_prompt_in_batch)
        ELSE IF count < TrainBatchSize
        THEN KeepGenerating(all, count)
        ELSE Update(SubSeq(all, 1, TrainBatchSize * sampling.n), count)
     /\ UNCHANGED sampling

(* The data is at an end before the last step: "check if last step         *)
(* checkpint exists", under the number of the step after it.               *)
Exhausted ==
  /\ dapo = "running" /\ drawn = GenBatches
  /\ dapo' = "exhausted"
  /\ saved' = IF gen_step \in DOMAIN saved THEN saved ELSE WithCheckpoint(Len(trained))
  /\ UNCHANGED <<sampling, drawn, gen_step, rows, num_prompt_in_batch, num_gen_batches, flat,
                 trained>>

SamplingOver == dapo # "running"
SamplingSteps ==
  \/ \E same \in SUBSET PromptsOf(drawn + 1) : GenerateAndFilter(same)
  \/ Exhausted
SamplingNext == SamplingSteps \/ (SamplingOver /\ UNCHANGED samplingVars)
SamplingSpec == SamplingInit /\ [][SamplingNext]_samplingVars /\ WF_samplingVars(SamplingSteps)

-------------------------------------------------------------------------------
(* The count of prompts is that of the rows collected. *)
CountAgrees ==
  Len(rows) = num_prompt_in_batch * sampling.n

(* Whoever collected it, in however many generation batches, a training    *)
(* batch is made of as many prompts as asked for, each with all of its     *)
(* responses and none of them without a difference in reward, and no       *)
(* prompt goes into two steps.                                             *)
BatchOf(b) == {<<t[1], t[2]>> : t \in ToSet(b)}
PromptsAsked == IF sampling.filter THEN TrainBatchSize ELSE GenBatchSize
Informative(prompts) == sampling.filter /\ sampling.n > 1 => prompts \cap flat = {}
WholeGroups ==
  \A i \in DOMAIN trained :
    LET prompts == BatchOf(trained[i])
    IN /\ Cardinality(prompts) = PromptsAsked
       /\ ToSet(trained[i]) = {<<p[1], p[2], k>> : p \in prompts, k \in 1..sampling.n}
       /\ Informative(prompts)
       /\ \A j \in 1..i - 1 : BatchOf(trained[j]) \cap prompts = {}

(* fit gives up only after as many generation batches as it may try, all   *)
(* of them for one step and too few prompts in them.                       *)
RaisedTooFew ==
  dapo = "raised" =>
    /\ num_gen_batches = sampling.max_num_gen_batches
    /\ Cardinality((UNION {PromptsOf(g) : g \in drawn - num_gen_batches + 1..drawn}) \ flat)
         < TrainBatchSize

(* A checkpoint holds the updates its number says, but one: that of a run  *)
(* that has used up its data is numbered one step too far.                 *)
NumberedByUpdates ==
  \A s \in DOMAIN saved :
    saved[s] = IF dapo = "exhausted" /\ s = gen_step THEN s - 1 ELSE s
SamplingKept == CountAgrees /\ WholeGroups /\ RaisedTooFew /\ NumberedByUpdates

SamplingEnds == <>SamplingOver
===============================================================================
