------------------------------ MODULE MC_Training ------------------------------
EXTENDS PpoBatch, OpdAlign, OpdLoss, OpdControllers, OneStepOff, DynamicSampling,
        HybridEngine

(* Parts of training that share no state in the models, explored one at a  *)
(* time in one run: the one chosen at the start goes through its states,   *)
(* the others stay.  Four are parts of a step, three are loops of steps.   *)
VARIABLE part

Cf(o, b, a) == [overlapped |-> o, balance_batch |-> b, launch_async |-> a]
Cs == {Cf(o, b, a) : o, b, a \in BOOLEAN} \ {Cf(TRUE, TRUE, TRUE), Cf(FALSE, FALSE, FALSE)}
Ls == {<<0, 1>>, <<0, 0>>, <<0, 0, 1, 1>>}
SomeLengths == {<<4, 3, 2, 1, 1, 2, 3, 4>>, <<3, 1, 4, 1, 2, 4, 3, 2>>, <<1, 1, 1, 1, 1, 1, 1, 1>>}
               \cup {s \in [1..8 -> {1, 4}] : s[1] = 4 /\ s[8] = 1}

ByteStrings ==
  UNION {[1..n -> {"a", "h", "l"}] : n \in 0..3}
  \cup {<<"a", "h", "l", "a">>, <<"h", "l", "h", "l">>, <<"h", "h", "l", "a">>,
        <<"l", "h", "l", "a">>, <<"a", "a", "a", "a">>}

T(share, chunk, p, mask) == [teacher |-> share, chunk |-> chunk, student |-> <<p, 1>>, mask |-> mask]
Sequences2 == UNION {{
  <<T(<<-1, 1>>, 0, p[1], TRUE), T(<<-1, 1>>, 0, p[2], TRUE)>>,
  <<T(<<-3, 2>>, 0, p[1], TRUE), T(<<-3, 2>>, 0, p[2], TRUE), T(<<-2, 1>>, 1, -1, TRUE)>>,
  <<T(<<-2, 1>>, 0, p[1], TRUE), T(<<-4, 1>>, 1, p[2], TRUE)>>,
  <<T(<<-1, 1>>, 0, p[1], TRUE), T(Inf, -1, p[2], TRUE)>>,
  <<T(<<-2, 1>>, 0, p[1], TRUE), T(<<0, 1>>, -1, p[2], TRUE)>>,
  <<T(<<0, 1>>, 0, p[1], TRUE), T(<<-1, 1>>, 0, p[2], FALSE)>>} : p \in {<<-1, -3>>, <<0, 0>>, <<-4, 0>>}}
ModeParams ==
  {<<"raw", One>>, <<"perm", One>>, <<"group_const", One>>, <<"sign", One>>, <<"power", 2>>,
   <<"dctv", <<1, 2>>>>, <<"sign_mass_raw_alloc", One>>, <<"alloc_power", 2>>, <<"alloc_power", 0>>,
   <<"strength_interp", <<1, 2>>>>, <<"strength_interp", <<-3, 1>>>>, <<"strength_interp", <<3, 1>>>>}
Losses4 ==
  {[rule |-> r, mode |-> m[1], param |-> m[2], limit |-> Inf] :
     r \in {"semantic", "uniform"}, m \in ModeParams}
  \cup {[rule |-> "semantic", mode |-> "raw", param |-> One, limit |-> One]}

Found(a, b, c, d) == (1 :> [sum |-> a, count |-> b]) @@ (2 :> [sum |-> c, count |-> d])
Found2 == {Found(4, 2, 0, 0), Found(1, 2, 3, 1), Found(0, 0, 0, 0), Found(1, 5, 1, 3)}
Rates == <<100, 60>>

Filter(on, most, n, steps, freq) ==
  [filter |-> on, max_num_gen_batches |-> most, n |-> n, total_steps |-> steps, save_freq |-> freq]
Samplings4 == {Filter(TRUE, 0, 2, 5, 2), Filter(TRUE, 2, 2, 2, 1), Filter(TRUE, 3, 1, 3, 0),
               Filter(FALSE, 0, 2, 5, 2)}

Eg(backend, lora, format, level, free, offload) ==
  [backend |-> backend, lora |-> lora, load_format |-> format, sleep_level |-> level,
   free_cache_engine |-> free, param_offload |-> offload]
Engines5 ==
  {Eg("fsdp", FALSE, "dummy", 2, TRUE, TRUE), Eg("fsdp", TRUE, "safetensors", 2, TRUE, TRUE),
   Eg("fsdp", TRUE, "safetensors", 1, TRUE, FALSE), Eg("fsdp", FALSE, "dummy", 2, FALSE, FALSE),
   Eg("megatron", FALSE, "dummy", 2, TRUE, TRUE)}
TwoReplicas == {{1, 2}, {3}}

stepVars == <<batchVars, alignVars, lossVars, ctlVars>>
loopVars == <<overlapVars, samplingVars, hybridVars>>
vars == <<part, stepVars, loopVars>>

BatchAway ==
  /\ config = CHOOSE c \in Configs : TRUE
  /\ layout = <<0>> /\ dynamic = FALSE /\ length = <<>> /\ phase = "gen"
  /\ batch = [uid |-> <<>>, response |-> <<>>, score |-> <<>>, logp |-> <<>>, advantage |-> <<>>]
  /\ future_reward = <<>> /\ rank = <<Idle>> /\ epoch = 1 /\ mini = 1
  /\ weight = [x \in AllResponses |-> 0]
AlignAway ==
  /\ student = <<>> /\ teacher = <<>> /\ n_full = 0 /\ n_special = 0
  /\ s_ptr = 1 /\ t_ptr = 1 /\ s_end = 1 /\ t_end = 1 /\ chunk_count = 0
  /\ aligned = <<>> /\ chunk_ids = <<>> /\ teacher_truncated = FALSE /\ row = <<>> /\ at = "filled"
LossAway ==
  /\ tokens = <<>> /\ has_ids = TRUE /\ setting = CHOOSE s \in LossSettings : TRUE
  /\ stage = "credit" /\ target = <<>> /\ delta = <<>> /\ advantage = <<>>
CtlAway == CtlInit /\ mode = "lr"

OverlapAway == OverlapInit /\ total_training_steps = CHOOSE n \in TotalTrainingSteps : TRUE
SamplingAway == SamplingInit /\ sampling = CHOOSE s \in Samplings : TRUE
HybridAway == HybridInit /\ engine = CHOOSE c \in Engines : TRUE
LoopsAway == OverlapAway /\ SamplingAway /\ HybridAway
StepAway == BatchAway /\ AlignAway /\ LossAway /\ CtlAway

Init ==
  \/ part = "batch" /\ BatchInit /\ AlignAway /\ LossAway /\ CtlAway /\ LoopsAway
  \/ part = "align" /\ BatchAway /\ AlignInit /\ LossAway /\ CtlAway /\ LoopsAway
  \/ part = "loss" /\ BatchAway /\ AlignAway /\ LossInit /\ CtlAway /\ LoopsAway
  \/ part = "control" /\ BatchAway /\ AlignAway /\ LossAway /\ CtlInit /\ LoopsAway
  \/ part = "overlap" /\ StepAway /\ OverlapInit /\ SamplingAway /\ HybridAway
  \/ part = "sampling" /\ StepAway /\ OverlapAway /\ SamplingInit /\ HybridAway
  \/ part = "hybrid" /\ StepAway /\ OverlapAway /\ SamplingAway /\ HybridInit
Next ==
  \/ part = "batch" /\ BatchNext /\ UNCHANGED <<part, alignVars, lossVars, ctlVars, loopVars>>
  \/ part = "align" /\ AlignNext /\ UNCHANGED <<part, batchVars, lossVars, ctlVars, loopVars>>
  \/ part = "loss" /\ LossNext /\ UNCHANGED <<part, batchVars, alignVars, ctlVars, loopVars>>
  \/ part = "control" /\ CtlNext /\ UNCHANGED <<part, batchVars, alignVars, lossVars, loopVars>>
  \/ part = "overlap" /\ OverlapNext /\ UNCHANGED <<part, stepVars, samplingVars, hybridVars>>
  \/ part = "sampling" /\ SamplingNext /\ UNCHANGED <<part, stepVars, overlapVars, hybridVars>>
  \/ part = "hybrid" /\ HybridNext /\ UNCHANGED <<part, stepVars, overlapVars, samplingVars>>
Spec ==
  /\ Init /\ [][Next]_vars
  /\ WF_alignVars(part = "align" /\ AlignSteps)
  /\ WF_overlapVars(part = "overlap" /\ OverlapSteps)
  /\ WF_samplingVars(part = "sampling" /\ SamplingSteps)
  /\ WF_hybridVars(part = "hybrid" /\ HybridSteps)

(* What is begun comes to its end: the alignment of a response, overlapped *)
(* training through its restarts, the collection of batches, and training  *)
(* on the hybrid engine.                                                   *)
EveryPartEnds ==
  /\ AlignEnds
  /\ part = "overlap" => OverlapEnds
  /\ part = "sampling" => SamplingEnds
  /\ part = "hybrid" => HybridEnds
===============================================================================
