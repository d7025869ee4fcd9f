------------------------------ MODULE HybridEngine ------------------------------
(***************************************************************************)
(* The hybrid engine: the workers of the colocated trainer hold the actor  *)
(* and a part of an inference engine on one device, and change between     *)
(* trainer_mode and rollout_mode for every generation.  A replica is the   *)
(* engine of several workers behind one server; the driver (fit) wakes all *)
(* replicas, has sequences generated, puts them to sleep, and computes.    *)
(*                                                                         *)
(* Weights are named by the number of updates they have been through, and  *)
(* states of the random generator by a stream and the draws from it.       *)
(***************************************************************************)
EXTENDS Integers, FiniteSets

CONSTANTS
  Engines,        (* settings: backend, lora, load_format, sleep_level,          *)
                  (* free_cache_engine, param_offload (and of the optimizer)     *)
  Replicas,       (* the workers of each replica                                 *)
  CriticWarmup,   (* the first step that updates the actor                       *)
  UpdateSteps, EngineCrashes    (* bounds of the model                           *)

(* LoRA needs an engine that loads the base model itself; Megatron workers *)
(* have no LoRA here.                                                      *)
ASSUME EngineAssumption ==
  /\ Engines \subseteq [backend : {"fsdp", "megatron"}, lora : BOOLEAN,
                        load_format : {"dummy", "safetensors"}, sleep_level : {1, 2},
                        free_cache_engine : BOOLEAN, param_offload : BOOLEAN]
  /\ \A c \in Engines : c.lora => c.backend = "fsdp" /\ c.load_format = "safetensors"
  /\ \A r, s \in Replicas : r # {} /\ (r = s \/ r \cap s = {})
  /\ {CriticWarmup, UpdateSteps, EngineCrashes} \subseteq Nat

GpuWorkers == UNION Replicas
Lost == -1          (* weights destroyed, or never loaded *)

VARIABLES
  engine,           (* the settings                                            *)
  driver,           (* what fit is doing                                       *)
  turn,             (* how far generate_sequences of the manager is            *)
  working,          (* whether the workers are in a call of the driver         *)
  step, version,    (* global_steps, and updates of the actor                  *)
  draws,            (* history: random draws of the training so far            *)
  served,           (* replicas that have generated in this call               *)
  cached,           (* replica -> the weights its prefix cache was made with   *)
  worker_at,        (* worker -> where it is between the two modes             *)
  gpu,              (* worker -> what it has on the device                     *)
  base_weights, lora_weights,   (* worker -> weights of its engine             *)
  base_sync_done,   (* worker -> BOOLEAN                                       *)
  rng, torch_random_states, gen_random_states,   (* of each worker             *)
  kept,             (* the checkpoint                                          *)
  crashed

weightVars == <<base_weights, lora_weights, base_sync_done>>
modeVars == <<worker_at, gpu, weightVars>>
rngVars == <<rng, torch_random_states, gen_random_states>>
callVars == <<turn, served, cached>>
driverVars == <<driver, working, step, version, draws>>
rareVars == <<engine, kept, crashed>>
hybridVars == <<rareVars, driverVars, callVars, modeVars, rngVars>>

All(x) == [w \in GpuWorkers |-> x]
Draw(state) == [state EXCEPT !.drawn = @ + 1]
Stream(name) == [stream |-> name, drawn |-> 0]
Resting(c) == IF c.param_offload THEN {} ELSE {"params", "optimizer"}

(* The workers and the driver once init_workers is through: the engine is  *)
(* up, and building it has seeded the generator of the device.  The        *)
(* manager begins by putting the replicas to sleep.                        *)
Launched(c) ==
  [driver |-> IF c.free_cache_engine THEN "sleep_first" ELSE "load",
   turn |-> IF c.free_cache_engine THEN "sleep" ELSE "wake",
   worker_at |-> All(IF c.free_cache_engine THEN "rollout" ELSE "trainer"),
   gpu |-> All({"weights", "kv_cache"} \cup Resting(c)),
   base_weights |-> All(IF c.load_format = "dummy" THEN Lost ELSE 0),
   base_sync_done |-> All(c.load_format # "dummy"),
   rng |-> All(Stream("engine")),
   torch_random_states |-> All(Stream("torch")),
   gen_random_states |-> All(Stream("gen_dp_rank"))]

Nowhere == [version |-> 0, draws |-> 0, step |-> 0, rng |-> <<>>]
HybridInit ==
  /\ engine \in Engines
  /\ LET l == Launched(engine)
     IN /\ driver = l.driver /\ turn = l.turn /\ worker_at = l.worker_at /\ gpu = l.gpu
        /\ base_weights = l.base_weights /\ base_sync_done = l.base_sync_done /\ rng = l.rng
        /\ torch_random_states = l.torch_random_states
        /\ gen_random_states = l.gen_random_states
  /\ working = FALSE /\ step = 0 /\ version = 0 /\ draws = 0
  /\ served = {} /\ cached = [r \in Replicas |-> {}] /\ lora_weights = All(Lost)
  /\ kept = Nowhere /\ crashed = 0

-------------------------------------------------------------------------------
(* generate_sequences of the manager: wake_up of all replicas, the         *)
(* requests, sleep of all replicas.  Validation calls it, too.             *)
GenerationCalls == {"validate_first", "generate", "generate_max", "validate"}
Everyone(place) == \A w \in GpuWorkers : worker_at[w] = place
SendTo(r, place) == [w \in GpuWorkers |-> IF w \in r THEN place ELSE worker_at[w]]

ServerWakeUp(r) ==
  /\ driver \in GenerationCalls /\ turn = "wake"
  /\ \A w \in r : worker_at[w] = "trainer"
  /\ worker_at' = SendTo(r, "load_params")
  /\ UNCHANGED <<rareVars, driverVars, callVars, gpu, weightVars, rngVars>>

(* rollout_mode of a worker, in four steps.  The parameters are brought to *)
(* the device to be collected;                                             *)
LoadParams(w) ==
  /\ worker_at[w] = "load_params"
  /\ gpu' = [gpu EXCEPT ![w] = @ \cup {"params"}]
  /\ worker_at' = [worker_at EXCEPT ![w] = "resume_weights"]
  /\ UNCHANGED <<rareVars, driverVars, callVars, weightVars, rngVars>>

(* FSDP sends them down again before the engine's weights come back;       *)
Offloaded(things) == things \ IF engine.param_offload THEN {"params", "optimizer"} ELSE {}
ResumeWeights(w) ==
  /\ worker_at[w] = "resume_weights"
  /\ LET left == IF engine.backend = "fsdp" THEN Offloaded(gpu[w]) ELSE gpu[w]
     IN gpu' = [gpu EXCEPT ![w] = left \cup {"weights"}]
  /\ worker_at' = [worker_at EXCEPT ![w] = "update_weights"]
  /\ UNCHANGED <<rareVars, driverVars, callVars, weightVars, rngVars>>

(* the shards of all workers are gathered and loaded: all parameters, or   *)
(* the adapter alone once the engine has the base weights, or both when    *)
(* sleeping destroys them;                                                 *)
(* Mutant: a base that was loaded once is not sent again. *)
BaseSentMutant(w) == ~engine.lora \/ ~base_sync_done[w]
BaseSent(w) == ~engine.lora \/ ~base_sync_done[w] \/ engine.sleep_level = 2
AdapterSent(w) == engine.lora /\ base_sync_done[w]
UpdateWeights(w) ==
  /\ worker_at[w] = "update_weights"
  /\ \A v \in GpuWorkers : worker_at[v] \notin {"trainer", "load_params"}
  /\ base_weights' = [base_weights EXCEPT
       ![w] = IF ~BaseSent(w) THEN @ ELSE IF engine.lora THEN 0 ELSE version]
  /\ lora_weights' = [lora_weights EXCEPT ![w] = IF AdapterSent(w) THEN version ELSE @]
  /\ gpu' = [gpu EXCEPT ![w] = Offloaded(@)]
  /\ worker_at' = [worker_at EXCEPT ![w] = "resume_kv_cache"]
  /\ UNCHANGED <<rareVars, driverVars, callVars, base_sync_done, rngVars>>

(* and the cache is allocated and the random states are exchanged.         *)
ResumeKvCache(w) ==
  /\ worker_at[w] = "resume_kv_cache"
  /\ gpu' = [gpu EXCEPT ![w] = @ \cup {"kv_cache"}]
  /\ base_sync_done' = [base_sync_done EXCEPT ![w] = TRUE]
  /\ torch_random_states' = [torch_random_states EXCEPT ![w] = rng[w]]
  /\ rng' = [rng EXCEPT ![w] = gen_random_states[w]]
  /\ worker_at' = [worker_at EXCEPT ![w] = "rollout"]
  /\ UNCHANGED <<rareVars, driverVars, callVars, base_weights, lora_weights, gen_random_states>>

SendRequests ==
  /\ driver \in GenerationCalls /\ turn = "wake" /\ Everyone("rollout")
  /\ turn' = "generate"
  /\ UNCHANGED <<rareVars, driverVars, served, cached, modeVars, rngVars>>

(* The weights a replica generates with, and its prefix cache is made with. *)
EngineWeights(r) == {<<base_weights[w], lora_weights[w]>> : w \in r}
GenerateOn(r) ==
  /\ turn = "generate" /\ r \notin served
  /\ served' = served \cup {r}
  /\ cached' = [cached EXCEPT ![r] = @ \cup EngineWeights(r)]
  /\ rng' = [w \in GpuWorkers |-> IF w \in r THEN Draw(rng[w]) ELSE rng[w]]
  /\ UNCHANGED <<rareVars, driverVars, turn, modeVars, torch_random_states, gen_random_states>>

Concat ==
  /\ turn = "generate" /\ served # {}
  /\ turn' = "sleep" /\ served' = {}
  /\ UNCHANGED <<rareVars, driverVars, cached, modeVars, rngVars>>

(* sleep of a replica drops its prefix cache, whether or not its workers   *)
(* free theirs,                                                            *)
ServerSleep(r) ==
  /\ turn = "sleep" /\ \A w \in r : worker_at[w] = "rollout"
  /\ cached' = [cached EXCEPT ![r] = {}]
  /\ worker_at' = SendTo(r, "release")
  /\ UNCHANGED <<rareVars, driverVars, turn, served, gpu, weightVars, rngVars>>

(* and trainer_mode of each: sleep level 2 discards the weights, level 1   *)
(* keeps them on the host.                                                 *)
Release(w) ==
  /\ worker_at[w] = "release"
  /\ LET gone == engine.free_cache_engine /\ engine.sleep_level = 2
     IN /\ base_weights' = [base_weights EXCEPT ![w] = IF gone THEN Lost ELSE @]
        /\ lora_weights' = [lora_weights EXCEPT ![w] = IF gone THEN Lost ELSE @]
  /\ gpu' = [gpu EXCEPT ![w] =
       @ \ IF engine.free_cache_engine THEN {"weights", "kv_cache"} ELSE {}]
  /\ gen_random_states' = [gen_random_states EXCEPT ![w] = rng[w]]
  /\ rng' = [rng EXCEPT ![w] = torch_random_states[w]]
  /\ worker_at' = [worker_at EXCEPT ![w] = "trainer"]
  /\ UNCHANGED <<rareVars, driverVars, callVars, base_sync_done, torch_random_states>>

(* What fit does after a call: REMAX generates once more, for the baseline; *)
(* validation is not due after every step, nor before the first.            *)
AfterCall ==
  CASE driver = "sleep_first" -> {"load"}
    [] driver = "validate_first" -> {"next"}
    [] driver = "generate" -> {"generate_max", "log_prob"}
    [] driver = "generate_max" -> {"log_prob"}
    [] driver = "validate" -> {"save", "next"}
CallDone ==
  /\ turn = "sleep" /\ Everyone("trainer")
  /\ turn' = "wake" /\ driver' \in AfterCall
  /\ UNCHANGED <<rareVars, working, step, version, draws, served, cached, modeVars, rngVars>>

-------------------------------------------------------------------------------
(* Calls of the driver to the workers in trainer mode, all of which bring  *)
(* up the parameters, and update_actor the optimizer.                      *)
Needed == CASE driver = "update" -> {"params", "optimizer"} [] OTHER -> {"params"}
Begin ==
  /\ driver \in {"load", "log_prob", "update", "save"} /\ ~working
  /\ driver = "load" => kept # Nowhere
  /\ driver = "update" => CriticWarmup <= step
  /\ working' = TRUE
  /\ gpu' = [w \in GpuWorkers |-> gpu[w] \cup Needed]
  /\ UNCHANGED <<rareVars, driver, step, version, draws, callVars, worker_at, weightVars, rngVars>>
Finish(next) ==
  /\ working /\ working' = FALSE /\ driver' \in next
  /\ gpu' = [w \in GpuWorkers |-> Offloaded(gpu[w])]
  /\ UNCHANGED <<engine, crashed, callVars, worker_at, weightVars,
                 torch_random_states, gen_random_states>>

(* _load_checkpoint: the actor, the random state and the step; training    *)
(* begins or continues without it when there is none.                      *)
LoadCheckpoint ==
  /\ driver = "load"
  /\ Finish({"validate_first", "next"})
  /\ version' = kept.version /\ draws' = kept.draws /\ step' = kept.step /\ rng' = kept.rng
  /\ UNCHANGED kept
NothingToLoad ==
  /\ driver = "load" /\ kept = Nowhere /\ driver' \in {"validate_first", "next"}
  /\ UNCHANGED <<rareVars, working, step, version, draws, callVars, modeVars, rngVars>>
ComputeLogProb ==
  /\ driver = "log_prob" /\ Finish({"update"})
  /\ UNCHANGED <<kept, step, version, draws, rng>>

(* update_actor, which draws (dropout); a step of the critic's warm-up     *)
(* leaves it out.                                                          *)
UpdateActor ==
  /\ driver = "update" /\ Finish({"validate", "save", "next"})
  /\ version' = version + 1 /\ draws' = draws + 1
  /\ rng' = [w \in GpuWorkers |-> Draw(rng[w])]
  /\ UNCHANGED <<kept, step>>
CriticOnly ==
  /\ driver = "update" /\ step < CriticWarmup /\ driver' \in {"validate", "save", "next"}
  /\ UNCHANGED <<rareVars, working, step, version, draws, callVars, modeVars, rngVars>>
SaveCheckpoint ==
  /\ driver = "save" /\ Finish({"next"})
  /\ kept' = [version |-> version, draws |-> draws, step |-> step, rng |-> rng]
  /\ UNCHANGED <<step, version, draws, rng>>

(* The next step, or the end, which a run resumed at its last step reaches *)
(* at once: its dataloader is through.                                     *)
NextStep ==
  /\ driver = "next"
  /\ IF step < UpdateSteps
     THEN driver' = "generate" /\ step' = step + 1
     ELSE driver' = "ended" /\ UNCHANGED step
  /\ UNCHANGED <<rareVars, working, version, draws, callVars, modeVars, rngVars>>

(* All processes are lost and launched again; the checkpoint stays.        *)
EngineCrash ==
  /\ crashed < EngineCrashes /\ driver # "ended"
  /\ crashed' = crashed + 1
  /\ LET l == Launched(engine)
     IN /\ driver' = l.driver /\ turn' = l.turn /\ worker_at' = l.worker_at /\ gpu' = l.gpu
        /\ base_weights' = l.base_weights /\ base_sync_done' = l.base_sync_done /\ rng' = l.rng
        /\ torch_random_states' = l.torch_random_states
        /\ gen_random_states' = l.gen_random_states
  /\ working' = FALSE /\ step' = 0 /\ version' = 0 /\ draws' = 0
  /\ served' = {} /\ cached' = [r \in Replicas |-> {}] /\ lora_weights' = All(Lost)
  /\ UNCHANGED <<engine, kept>>

HybridSteps ==
  \/ \E r \in Replicas : ServerWakeUp(r) \/ GenerateOn(r) \/ ServerSleep(r)
  \/ \E w \in GpuWorkers : LoadParams(w) \/ ResumeWeights(w) \/ UpdateWeights(w)
                           \/ ResumeKvCache(w) \/ Release(w)
  \/ SendRequests \/ Concat \/ CallDone
  \/ Begin \/ LoadCheckpoint \/ NothingToLoad \/ ComputeLogProb \/ UpdateActor \/ CriticOnly
  \/ SaveCheckpoint \/ NextStep
HybridNext == HybridSteps \/ EngineCrash \/ (driver = "ended" /\ UNCHANGED hybridVars)

(* Workers, servers and driver go on, and collectives get through.         *)
HybridSpec == HybridInit /\ [][HybridNext]_hybridVars /\ WF_hybridVars(HybridSteps)

-------------------------------------------------------------------------------
(* Whatever replica generates does so with the actor's weights as they are *)
(* now, on all its workers: no base destroyed by sleep, no adapter of an   *)
(* earlier update.                                                         *)
EngineCurrent ==
  turn = "generate" => \A r \in Replicas :
    EngineWeights(r) = {IF engine.lora THEN <<0, version>> ELSE <<version, Lost>>}

(* No prefix is reused that was computed with other weights.               *)
CacheCurrent ==
  turn = "generate" => \A r \in Replicas : cached[r] \subseteq EngineWeights(r)

(* With both kinds of offloading the device never has to hold the trained  *)
(* parameters beside the cache of the engine, nor the optimizer beside any *)
(* of the engine.                                                          *)
MemoryShared ==
  engine.param_offload /\ engine.free_cache_engine => \A w \in GpuWorkers :
    /\ ~({"params", "kv_cache"} \subseteq gpu[w])
    /\ "optimizer" \in gpu[w] => gpu[w] \cap {"weights", "kv_cache"} = {}

(* Training and generation draw from two streams: in trainer mode a worker *)
(* is as far in the stream of training as training has drawn, also after a *)
(* restart; the workers of a replica generate from equal states.           *)
TrainStream == IF engine.free_cache_engine THEN "torch" ELSE "engine"
StreamsApart ==
  /\ \A w \in GpuWorkers :
       IF worker_at[w] \in {"rollout", "release"}
       THEN rng[w].stream # TrainStream
       ELSE rng[w] = [stream |-> TrainStream, drawn |-> draws]
  /\ turn = "generate" => \A r \in Replicas : \A v, w \in r : rng[v] = rng[w]

(* The change of modes keeps the engine and the actor together.            *)
HybridKept == EngineCurrent /\ CacheCurrent /\ MemoryShared /\ StreamsApart

(* No worker waits for another in a collective for ever: training ends,    *)
(* through the restarts.                                                   *)
HybridEnds == <>(driver = "ended")
===============================================================================
