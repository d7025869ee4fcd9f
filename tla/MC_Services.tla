------------------------------ MODULE MC_Services ------------------------------
EXTENDS Checkpoint, RewardLimiter, AgentLoop, MQClients

(* Four services that share no state, explored one at a time in one run:   *)
(* the one chosen at the start goes through its states, the others stay.   *)
VARIABLE service

J(t, m, k, c) == [trainer |-> t, manager |-> m, keep |-> k, critic |-> c]
Jobs == {J("ppo", "fsdp", 2, TRUE), J("ppo", "fsdp", 1, FALSE), J("fully_async", "fsdp", 0, FALSE),
         J("sft", "fsdp", 1, FALSE), J("sft", "fsdp", 2, FALSE),
         J("ppo", "megatron", 0, TRUE), J("ppo", "async", 0, FALSE)}

L(r, c) == [rate |-> r, cost |-> c]
Settings == {[rpm |-> L(1, 1), tpm |-> L(1, 3)], [rpm |-> L(1, 2), tpm |-> L(2, 1)],
             [tpm |-> L(3, 2)], [l \in {} |-> L(1, 1)]}

LoopResponses == [k \in LoopKinds |-> IF k = "single_turn" THEN 2 ELSE 1]

ownVars == <<ckptVars, limVars, agentVars>>
allVars == <<service, ownVars, vars>>
AllInit ==
  /\ service \in {"checkpoint", "limiter", "loop", "queue"}
  /\ CkptInit /\ (service # "checkpoint" => job = CHOOSE j \in CkptJobs : TRUE)
  /\ LimInit /\ (service # "limiter" => ~asynchronous /\ setting = CHOOSE s \in RateLimits : TRUE)
  /\ AgentInit /\ (service # "loop" => kind = CHOOSE k \in LoopKinds : TRUE)
  /\ Init
AllNext ==
  \/ service = "checkpoint" /\ CkptNext /\ UNCHANGED <<service, limVars, agentVars, vars>>
  \/ service = "limiter" /\ LimNext /\ UNCHANGED <<service, ckptVars, agentVars, vars>>
  \/ service = "loop" /\ AgentNext /\ UNCHANGED <<service, ckptVars, limVars, vars>>
  \/ service = "queue" /\ Next /\ UNCHANGED <<service, ownVars>>

AllSpec ==
  /\ AllInit /\ [][AllNext]_allVars
  /\ WF_ckptVars(service = "checkpoint" /\ CkptProgress)
  /\ WF_limVars(service = "limiter" /\ LoopRuns)
  /\ WF_agentVars(service = "loop" /\ (Submit \/ Start \/ WorkerReturns))
  /\ WF_agentVars(service = "loop" /\ CancelAgentLoops)
  /\ WF_agentVars(service = "loop" /\ CancelServer)
  /\ WF_agentVars(service = "loop" /\ (Transfer \/ ResumeAgentLoops \/ ResumeServer \/ Resumed))
  /\ \A t \in 1..MostResponses : WF_agentVars(service = "loop" /\ t \in Trajectories /\ Run(t))
  /\ \A c \in Consumers : WF_vars(service = "queue" /\ Resume(c))

(* Each service comes to its end: training under crashes, the requests of  *)
(* a batch whose calls may hang, a pause and the sample it cuts.           *)
EveryServiceEnds ==
  /\ service = "checkpoint" => CkptEnds
  /\ service = "limiter" => AllScored
  /\ PauseEnds /\ (service = "loop" => SampleDone)
===============================================================================
