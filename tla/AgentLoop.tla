------------------------------- MODULE AgentLoop -------------------------------
(***************************************************************************)
(* One sample of the fully asynchronous rollouter under partial rollout:   *)
(* an agent loop worker runs an agent loop for each of its trajectories,   *)
(* the loops call an inference server, and a parameter synchronisation     *)
(* cuts them, replaces the weights and has them go on                      *)
(* (recipe/fully_async_policy/agent_loop/, vllm_rollout/).                 *)
(*                                                                         *)
(*   "single_turn"   PartialSingleTurnAgentLoop: one generation;           *)
(*   "tool"          AsyncPartialToolAgentLoop: generation and tool calls  *)
(*                   alternate;                                            *)
(*   "interaction"   the same with an interaction that answers as a user.  *)
(*                                                                         *)
(* The cut reaches the loops two ways that nothing orders: cancel() of the *)
(* server, which ends its generations early, and the cancellation event of *)
(* the worker, looked at between two states of the loop.  Tokens are "open" *)
(* and "close" of a tool call, "text", and "observation" for what tools or *)
(* users say.                                                              *)
(***************************************************************************)
EXTENDS Integers, Sequences, FiniteSets

CONSTANTS
  LoopKinds,          (* the agent loops considered                            *)
  Responses,          (* the n responses of a sample, for each of them         *)
  ResponseLength,
  Room,               (* max_model_len less the length of the prompt           *)
  MaxAssistantTurns, MaxUserTurns,   (* 0: no limit                            *)
  MaxParallelCalls,
  Observation,        (* lengths of what tools and users say                   *)
  MaxCuts             (* bound of the model on parameter synchronisations      *)

(* An interaction appends its answer unchecked; were there no room for it  *)
(* and a token more the engine would refuse the next request.              *)
ASSUME AgentLoopAssumption ==
  /\ LoopKinds \subseteq {"single_turn", "tool", "interaction"}
  /\ Responses \in [LoopKinds -> Nat \ {0}]
  /\ {ResponseLength, Room, MaxParallelCalls} \subseteq Nat \ {0}
  /\ Observation \subseteq Nat \ {0}
  /\ \A n \in Observation : Room >= ResponseLength + n
  /\ {MaxAssistantTurns, MaxUserTurns, MaxCuts} \subseteq Nat

VARIABLES
  kind,
  phase,        (* of the rollouter: running, cancelling, transfer, resuming   *)
  version,      (* of the weights                                              *)
  event,        (* cancellation_event of the worker is set                     *)
  paused,       (* of the server                                               *)
  sample,       (* queued (pending or cut), submitted, running, done           *)
  stamp,        (* param_version the sample was submitted with                 *)
  task,         (* where the coroutine of each trajectory stands               *)
  agent,        (* agent_data and agent_state                                  *)
  request,      (* of the server: the output so far, finished, cancelled       *)
  output,       (* what the loop of each trajectory returned last              *)
  said,         (* history: every token appended or served, with its version   *)
  executed,     (* history: calls of tools per trajectory                      *)
  posted        (* history: runs of _agent_loop_postprocess                    *)

agentVars == <<kind, phase, version, event, paused, sample, stamp, task, agent, request,
               output, said, executed, posted>>

Trajectories == 1..Responses[kind]
Fresh == [state |-> "pending", response |-> <<>>, mask |-> <<>>, logprobs |-> <<>>,
          response_ids |-> <<>>, assistant_turns |-> 0, user_turns |-> 0, start |-> 0]
NoRequest == [tokens |-> <<>>, finished |-> FALSE, cancelled |-> FALSE]
NoAnswer == [is_cancel |-> FALSE]
Prefix(s, n) == IF Len(s) <= n THEN s ELSE SubSeq(s, 1, n)
Repeat(x, n) == [k \in 1..n |-> x]

AgentInit ==
  /\ kind \in LoopKinds
  /\ phase = "running" /\ version = 0
  /\ event = FALSE /\ paused = FALSE
  /\ sample = "queued" /\ stamp = 0
  /\ task = [t \in Trajectories |-> "none"]
  /\ agent = [t \in Trajectories |-> Fresh]
  /\ request = [t \in Trajectories |-> NoRequest]
  /\ output = [t \in Trajectories |-> NoAnswer]
  /\ said = [t \in Trajectories |-> <<>>]
  /\ executed = [t \in Trajectories |-> 0]
  /\ posted = [t \in Trajectories |-> 0]

-------------------------------------------------------------------------------
(* The rollouter and the worker. *)
loopVars == <<task, agent, request, output, said, executed, posted>>

(* _process_single_sample_streaming. *)
Submit ==
  /\ phase = "running" /\ sample = "queued"
  /\ sample' = "submitted" /\ stamp' = version
  /\ UNCHANGED <<kind, phase, version, event, paused, loopVars>>

(* generate_sequences_no_post: a completed trajectory is returned as it    *)
(* is, one that was cut goes on from the state saved in its output.        *)
Completed(t) == output[t] # NoAnswer /\ ~output[t].is_cancel
Start ==
  /\ sample = "submitted"
  /\ sample' = "running"
  /\ task' = [t \in Trajectories |->
               IF Completed(t) THEN "returned"
               ELSE IF kind = "single_turn" THEN "calling" ELSE "top"]
  /\ agent' = [t \in Trajectories |->
                IF output[t] = NoAnswer THEN [Fresh EXCEPT !.start = stamp] ELSE agent[t]]
  /\ UNCHANGED <<kind, phase, version, event, paused, stamp, request, output, said, executed,
                 posted>>

(* The gather is over; a sample with any cut trajectory is queued again.   *)
IsCut(t) == output[t].is_cancel
WorkerReturns ==
  /\ sample = "running" /\ \A t \in Trajectories : task[t] = "returned"
  /\ sample' = IF \E t \in Trajectories : IsCut(t) THEN "queued" ELSE "done"
  /\ UNCHANGED <<kind, phase, version, event, paused, stamp, loopVars>>

Pause ==
  /\ phase = "running" /\ version < MaxCuts
  /\ phase' = "cancelling"
  /\ UNCHANGED <<kind, version, event, paused, sample, stamp, loopVars>>

CancelAgentLoops ==
  /\ phase = "cancelling" /\ ~event
  /\ event' = TRUE
  /\ UNCHANGED <<kind, phase, version, paused, sample, stamp, loopVars>>

CancelServer ==
  /\ phase = "cancelling" /\ ~paused
  /\ paused' = TRUE
  /\ request' = [t \in Trajectories |->
                  IF task[t] = "serving" THEN [request[t] EXCEPT !.cancelled = TRUE]
                  ELSE request[t]]
  /\ UNCHANGED <<kind, phase, version, event, sample, stamp, task, agent, output, said,
                 executed, posted>>

(* pause() waits for the tasks; then the weights are replaced.             *)
Transfer ==
  /\ phase = "cancelling" /\ event /\ paused
  /\ sample \in {"queued", "done"}
  /\ phase' = "resuming" /\ version' = version + 1
  /\ UNCHANGED <<kind, event, paused, sample, stamp, loopVars>>

ResumeAgentLoops ==
  /\ phase = "resuming" /\ event
  /\ event' = FALSE
  /\ UNCHANGED <<kind, phase, version, paused, sample, stamp, loopVars>>
ResumeServer ==
  /\ phase = "resuming" /\ paused
  /\ paused' = FALSE
  /\ UNCHANGED <<kind, phase, version, event, sample, stamp, loopVars>>
Resumed ==
  /\ phase = "resuming" /\ ~event /\ ~paused
  /\ phase' = "running"
  /\ UNCHANGED <<kind, version, event, paused, sample, stamp, loopVars>>

-------------------------------------------------------------------------------
(* The server. *)
AgentAdmit(t) ==
  /\ task[t] = "calling" /\ ~paused
  /\ task' = [task EXCEPT ![t] = "serving"]
  /\ request' = [request EXCEPT ![t] = NoRequest]
  /\ UNCHANGED <<kind, phase, version, event, paused, sample, stamp, agent, output, said,
                 executed, posted>>

(* The engine makes a token; generation ends by itself or for lack of room.*)
(* An "open" with no "close" after it is the only malformed call.          *)
NextTokens(t) ==
  IF kind = "single_turn" THEN {"text"}
  ELSE IF said[t] # <<>> /\ said[t][Len(said[t])].token = "open" THEN {"close"}
  ELSE {"text", "open"}
Emit(t) ==
  /\ task[t] = "serving" /\ ~request[t].finished
  /\ \E tok \in NextTokens(t), ends \in BOOLEAN :
       LET tokens == Append(request[t].tokens, tok)
       IN /\ Len(agent[t].response) + Len(tokens) = Room => ends
          /\ request' = [request EXCEPT ![t].tokens = tokens, ![t].finished = ends]
          /\ said' = [said EXCEPT ![t] = Append(@, [token |-> tok, version |-> version])]
  /\ UNCHANGED <<kind, phase, version, event, paused, sample, stamp, task, agent, output,
                 executed, posted>>

(* What generate_for_partial returns: the tokens, and whether it was cut.  *)
(* A paused server cuts at once, with no token.                            *)
Refuses(t) == task[t] = "calling" /\ paused
Answers(t) == task[t] = "serving" /\ (request[t].finished \/ request[t].cancelled)
Tokens(t) == IF Refuses(t) THEN <<>> ELSE request[t].tokens
IsCancel(t) == Refuses(t) \/ ~request[t].finished

-------------------------------------------------------------------------------
(* The tool agent loop. *)
loopOnly == <<kind, phase, version, event, paused, sample, stamp>>

(* The calls in what a generation returned last.                           *)
ToolCalls(tokens) ==
  Cardinality({k \in 2..Len(tokens) : tokens[k - 1] = "open" /\ tokens[k] = "close"})

Extend(a, tokens) ==
  [a EXCEPT !.response_ids = tokens,
            !.response = @ \o tokens,
            !.mask = @ \o Repeat(1, Len(tokens)),
            !.logprobs = @ \o tokens]
(* What tools and users say has no log-probabilities; the zeros are added  *)
(* only to a list that is not empty.                                       *)
ExtendByObservation(a, n) ==
  [a EXCEPT !.response = @ \o Repeat("observation", n),
            !.mask = @ \o Repeat(0, n),
            !.logprobs = IF @ = <<>> THEN @ ELSE @ \o Repeat("zero", n),
            !.user_turns = @ + 1]

LengthReached(a) == Len(a.mask) >= ResponseLength
TurnsReached(a) ==
  \/ MaxAssistantTurns > 0 /\ a.assistant_turns >= MaxAssistantTurns
  \/ MaxUserTurns > 0 /\ a.user_turns >= MaxUserTurns
NextState(a) ==
  IF LengthReached(a) \/ TurnsReached(a) THEN "terminated"
  ELSE IF ToolCalls(a.response_ids) > 0 THEN "processing_tools"
  ELSE IF kind = "interaction" THEN "interacting" ELSE "terminated"

(* _handle_generating_state_partial. *)
(* Mutant: the fragment before a cut is dropped. *)
AfterCutDropped(a, tokens) == [a EXCEPT !.state = "generating"]
AfterCut(a, tokens) ==
  LET b == Extend(a, tokens)
  IN IF LengthReached(b)
     THEN [b EXCEPT !.state = "terminated", !.assistant_turns = @ + 1]
     ELSE [b EXCEPT !.state = "generating"]
AfterGeneration(a, tokens) ==
  LET b == [Extend(a, tokens) EXCEPT !.assistant_turns = @ + 1]
  IN [b EXCEPT !.state = NextState(b)]

Generated(t) ==
  /\ kind # "single_turn"
  /\ Refuses(t) \/ Answers(t)
  /\ agent' = [agent EXCEPT ![t] = IF IsCancel(t) THEN AfterCut(@, Tokens(t))
                                   ELSE AfterGeneration(@, Tokens(t))]
  /\ task' = [task EXCEPT ![t] = "top"]
  /\ request' = [request EXCEPT ![t] = NoRequest]
  /\ UNCHANGED <<loopOnly, output, said, executed, posted>>

(* A response of the tools that does not fit ends the trajectory and is    *)
(* left out.                                                               *)
Fits(a, n) == Len(a.mask) + n < ResponseLength
AfterTools(a, n) ==
  IF Fits(a, n) THEN [ExtendByObservation(a, n) EXCEPT !.state = "generating"]
  ELSE [a EXCEPT !.state = "terminated"]
Told(t, n) == said[t] \o Repeat([token |-> "observation", version |-> version], n)

(* Tools are run to their end, cut or not. *)
ToolsReturn(t) ==
  /\ task[t] = "tools"
  /\ LET calls == ToolCalls(agent[t].response_ids)
     IN executed' = [executed EXCEPT
                       ![t] = @ + IF calls < MaxParallelCalls THEN calls ELSE MaxParallelCalls]
  /\ \E n \in Observation :
       /\ agent' = [agent EXCEPT ![t] = AfterTools(@, n)]
       /\ said' = [said EXCEPT ![t] = IF Fits(agent[t], n) THEN Told(t, n) ELSE @]
  /\ task' = [task EXCEPT ![t] = "top"]
  /\ UNCHANGED <<loopOnly, request, output, posted>>

UserAnswers(t) ==
  /\ task[t] = "interaction"
  /\ \E n \in Observation, next \in {"terminated", "generating"} :
       /\ agent' = [agent EXCEPT ![t] = [ExtendByObservation(@, n) EXCEPT !.state = next]]
       /\ said' = [said EXCEPT ![t] = Told(t, n)]
  /\ task' = [task EXCEPT ![t] = "top"]
  /\ UNCHANGED <<loopOnly, request, output, executed, posted>>

(* The top of _run_state_machine: the next state, unless cancelled.        *)
Pending(t) ==
  /\ task[t] = "top" /\ ~event /\ agent[t].state = "pending"
  /\ agent' = [agent EXCEPT ![t].state = "generating"]
  /\ UNCHANGED <<loopOnly, task, request, output, said, executed, posted>>
(* Mutant: the loop does not look at the event. *)
DispatchMutant(t) ==
  /\ task[t] = "top"
  /\ agent[t].state = "generating"
  /\ task' = [task EXCEPT ![t] = "calling"]
  /\ UNCHANGED <<loopOnly, agent, request, output, said, executed, posted>>
Dispatch(t) ==
  /\ task[t] = "top" /\ ~event
  /\ agent[t].state \in {"generating", "processing_tools", "interacting"}
  /\ task' = [task EXCEPT ![t] = CASE agent[t].state = "generating" -> "calling"
                                   [] agent[t].state = "processing_tools" -> "tools"
                                   [] agent[t].state = "interacting" -> "interaction"]
  /\ UNCHANGED <<loopOnly, agent, request, output, said, executed, posted>>

Outcome(a, turns) ==
  [is_cancel |-> FALSE,
   response |-> Prefix(a.response, ResponseLength),
   mask |-> Prefix(a.mask, ResponseLength),
   logprobs |-> Prefix(a.logprobs, ResponseLength),
   turns |-> turns, start |-> a.start, end |-> stamp]

CutOutput == [is_cancel |-> TRUE]
BuildCancelledOutput(t) ==
  /\ task[t] = "top" /\ event /\ agent[t].state # "terminated"
  /\ output' = [output EXCEPT ![t] = CutOutput]
  /\ task' = [task EXCEPT ![t] = "returned"]
  /\ UNCHANGED <<loopOnly, agent, request, said, executed, posted>>
BuildCompletedOutput(t) ==
  /\ task[t] = "top" /\ agent[t].state = "terminated"
  /\ output' = [output EXCEPT ![t] =
                  Outcome(agent[t], agent[t].user_turns + agent[t].assistant_turns + 1)]
  /\ posted' = [posted EXCEPT ![t] = @ + 1]
  /\ task' = [task EXCEPT ![t] = "returned"]
  /\ UNCHANGED <<loopOnly, agent, request, said, executed>>

(* The single-turn loop: what was cut earlier is kept in the output, which *)
(* agent stands for here, and the rest is generated after it.              *)
SingleTurn(t) ==
  /\ kind = "single_turn"
  /\ Refuses(t) \/ Answers(t)
  /\ LET a == Extend(agent[t], Tokens(t))
         cut == IsCancel(t) /\ ~LengthReached(a)
     IN /\ agent' = [agent EXCEPT ![t] = a]
        /\ output' = [output EXCEPT ![t] = IF cut THEN CutOutput ELSE Outcome(a, 2)]
        /\ posted' = [posted EXCEPT ![t] = IF cut THEN @ ELSE @ + 1]
  /\ task' = [task EXCEPT ![t] = "returned"]
  /\ request' = [request EXCEPT ![t] = NoRequest]
  /\ UNCHANGED <<loopOnly, said, executed>>

Run(t) ==
  \/ AgentAdmit(t) \/ Emit(t) \/ Generated(t) \/ SingleTurn(t)
  \/ ToolsReturn(t) \/ UserAnswers(t)
  \/ Pending(t) \/ Dispatch(t) \/ BuildCancelledOutput(t) \/ BuildCompletedOutput(t)

Cut == CancelAgentLoops \/ CancelServer \/ Transfer \/ ResumeAgentLoops \/ ResumeServer
         \/ Resumed

AgentFinished == sample = "done" /\ UNCHANGED agentVars

AgentNext ==
  \/ Submit \/ Start \/ WorkerReturns
  \/ Pause \/ Cut
  \/ \E t \in Trajectories : Run(t)
  \/ AgentFinished

MostResponses == CHOOSE n \in {Responses[k] : k \in LoopKinds} :
                   \A k \in LoopKinds : Responses[k] <= n
AgentSpec == AgentInit /\ [][AgentNext]_agentVars
(* Calls between actors are delivered, coroutines and the engine run,      *)
(* tools and users answer.  A synchronisation may never come.              *)
AgentFairSpec ==
  /\ AgentSpec
  /\ WF_agentVars(Submit \/ Start \/ WorkerReturns)
  /\ WF_agentVars(CancelAgentLoops) /\ WF_agentVars(CancelServer)
  /\ WF_agentVars(Transfer \/ ResumeAgentLoops \/ ResumeServer \/ Resumed)
  /\ \A t \in 1..MostResponses : WF_agentVars(t \in Trajectories /\ Run(t))

-------------------------------------------------------------------------------
AgentTypeOK ==
  /\ kind \in LoopKinds /\ version \in 0..MaxCuts /\ stamp \in 0..version
  /\ phase \in {"running", "cancelling", "resuming"}
  /\ {event, paused} \subseteq BOOLEAN
  /\ sample \in {"queued", "submitted", "running", "done"}
  /\ \A t \in Trajectories :
       /\ task[t] \in {"none", "top", "calling", "serving", "tools", "interaction", "returned"}
       /\ agent[t].state \in {"pending", "generating", "processing_tools", "interacting",
                              "terminated"}
       /\ Len(agent[t].response) <= Room /\ agent[t].start \in 0..version
       /\ output[t].is_cancel \in BOOLEAN

(* The mask and the log-probabilities of a completed trajectory belong to  *)
(* its tokens, one for one, however often it was cut: 1 and the token's    *)
(* own for what the model said, 0 and zero for what it was told.           *)
Aligned ==
  \A t \in Trajectories : Completed(t) =>
    /\ Len(output[t].response) \in 1..ResponseLength
    /\ DOMAIN output[t].mask = DOMAIN output[t].response
    /\ DOMAIN output[t].logprobs = DOMAIN output[t].response
    /\ \A k \in DOMAIN output[t].response :
         IF output[t].response[k] = "observation"
         THEN output[t].mask[k] = 0 /\ output[t].logprobs[k] = "zero"
         ELSE output[t].mask[k] = 1 /\ output[t].logprobs[k] = output[t].response[k]

(* A cut loses no token and repeats none: a completed response is what the *)
(* engine, the tools and the users said, in their order.                   *)
NothingLost ==
  \A t \in Trajectories : Completed(t) =>
    output[t].response = [k \in DOMAIN output[t].response |-> said[t][k].token]
    /\ Len(output[t].response) = IF Len(said[t]) < ResponseLength THEN Len(said[t])
                                 ELSE ResponseLength

(* An assistant turn is counted once, however many generations it took.    *)
TurnsCounted ==
  \A t \in Trajectories :
    /\ MaxAssistantTurns > 0 => agent[t].assistant_turns <= MaxAssistantTurns
    /\ Completed(t) /\ kind = "tool" => output[t].turns = 2 * (agent[t].user_turns + 1)

(* param_version_start and param_version_end bracket the weights that made *)
(* the tokens of a trajectory.                                             *)
VersionSpan ==
  \A t \in Trajectories : Completed(t) =>
    \A k \in DOMAIN said[t] : said[t][k].version \in output[t].start..output[t].end

(* A completed trajectory is post-processed (and scored) once, though the  *)
(* sample it belongs to may be cut and submitted again.                    *)
PostprocessedOnce ==
  \A t \in Trajectories : posted[t] = IF Completed(t) THEN 1 ELSE 0

(* No call is executed twice: a cut between a turn and its tools, or after *)
(* them, resumes where it was.                                             *)
Spoken(t) == [k \in DOMAIN said[t] |-> said[t][k].token]
CallsExecutedOnce == \A t \in Trajectories : executed[t] <= ToolCalls(Spoken(t))

(* However often it was cut, a completed trajectory is whole: tokens,      *)
(* mask, log-probabilities and versions are those of what was said, and    *)
(* what is done once is done once: a turn counted, a call executed, a      *)
(* result post-processed.                                                  *)
TrajectoryIntact ==
  /\ AgentTypeOK /\ Aligned /\ NothingLost /\ VersionSpan
  /\ TurnsCounted /\ PostprocessedOnce /\ CallsExecutedOnce

(* Every pause ends, though the two halves of a cut reach the loops in any *)
(* order, and the sample is completed once the synchronisations end.       *)
PauseEnds == phase = "cancelling" ~> phase = "resuming"
SampleDone == <>(sample = "done")
===============================================================================
