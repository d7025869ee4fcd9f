---------------------------- MODULE MC_Synchronous -----------------------------
EXTENDS FullyAsync

(* The system with partial_rollout, as the configuration sets it, and      *)
(* without, where a pause waits for the tasks instead of cutting them: the *)
(* same constants, one at a time in one run.                               *)
VARIABLE partial

Waiting == INSTANCE FullyAsync WITH PartialRollout <- FALSE

EitherOf(A, B) == (partial /\ A) \/ (~partial /\ B)

BothNext == EitherOf(Next, Waiting!Next) /\ UNCHANGED partial

BothSpec ==
  /\ Init /\ partial \in BOOLEAN
  /\ [][BothNext]_<<vars, partial>>
  /\ WF_vars(EitherOf(EventLoop /\ Rollout, Waiting!EventLoop /\ Waiting!Rollout))
  /\ WF_vars(MonitorTimer /\ Rollout)
  /\ WF_vars(Replies /\ Rollout)
  /\ \A s \in Samples : WF_vars(Generation(s) /\ Rollout)
  /\ WF_vars(Trainer)
  /\ WF_vars(Transfer)
===============================================================================
