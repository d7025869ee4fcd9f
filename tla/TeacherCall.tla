------------------------------ MODULE TeacherCall ------------------------------
(***************************************************************************)
(* What get_teacher_knowledge promises the trainer, without threads,       *)
(* sockets, microbatches and retries: a call is answered with the          *)
(* teacher's knowledge about exactly its own prompts, in their order, or   *)
(* it raises; and there is one call at a time.                             *)
(***************************************************************************)
EXTENDS Naturals, Sequences

CONSTANTS
  Size,       (* prompts of a call                                          *)
  MaxCalls

VARIABLES
  pending,    (* a call is out                                              *)
  call,       (* its number                                                 *)
  outcome,    (* how the last finished call ended                           *)
  knowledge   (* what it returned: a prompt stands for what is known of it  *)

callVars == <<pending, call, outcome, knowledge>>

(* The prompts of call c, in order. *)
Own(c) == [j \in 1..Size |-> <<c, j>>]

Init ==
  /\ pending = FALSE
  /\ call = 0
  /\ outcome = "none" /\ knowledge = <<>>

Ask ==
  /\ ~pending /\ call < MaxCalls
  /\ pending' = TRUE
  /\ call' = call + 1
  /\ outcome' = "none" /\ knowledge' = <<>>

Return ==
  /\ pending
  /\ pending' = FALSE
  /\ outcome' = "returned" /\ knowledge' = Own(call)
  /\ UNCHANGED call

Raise ==
  /\ pending
  /\ pending' = FALSE
  /\ outcome' = "raised"
  /\ UNCHANGED <<call, knowledge>>

Next == Ask \/ Return \/ Raise

Spec == Init /\ [][Next]_callVars
===============================================================================
