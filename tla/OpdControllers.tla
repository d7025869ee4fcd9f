----------------------------- MODULE OpdControllers -----------------------------
(***************************************************************************)
(* The two controllers of the size of an on-policy-distillation update, in *)
(* update_policy of verl/workers/actor/dp_actor.py: "dctv" scales the      *)
(* advantage so that the predicted motion stays within the discrepancy of  *)
(* teacher and student; the scheduler anneals the learning rate ("lr") or  *)
(* the loss ("adv") as the discrepancy shrinks.  Each rank has a copy of   *)
(* the controller, which only the values they reduce together keep equal.  *)
(*                                                                         *)
(* Numbers are in parts of Unit, and are rounded down.                     *)
(***************************************************************************)
EXTENDS Integers, Sequences, FiniteSets, FiniteSetsExt

CONSTANTS
  Ranks,
  Modes,             (* a subset of {"dctv", "lr", "adv"}                      *)
  Samples,           (* what the ranks may find in a mini-batch: the sum of    *)
                     (* the discrepancies and the number of tokens             *)
  Norms,             (* norms of the gradient of the loss that is not scaled   *)
  Schedule,          (* learning rates, one for each call of update_policy     *)
  MiniBatches,       (* of each call                                           *)
  Resumes,           (* bound: restarts from a checkpoint                      *)
  Unit, Eps, Beta, CMin, CCap

ASSUME OpdControllersAssumption ==
  /\ Ranks # {} /\ IsFiniteSet(Ranks) /\ Modes \subseteq {"dctv", "lr", "adv"}
  /\ \A s \in Samples : DOMAIN s = Ranks /\ \A r \in Ranks : s[r].sum \in Nat /\ s[r].count \in Nat
  /\ Norms \subseteq Nat /\ Schedule \in Seq(Nat) /\ Schedule # <<>> /\ MiniBatches \in Nat \ {0}
  /\ Unit \in Nat \ {0} /\ Eps \in 1..Unit /\ Beta \in 0..Unit /\ CMin \in 0..Unit /\ CCap \in Nat

VARIABLES
  mode,
  call, mini_batch,  (* the call of update_policy and its mini-batch           *)
  ctl_at,            (* "loss", "step" or "control"                            *)
  ctl,               (* _dctv_state, _tv_sched_state of each rank              *)
  local,             (* what each rank found, and the c it scaled its loss by  *)
  lr,                (* the learning rate of the optimizer, on each rank       *)
  grad_norm,         (* of the step just taken, and whether it is finite       *)
  applied, resumes,  (* updates applied since the last start; restarts         *)
  last_lr,           (* the learning rate the last step was taken with         *)
  motion, sunk       (* EMA of the motion of the unscaled loss; c was below    *)
                     (* Eps, where the motion cannot be recovered              *)

ctlVars == <<mode, call, mini_batch, ctl_at, ctl, local, lr, grad_norm, applied, resumes,
             last_lr, motion, sunk>>

None == -1
Infinite == -1
Fresh == [c |-> Unit, D_ema |-> None, M_ema |-> None, D_ref |-> None, step |-> 0]
MaxOf(a, b) == IF a > b THEN a ELSE b
MinOf(a, b) == IF a < b THEN a ELSE b
Ema(old, new) == IF old = None THEN new ELSE (Beta * old + (Unit - Beta) * new) \div Unit
OverRanks(f) == MapThenSumSet(LAMBDA r : f[r], Ranks)

CtlInit ==
  /\ mode \in Modes
  /\ call = 1 /\ mini_batch = 1 /\ ctl_at = "loss"
  /\ ctl = [r \in Ranks |-> Fresh]
  /\ local = [r \in Ranks |-> [sum |-> 0, count |-> 0, c |-> Unit]]
  /\ lr = [r \in Ranks |-> Schedule[1]]
  /\ grad_norm = [finite |-> TRUE, value |-> 0] /\ applied = 0 /\ resumes = 0 /\ last_lr = Schedule[1]
  /\ motion = None /\ sunk = FALSE

Calls == DOMAIN Schedule
Running == call \in Calls

-------------------------------------------------------------------------------
(* The micro-batches of a mini-batch: c of dctv goes into the loss, so does *)
(* that of the scheduler if its target is "adv".                            *)
Losses ==
  /\ Running /\ ctl_at = "loss"
  /\ \E s \in Samples :
       local' = [r \in Ranks |-> [sum |-> s[r].sum, count |-> s[r].count, c |-> ctl[r].c]]
  /\ ctl_at' = "step"
  /\ UNCHANGED <<mode, call, mini_batch, ctl, lr, grad_norm, applied, resumes, last_lr, motion,
                 sunk>>

(* The gradient norm is the same on all ranks.  A step whose norm is not   *)
(* finite is not taken.  The learning rate is scaled for the step only.    *)
C == ctl[CHOOSE r \in Ranks : TRUE].c
Scaled(norm, c) == (norm * c) \div Unit
Motion(rate, norm) == (rate * ((norm * norm) \div Unit)) \div (2 * Unit)
RateAfter(r) == lr[r]
OptimizerStep ==
  /\ ctl_at = "step"
  /\ \E norm \in Norms \cup {Infinite} :
       /\ grad_norm' = [finite |-> norm # Infinite,
                        value |-> IF mode = "lr" THEN norm ELSE Scaled(norm, C)]
       /\ applied' = IF norm = Infinite THEN applied ELSE applied + 1
       /\ motion' = IF norm = Infinite THEN motion
                    ELSE Ema(motion, Motion(lr[CHOOSE r \in Ranks : TRUE], norm))
       /\ sunk' = (sunk \/ (norm # Infinite /\ C < Eps))
  /\ last_lr' = LET r == CHOOSE r \in Ranks : TRUE
                IN IF mode = "lr" THEN (lr[r] * ctl[r].c) \div Unit ELSE lr[r]
  /\ lr' = [r \in Ranks |-> RateAfter(r)]
  /\ ctl_at' = "control"
  /\ UNCHANGED <<mode, call, mini_batch, ctl, local, resumes>>

(* Mutant: each rank goes by what it found itself. *)
DHatMutant(r) == (local[r].sum * Unit) \div MaxOf(local[r].count, 1)
DHat(r) ==
  (OverRanks([q \in Ranks |-> local[q].sum]) * Unit)
    \div MaxOf(OverRanks([q \in Ranks |-> local[q].count]), 1)

(* Mutant: the norm is that of the scaled loss. *)
MHatMutant(r) == Motion(lr[r], grad_norm.value)
Unscaled(value, c) == (value * Unit) \div MaxOf(c, Eps)
MHat(r) == Motion(lr[r], Unscaled(grad_norm.value, ctl[r].c))

(* The numbers are fine enough: what scaling and unscaling a norm round    *)
(* off makes no more than Eps of motion.                                   *)
ASSUME PrecisionAssumption ==
  \A n \in DOMAIN Schedule, norm \in Norms, c \in Eps..MaxOf(CCap, Unit) :
    Motion(Schedule[n], norm) <= Motion(Schedule[n], Unscaled(Scaled(norm, c), c)) + Eps

Dctv(r) ==
  LET D == Ema(ctl[r].D_ema, DHat(r))
      M == Ema(ctl[r].M_ema, MHat(r))
  IN [c |-> MinOf(CCap, (D * Unit) \div (M + Eps)), D_ema |-> D, M_ema |-> M,
      D_ref |-> ctl[r].D_ref, step |-> ctl[r].step + 1]
Ref(r, D) == IF ctl[r].D_ref = None THEN D ELSE ctl[r].D_ref
Clipped(ratio) == MinOf(Unit, MaxOf(CMin, ratio))
TvSched(r) ==
  LET D == Ema(ctl[r].D_ema, DHat(r))
      ratio == ((D + Eps) * Unit) \div (Ref(r, D) + Eps)
  IN [c |-> Clipped(ratio), D_ema |-> D, M_ema |-> ctl[r].M_ema,
      D_ref |-> Ref(r, D), step |-> ctl[r].step + 1]
Taken == grad_norm.finite
ControllerStep ==
  /\ ctl_at = "control"
  /\ ctl' = [r \in Ranks |-> IF ~Taken THEN ctl[r] ELSE IF mode = "dctv" THEN Dctv(r) ELSE TvSched(r)]
  /\ ctl_at' = "loss"
  /\ IF mini_batch < MiniBatches
     THEN mini_batch' = mini_batch + 1 /\ UNCHANGED <<call, lr>>
     ELSE /\ mini_batch' = 1 /\ call' = call + 1
          /\ lr' = [r \in Ranks |-> IF call + 1 \in Calls THEN Schedule[call + 1] ELSE lr[r]]
  /\ UNCHANGED <<mode, local, grad_norm, applied, resumes, last_lr, motion, sunk>>

(* A restart: the optimizer and its schedule come back, the controllers    *)
(* start anew.                                                             *)
ResumeTraining ==
  /\ Running /\ ctl_at = "loss" /\ mini_batch = 1 /\ resumes < Resumes
  /\ ctl' = [r \in Ranks |-> Fresh]
  /\ applied' = 0 /\ motion' = None /\ sunk' = FALSE
  /\ resumes' = resumes + 1
  /\ UNCHANGED <<mode, call, mini_batch, ctl_at, local, lr, grad_norm, last_lr>>

CtlFinished == ~Running /\ UNCHANGED ctlVars
CtlNext == Losses \/ OptimizerStep \/ ControllerStep \/ ResumeTraining \/ CtlFinished
CtlSpec == CtlInit /\ [][CtlNext]_ctlVars

-------------------------------------------------------------------------------
(* Of the right types; c stays within its bounds, and is that of no change *)
(* until the first update has been measured.                               *)
CtlTypeOK ==
  /\ mode \in Modes /\ call \in 1..Cardinality(Calls) + 1 /\ mini_batch \in 1..MiniBatches
  /\ ctl_at \in {"loss", "step", "control"}
  /\ \A r \in Ranks :
       /\ ctl[r].c \in IF mode = "dctv" THEN 0..MaxOf(CCap, Unit) ELSE CMin..Unit
       /\ (ctl[r].D_ema = None) = (ctl[r].step = 0)
       /\ ctl[r].step = 0 \/ (mode # "dctv" /\ ctl[r].step = 1) => ctl[r].c = Unit

(* The parts of one gradient are all scaled alike: on no rank has the      *)
(* controller gone another way, though each found other discrepancies.     *)
OneFactor == ctl_at = "step" => \A q, r \in Ranks : local[q].c = local[r].c

(* The controllers have seen the updates that were applied, those only and *)
(* each once.                                                              *)
OnlyApplied == ctl_at # "control" => \A r \in Ranks : ctl[r].step = applied

(* Each step is taken with the learning rate of the schedule, scaled once: *)
(* the factors of earlier mini-batches are not left in it.                 *)
LearningRateKept ==
  ctl_at = "control" => last_lr = IF mode = "lr" THEN (Schedule[call] * C) \div Unit ELSE Schedule[call]

(* The ranks go through the steps together: with one factor, from the same *)
(* updates, at the rate of the schedule.                                   *)
RanksInStep == OneFactor /\ OnlyApplied /\ LearningRateKept

(* The predicted motion of the scaled update is no more than the           *)
(* discrepancy, both averaged, although the motion is only ever measured   *)
(* through gradients that were scaled; the factor stays within its bounds. *)
MotionBounded ==
  /\ CtlTypeOK
  /\ mode = "dctv" /\ ctl_at = "loss" /\ ~sunk =>
    \A r \in Ranks : ctl[r].step > 0 => ctl[r].c * motion <= ctl[r].D_ema * Unit

(* What the discrepancy is compared with stays that of the first step.     *)
Anchored ==
  [][\A r \in Ranks : ctl[r].D_ref # None /\ resumes' = resumes => ctl'[r].D_ref = ctl[r].D_ref]_ctlVars
===============================================================================
