-------------------------------- MODULE OpdLoss --------------------------------
(***************************************************************************)
(* The advantage of an on-policy-distillation micro-batch, step by step:   *)
(* compute_policy_loss_opd and _apply_adv_transform of                     *)
(* verl/trainer/ppo/core_algos.py.  A token is a pair of its sequence and  *)
(* its place; log-probabilities are exact, as reduced fractions <<n, d>>.  *)
(***************************************************************************)
EXTENDS Integers, Sequences, FiniteSets, FiniteSetsExt, Folds

CONSTANTS
  Payloads,     (* a sequence's tokens: records of the teacher's share, its    *)
                (* chunk, the student's log-probability, and the mask          *)
  LossSettings  (* records of rule, mode, param and limit                      *)

(* Fractions, in lowest terms; a log-probability is one.                   *)
Fractions == Int \X (Nat \ {0})
Reduced(n, d) ==
  LET g == Max({k \in 1..d : n % k = 0 /\ d % k = 0}) IN <<n \div g, d \div g>>
Numbers == {q \in Fractions : q = Reduced(q[1], q[2])}
LogProbs == {q \in Numbers : q[1] <= 0}
Zero == <<0, 1>>
One == <<1, 1>>
Inf == <<1, 0>>                            (* also: no limit                  *)

(* A log-probability is at most 0; the limit of the clamp is positive, if  *)
(* there is one; exponents are small enough to be multiplied out.          *)
ASSUME LossAssumption ==
  /\ Payloads \subseteq Seq([teacher : LogProbs \cup {Inf}, chunk : Int, student : LogProbs,
                             mask : BOOLEAN])
  /\ \A s \in LossSettings :
       /\ s.limit = Inf \/ (s.limit \in Numbers /\ s.limit[1] > 0)
       /\ s.mode = "dctv" => s.param \in Numbers /\ s.param[1] >= 0
       /\ s.mode \in {"power", "alloc_power"} => s.param \in 0..2
       /\ s.mode = "strength_interp" => s.param \in Numbers
       /\ s.mode \in {"raw", "perm", "group_const", "sign", "dctv", "power", "sign_mass_raw_alloc",
                     "alloc_power", "strength_interp"}

VARIABLES
  tokens, has_ids, setting,                (* the inputs                       *)
  stage,                                   (* "credit", "clamp", ..., "loss"   *)
  target, delta, advantage

lossVars == <<tokens, has_ids, setting, stage, target, delta, advantage>>

Plus(p, q) == Reduced(p[1] * q[2] + q[1] * p[2], p[2] * q[2])
Times(p, q) == Reduced(p[1] * q[1], p[2] * q[2])
Minus(p, q) == Plus(p, <<-q[1], q[2]>>)
Over(p, q) == IF q[1] > 0 THEN Times(p, <<q[2], q[1]>>) ELSE Times(p, <<-q[2], -q[1]>>)
AtMost(p, q) == p[1] * q[2] <= q[1] * p[2]
Abs(q) == IF q[1] < 0 THEN <<-q[1], q[2]>> ELSE q
Sign(q) == IF q[1] > 0 THEN 1 ELSE IF q[1] < 0 THEN -1 ELSE 0
Signed(s, q) == IF s = 0 THEN Zero ELSE <<s * q[1], q[2]>>
Power(q, a) == CASE a = 0 -> One [] a = 1 -> q [] a = 2 -> Times(q, q)
Sum(f, S) == MapThenFoldSet(Plus, Zero, LAMBDA t : f[t], LAMBDA T : CHOOSE t \in T : TRUE, S)

Tokens == DOMAIN tokens
Masked == {t \in Tokens : ~tokens[t].mask}
(* _unpack_opd_signal: the payload may have no chunk ids. *)
NoSignalFor == {t \in Tokens : tokens[t].teacher = Inf \/ (has_ids /\ tokens[t].chunk < 0)}
Valid == Tokens \ (Masked \cup NoSignalFor)
Student == [t \in Tokens |-> tokens[t].student]
Teacher == [t \in Tokens |-> IF t \in NoSignalFor THEN tokens[t].student ELSE tokens[t].teacher]
Chunk(t) == {u \in Valid : u[1] = t[1] /\ tokens[u].chunk = tokens[t].chunk}

LossInit ==
  /\ \E p, q \in Payloads :
       tokens = [t \in ({1} \X DOMAIN p) \cup ({2} \X DOMAIN q) |-> IF t[1] = 1 THEN p[t[2]] ELSE q[t[2]]]
  /\ has_ids \in BOOLEAN /\ setting \in LossSettings
  /\ stage = "credit"
  /\ target = [t \in Tokens |-> Zero] /\ delta = target /\ advantage = target

-------------------------------------------------------------------------------
(* The teacher's log-probability of a chunk is shared out to its tokens:   *)
(* evenly, or by what the student gives them.                              *)
Share(t) ==
  LET teacher_chunk_logp == Sum(Teacher, Chunk(t))
      prior_chunk_logp == Sum(Student, Chunk(t))
  IN IF setting.rule = "uniform" \/ prior_chunk_logp = Zero
     THEN Over(teacher_chunk_logp, <<Cardinality(Chunk(t)), 1>>)
     ELSE Times(Over(teacher_chunk_logp, prior_chunk_logp), Student[t])
AssignCredit ==
  /\ stage = "credit"
  /\ target' = [t \in Tokens |-> IF ~has_ids THEN Teacher[t]
                                 ELSE IF t \in Valid THEN Share(t) ELSE Student[t]]
  /\ stage' = "clamp"
  /\ UNCHANGED <<tokens, has_ids, setting, delta, advantage>>

Clamped(q) ==
  IF setting.limit = Inf THEN q
  ELSE IF AtMost(setting.limit, q) THEN setting.limit
  ELSE IF AtMost(q, Minus(Zero, setting.limit)) THEN Minus(Zero, setting.limit) ELSE q
ClampAdvantage ==
  /\ stage = "clamp"
  /\ delta' = [t \in Tokens |-> Clamped(Minus(target[t], Student[t]))]
  /\ stage' = "transform"
  /\ UNCHANGED <<tokens, has_ids, setting, target, advantage>>

-------------------------------------------------------------------------------
(* _apply_adv_transform.  The groups are those of one sign in the whole    *)
(* micro-batch; S_g and n_g are a group's strength and size.               *)
Positive(d) == {t \in Tokens \ Masked : Sign(d[t]) > 0}
Negative(d) == {t \in Tokens \ Masked : Sign(d[t]) < 0}
GroupOf(d, t) == IF Sign(d[t]) > 0 THEN Positive(d) ELSE Negative(d)
Magnitudes(d) == [t \in Tokens |-> Abs(d[t])]
Strength(d, g) == Sum(Magnitudes(d), g)
Count(g) == <<Cardinality(g), 1>>
Moved(d) == Positive(d) \cup Negative(d)
Permuted(d) == {p \in [Moved(d) -> Moved(d)] :
                  /\ \A t \in Moved(d) : Sign(d[p[t]]) = Sign(d[t])
                  /\ \A t, u \in Moved(d) : t # u => p[t] # p[u]}

Alloc(d, g, t, alpha) == (* q_i^(alpha) *)
  Over(Power(Abs(d[t]), alpha), Sum([u \in g |-> Power(Abs(d[u]), alpha)], g))
(* The fraction of the strength that the positive tokens have. *)
Interpolated(d, beta) ==
  Plus(Times(beta, Over(Strength(d, Positive(d)), Strength(d, Moved(d)))),
       Times(Minus(One, beta), Over(Count(Positive(d)), Count(Moved(d)))))
(* Mutant: beyond the ends of the sweep it may be no fraction. *)
PositiveShareMutant(d, beta) == Interpolated(d, beta)
PositiveShare(d, beta) ==
  LET r == Interpolated(d, beta)
  IN IF AtMost(r, Zero) THEN Zero ELSE IF AtMost(One, r) THEN One ELSE r
InterpStrength(d, g, beta) ==
  LET share == PositiveShare(d, beta)
      m_g == Times(IF g = Positive(d) THEN share ELSE Minus(One, share), Strength(d, Moved(d)))
  IN Over(m_g, Count(g))

(* The magnitude of a token of either sign; p is a permutation for "perm". *)
NewMagnitude(d, t, mode, param, p) ==
  LET g == GroupOf(d, t)
      c == Over(Strength(d, Moved(d)), Count(Moved(d)))
  IN CASE mode = "raw"                 -> Abs(d[t])
       [] mode = "perm"                -> Abs(d[p[t]])
       [] mode = "group_const"         -> Over(Strength(d, g), Count(g))
       [] mode = "sign"                -> One
       [] mode = "dctv"                -> param
       [] mode = "power"               -> Power(Abs(d[t]), param)
       [] mode = "sign_mass_raw_alloc" -> Times(Times(c, Count(g)), Alloc(d, g, t, 1))
       [] mode = "alloc_power"         -> Times(Strength(d, g), Alloc(d, g, t, param))
       [] mode = "strength_interp"     -> InterpStrength(d, g, param)
Transformed(d, mode, param, p) ==
  [t \in Tokens |-> IF t \in Moved(d) THEN Signed(Sign(d[t]), NewMagnitude(d, t, mode, param, p))
                    ELSE Zero]

(* "raw" is not transformed: what it has at masked tokens stays there. *)
TransformAdvantage ==
  /\ stage = "transform"
  /\ \E p \in (IF setting.mode = "perm" THEN Permuted(delta) ELSE {<<>>}) :
       advantage' = IF setting.mode = "raw" THEN delta
                    ELSE Transformed(delta, setting.mode, setting.param, p)
  /\ stage' = "loss"
  /\ UNCHANGED <<tokens, has_ids, setting, target, delta>>
LossFinished == stage = "loss" /\ UNCHANGED lossVars

LossNext == AssignCredit \/ ClampAdvantage \/ TransformAdvantage \/ LossFinished
LossSpec == LossInit /\ [][LossNext]_lossVars

-------------------------------------------------------------------------------
IsFraction(q) == q[2] >= 1
LossTypeOK ==
  /\ stage \in {"credit", "clamp", "transform", "loss"}
  /\ \A t \in Tokens : IsFraction(target[t]) /\ IsFraction(delta[t]) /\ IsFraction(advantage[t])
  /\ setting.limit = Inf \/ \A t \in Tokens : AtMost(Abs(delta[t]), setting.limit)

(* "sum_i target_i == L_T^(c)": a chunk is given the teacher's             *)
(* log-probability of it, whichever the rule, and chunks of other          *)
(* sequences have no part in it.                                           *)
ChunkConserved ==
  stage # "credit" /\ has_ids =>
    \A s \in {1, 2} : \A id \in {tokens[t].chunk : t \in Valid} :
      LET chunk == {t \in Valid : t[1] = s /\ tokens[t].chunk = id}
      IN Sum(target, chunk) = Sum([t \in chunk |-> tokens[t].teacher], chunk)

(* With the semantic rule the tokens of a chunk are all pushed the same    *)
(* way.                                                                    *)
PushedTogether ==
  stage \in {"transform", "loss"} /\ has_ids /\ setting.rule = "semantic" =>
    \A t, u \in Valid : tokens[t].chunk = tokens[u].chunk /\ t[1] = u[1]
                          => Sign(delta[t]) * Sign(delta[u]) >= 0

(* "sentinel delta = 0, no gradient contribution": in every mode a token   *)
(* the teacher says nothing of has none, and no mode turns one around.     *)
SentinelsInert ==
  stage = "loss" =>
    /\ \A t \in NoSignalFor : advantage[t] = Zero
    /\ \A t \in Tokens \ Masked : Sign(advantage[t]) * Sign(delta[t]) >= 0

(* The modes that only redistribute keep the strength: of each sign, or of *)
(* both together.                                                          *)
StrengthKept ==
  stage = "loss" =>
    /\ setting.mode \in {"perm", "group_const", "alloc_power"} =>
         \A g \in {Positive(delta), Negative(delta)} : Strength(advantage, g) = Strength(delta, g)
    /\ setting.mode \in {"sign_mass_raw_alloc", "strength_interp"} =>
         Strength(advantage, Moved(delta)) = Strength(delta, Moved(delta))

(* The sweeps end where their descriptions say: at modes of their own.     *)
SweepsMeet ==
  stage = "loss" =>
    LET as(mode, param) == Transformed(delta, mode, param, <<>>)
    IN /\ as("alloc_power", 1) = as("raw", One) /\ as("alloc_power", 0) = as("group_const", One)
       /\ as("strength_interp", One) = as("group_const", One)
       /\ as("power", 1) = as("raw", One) /\ as("power", 0) = as("sign", One)

(* The credit of a chunk is all given, to its own tokens and one way, and  *)
(* a transform changes of it what it says it changes.                      *)
CreditKept ==
  LossTypeOK /\ ChunkConserved /\ PushedTogether /\ SentinelsInert /\ StrengthKept /\ SweepsMeet
===============================================================================
