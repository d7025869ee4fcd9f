---------------------------- MODULE Training_proofs ----------------------------
(***************************************************************************)
(* What is proved of the loops that train: the one-step-off overlap        *)
(* (OneStepOff), the hybrid engine's turns (HybridEngine), the             *)
(* trust-region controllers (OpdControllers: what the ranks share, and, at *)
(* the end, how far an update moves), dynamic sampling (DynamicSampling),  *)
(* the alignment of tokenizations (OpdAlign) and the credit a token is     *)
(* given for them (OpdLoss, with the arithmetic of fractions it needs).    *)
(* They share no state; each part below has its own inductive invariant.   *)
(***************************************************************************)
EXTENDS OneStepOff, HybridEngine, OpdControllers, DynamicSampling, OpdAlign, OpdLoss,
        FiniteSetTheorems, SequenceTheorems, TLAPS

-------------------------------------------------------------------------------
(* The one-step-off overlap.                                               *)
(* For any number of batches, epochs, steps and restarts.  OverlapInv says,*)
(* for each place in fit, how the numbers and the versions of the batch in *)
(* hand and of the one being generated stand to what the weights have been *)
(* through; a checkpoint owes one batch more than the life that wrote it,  *)
(* because a generation may be under way.                                  *)

Lag == IF Version = base THEN 0 ELSE 1
Reason == batch_data_future = NoBatch => read = limit \/ reading_failed

(* Batch b is the next to be trained on. *)
NextIs(b) ==
  /\ b.number = read /\ LastOf(lineage) < read /\ read - 1 - Version <= restarted
  /\ b.version = Version - Lag /\ rollout_version = b.version

AtStart ==
  fit \in {"loaded", "first"} =>
    /\ Version = base /\ batch_data_future = NoBatch /\ rollout_version = 0
    /\ LastOf(lineage) <= read /\ read - Version <= restarted
    /\ fit = "loaded" => validated.step < global_steps
    /\ fit = "first" => validated.step <= global_steps /\ validated.version = 0
AtWait ==
  fit \in {"wait_prev_gen", "sync_rollout_weights"} =>
    /\ NextIs(IF fit = "wait_prev_gen" THEN batch_data_future ELSE in_hand)
    /\ validated.step < global_steps
    /\ fit = "sync_rollout_weights" => ~IsLastStep
AtTrain ==
  fit = "train" =>
    /\ LastOf(lineage) < in_hand.number /\ in_hand.number - 1 - Version <= restarted
    /\ in_hand.version = Version - Lag
    /\ Ahead => /\ read = in_hand.number + 1 /\ batch_data_future.number = read
                /\ batch_data_future.version = Version /\ rollout_version = Version
    /\ ~Ahead => read = in_hand.number /\ rollout_version = in_hand.version
    /\ Reason /\ validated.step < global_steps
AtTrained ==
  fit \in {"trained", "save"} =>
    /\ LastOf(lineage) = in_hand.number /\ in_hand.number - Version <= restarted
    /\ Version > base
    /\ Ahead => /\ read = in_hand.number + 1 /\ batch_data_future.number = read
                /\ batch_data_future.version = Version - 1 /\ rollout_version = Version - 1
    /\ ~Ahead => /\ read = in_hand.number
                 /\ rollout_version = Version - (IF Version - base = 1 THEN 1 ELSE 2)
    /\ Reason
    /\ fit = "trained" => validated.step < global_steps
    /\ validated.step <= global_steps
    /\ fit = "save" /\ validated.step = global_steps => validated.version = rollout_version
AtEnd ==
  fit \in {"returned", "ended"} => LastOf(lineage) - Version <= restarted
CheckpointOwes ==
  /\ Increasing(checkpoint.lineage)
  /\ LastOf(checkpoint.lineage) <= checkpoint.read
  /\ checkpoint.read - Len(checkpoint.lineage) <= restarted + 1

OverlapInv ==
  /\ OverlapTypeOK /\ base <= Version /\ Increasing(lineage)
  /\ AtStart /\ AtWait /\ AtTrain /\ AtTrained /\ AtEnd
  /\ CheckpointOwes /\ SavedAtReturn

-------------------------------------------------------------------------------
(* A batch with a number above all of the lineage may follow it.           *)
LEMMA Appended ==
  ASSUME NEW s \in Seq(Nat), NEW n \in Nat, Increasing(s), LastOf(s) < n
  PROVE  /\ Append(s, n) \in Seq(Nat) /\ Len(Append(s, n)) = Len(s) + 1
         /\ Increasing(Append(s, n)) /\ LastOf(Append(s, n)) = n
<1>. DEFINE a == Append(s, n)
<1>1. a \in Seq(Nat) /\ Len(a) = Len(s) + 1 /\ a # <<>> /\ a[Len(a)] = n
  OBVIOUS
<1>2. ASSUME NEW i \in 1..Len(a) - 1 PROVE a[i] < a[i + 1]
  <2>1. CASE i = Len(s)
    <3>1. s # <<>> /\ LastOf(s) = s[Len(s)] BY <2>1, <1>1 DEF LastOf
    <3>. QED BY <2>1, <3>1, <1>1
  <2>2. CASE i # Len(s)
    <3>1. i \in 1..Len(s) - 1 /\ a[i] = s[i] /\ a[i + 1] = s[i + 1] BY <2>2, <1>1
    <3>. QED BY <3>1 DEF Increasing
  <2>. QED BY <2>1, <2>2
<1>. QED BY <1>1, <1>2 DEF Increasing, LastOf

LEMMA LastIsNumber == ASSUME NEW s \in Seq(Nat) PROVE LastOf(s) \in Nat
BY DEF LastOf

LEMMA OverlapInitially == OverlapInit => OverlapInv
<1>. USE OverlapAssumption
<1>. SUFFICES ASSUME OverlapInit PROVE OverlapInv OBVIOUS
<1>1. OverlapTypeOK /\ base <= Version /\ Increasing(lineage)
  BY DEF OverlapInit, OverlapTypeOK, Batches, Checkpoints, NoBatch, NoCheckpoint, Version,
     Increasing
<1>2. AtStart /\ AtWait /\ AtTrain /\ AtTrained /\ AtEnd
  BY DEF OverlapInit, AtStart, AtWait, AtTrain, AtTrained, AtEnd, Version, LastOf
<1>3. CheckpointOwes /\ SavedAtReturn
  BY DEF OverlapInit, CheckpointOwes, SavedAtReturn, NoCheckpoint, Increasing, LastOf
<1>. QED BY <1>1, <1>2, <1>3 DEF OverlapInv

(* What AsyncGenNextBatch does, with a batch to read and without one.      *)
GenerationStarted ==
  /\ read' = read + 1 /\ rollout_version' = Version
  /\ batch_data_future' = [number |-> read + 1, version |-> Version, ready |-> FALSE]
NoneStarted ==
  /\ batch_data_future' = NoBatch /\ UNCHANGED <<read, rollout_version>>
  /\ read = limit \/ reading_failed' = TRUE

LEMMA StartedOrNot ==
  ASSUME AsyncGenNextBatch, read \in Nat, Version \in Nat
  PROVE  \/ GenerationStarted /\ batch_data_future' \in Batches /\ batch_data_future' # NoBatch
         \/ NoneStarted /\ batch_data_future' \in Batches
<1>1. NoBatch \in Batches BY DEF NoBatch, Batches
<1>2. ASSUME GenerationStarted PROVE batch_data_future' \in Batches /\ batch_data_future' # NoBatch
  <2>1. batch_data_future' \in Batches BY <1>2 DEF GenerationStarted, Batches
  <2>2. batch_data_future'.number = read + 1 /\ read + 1 # 0 BY <1>2 DEF GenerationStarted
  <2>. QED BY <2>1, <2>2 DEF NoBatch
<1>3. GenerationStarted \/ NoneStarted
  BY DEF AsyncGenNextBatch, Synced, GenerationStarted, NoneStarted
<1>. QED BY <1>1, <1>2, <1>3 DEF NoneStarted

LEMMA OverlapPreserved == OverlapInv /\ [OverlapNext]_overlapVars => OverlapInv'
<1>. USE DEF Version
<1>. SUFFICES ASSUME OverlapTypeOK, base <= Version, Increasing(lineage), AtStart, AtWait, AtTrain,
                     AtTrained, AtEnd, CheckpointOwes, SavedAtReturn, [OverlapNext]_overlapVars
              PROVE  OverlapInv'
  BY DEF OverlapInv
<1>. /\ global_steps \in Nat /\ read \in Nat /\ rollout_version \in Nat
     /\ base \in Nat /\ restarted \in Nat /\ validated.step \in Int /\ validated.version \in Nat
     /\ LastOf(lineage) \in Nat /\ LastOf(checkpoint.lineage) \in Nat
     /\ Len(lineage) \in Nat /\ Len(checkpoint.lineage) \in Nat /\ checkpoint.read \in Nat
     /\ in_hand.number \in Nat /\ in_hand.version \in Nat
     /\ batch_data_future.number \in Nat /\ batch_data_future.version \in Nat
  BY LastIsNumber DEF Checkpoints, OverlapTypeOK, Batches
<1>1. CASE ValidateFirst
  <2>1. OverlapTypeOK' BY <1>1 DEF ValidateFirst, Validation, OverlapTypeOK
  <2>. QED BY <1>1, <2>1, SMTT(60) DEF ValidateFirst, Validation, OverlapInv, AtStart, AtWait, AtTrain, AtTrained,
       AtEnd, CheckpointOwes, SavedAtReturn
<1>2. CASE FirstGeneration
  <2>1. CASE GenerationStarted /\ batch_data_future' \in Batches /\ batch_data_future' # NoBatch
    <3>1. fit' = "wait_prev_gen" BY <1>2, <2>1 DEF FirstGeneration
    <3>2. OverlapTypeOK' BY <1>2, <2>1, <3>1 DEF FirstGeneration, GenerationStarted, OverlapTypeOK
    <3>3. NextIs(batch_data_future)' /\ validated'.step < global_steps'
      <4>1. /\ Version = base /\ LastOf(lineage) <= read /\ read - Version <= restarted
            /\ validated.step <= global_steps
        BY <1>2 DEF FirstGeneration, AtStart
      <4>2. /\ lineage' = lineage /\ base' = base /\ restarted' = restarted
            /\ validated' = validated /\ global_steps' = global_steps + 1
        BY <1>2 DEF FirstGeneration
      <4>3. /\ batch_data_future'.number = read + 1 /\ batch_data_future'.version = Version
            /\ read' = read + 1 /\ rollout_version' = Version
        BY <2>1 DEF GenerationStarted
      <4>4. Version' = Version /\ Lag' = 0
        BY <4>1, <4>2 DEF Lag
      <4>5. LastOf(lineage)' = LastOf(lineage) /\ LastOf(lineage)' < read'
        BY <4>1, <4>2, <4>3
      <4>6. read' - 1 - Version' <= restarted'
        BY <4>1, <4>2, <4>3, <4>4
      <4>7. /\ batch_data_future'.number = read' /\ batch_data_future'.version = Version' - Lag'
            /\ rollout_version' = batch_data_future'.version
        BY <4>3, <4>4
      <4>8. validated'.step < global_steps'
        BY <4>1, <4>2
      <4>. QED BY <4>5, <4>6, <4>7, <4>8 DEF NextIs
    <3>4. (base <= Version)' /\ Increasing(lineage)' /\ CheckpointOwes'
      BY <1>2 DEF FirstGeneration, CheckpointOwes
    <3>5. AtStart' /\ AtTrain' /\ AtTrained' /\ AtEnd' /\ SavedAtReturn'
      BY <3>1 DEF AtStart, AtTrain, AtTrained, AtEnd, SavedAtReturn
    <3>6. AtWait'
      BY <3>1, <3>3 DEF AtWait
    <3>. QED BY <3>2, <3>4, <3>5, <3>6 DEF OverlapInv
  <2>2. CASE NoneStarted /\ batch_data_future' \in Batches
    <3>1. fit' = "ended" BY <1>2, <2>2 DEF FirstGeneration, NoneStarted
    <3>2. OverlapTypeOK' BY <1>2, <2>2, <3>1 DEF FirstGeneration, NoneStarted, OverlapTypeOK
    <3>. QED BY <1>2, <2>2, <3>1, <3>2 DEF FirstGeneration, NoneStarted, OverlapInv, AtStart, AtWait,
         AtTrain, AtTrained, AtEnd, CheckpointOwes, SavedAtReturn
  <2>. QED BY <1>2, <2>1, <2>2, StartedOrNot DEF FirstGeneration
<1>3. CASE GenerationEnds
  <2>1. /\ batch_data_future'.number = batch_data_future.number
        /\ batch_data_future'.version = batch_data_future.version
        /\ batch_data_future' \in Batches
    BY <1>3 DEF GenerationEnds, OverlapTypeOK, Batches
  <2>2. batch_data_future' # NoBatch
    <3>1. batch_data_future'.ready = TRUE BY <1>3 DEF GenerationEnds, OverlapTypeOK, Batches
    <3>. QED BY <3>1 DEF NoBatch
  <2>3. OverlapTypeOK' BY <1>3, <2>1 DEF GenerationEnds, OverlapTypeOK
  <2>4. AtWait' BY <1>3, <2>1 DEF GenerationEnds, AtWait, NextIs, Lag, IsLastStep
  <2>5. AtTrain' /\ AtTrained'
    BY <1>3, <2>1, <2>2 DEF GenerationEnds, AtTrain, AtTrained, Lag, Ahead, Reason, IsLastStep
  <2>. QED BY <1>3, <2>3, <2>4, <2>5 DEF GenerationEnds, OverlapInv, AtStart, AtEnd, CheckpointOwes,
       SavedAtReturn
<1>4. CASE WaitPrevGen
  <2>1. OverlapTypeOK' BY <1>4 DEF WaitPrevGen, OverlapTypeOK
  <2>2. NextIs(in_hand)' BY <1>4 DEF WaitPrevGen, AtWait, NextIs, Lag
  <2>3. batch_data_future # NoBatch
    <3>1. batch_data_future.ready /\ ~NoBatch.ready BY <1>4 DEF WaitPrevGen, NoBatch
    <3>. QED BY <3>1
  <2>4. CASE IsLastStep
    BY <1>4, <2>1, <2>2, <2>3, <2>4 DEF WaitPrevGen, OverlapInv, AtStart, AtWait, NextIs, AtTrain,
       AtTrained, AtEnd, CheckpointOwes, SavedAtReturn, Lag, Ahead, Reason, IsLastStep
  <2>5. CASE ~IsLastStep
    BY <1>4, <2>1, <2>2, <2>5 DEF WaitPrevGen, OverlapInv, AtStart, AtWait, AtTrain,
       AtTrained, AtEnd, CheckpointOwes, SavedAtReturn, IsLastStep
  <2>. QED BY <2>4, <2>5
<1>5. CASE NextGeneration
  <2>1. CASE GenerationStarted /\ batch_data_future' \in Batches /\ batch_data_future' # NoBatch
    <3>1. OverlapTypeOK' BY <1>5, <2>1 DEF NextGeneration, GenerationStarted, OverlapTypeOK
    <3>2. Ahead' BY <1>5, <2>1 DEF NextGeneration, AtWait, Ahead, IsLastStep
    <3>3. AtTrain'
      BY <1>5, <2>1, <3>2 DEF NextGeneration, GenerationStarted, AtWait, NextIs, Lag, AtTrain,
         Reason
    <3>. QED BY <1>5, <3>1, <3>3 DEF NextGeneration, OverlapInv, AtStart, AtWait, AtTrained, AtEnd,
         CheckpointOwes, SavedAtReturn
  <2>2. CASE NoneStarted /\ batch_data_future' \in Batches
    <3>1. OverlapTypeOK' BY <1>5, <2>2 DEF NextGeneration, NoneStarted, OverlapTypeOK
    <3>2. ~Ahead' /\ Reason'
      BY <1>5, <2>2 DEF NextGeneration, NoneStarted, Ahead, Reason
    <3>3. AtTrain'
      BY <1>5, <2>2, <3>2 DEF NextGeneration, NoneStarted, AtWait, NextIs, Lag, AtTrain
    <3>. QED BY <1>5, <3>1, <3>3 DEF NextGeneration, OverlapInv, AtStart, AtWait, AtTrained, AtEnd,
         CheckpointOwes, SavedAtReturn
  <2>. QED BY <1>5, <2>1, <2>2, StartedOrNot DEF NextGeneration
<1>6. CASE TrainStep
  <2>1. /\ lineage' \in Seq(Nat) /\ Len(lineage)' = Len(lineage) + 1
        /\ Increasing(lineage)' /\ LastOf(lineage)' = in_hand.number
    BY <1>6, Appended DEF TrainStep, AtTrain, OverlapTypeOK
  <2>2. OverlapTypeOK' BY <1>6, <2>1 DEF TrainStep, OverlapTypeOK
  <2>3. Ahead' = Ahead /\ Reason' = Reason
    BY <1>6 DEF TrainStep, Ahead, Reason, IsLastStep
  <2>4. AtTrained'
    <3>1. ~Ahead => in_hand.version = Version - Lag /\ rollout_version = in_hand.version
      BY <1>6 DEF TrainStep, AtTrain
    <3>2. ~Ahead => rollout_version = Len(lineage)' - (IF Len(lineage)' - base = 1 THEN 1 ELSE 2)
      <4>1. CASE Len(lineage) = base BY <2>1, <3>1, <4>1 DEF Lag
      <4>2. CASE Len(lineage) # base
        <5>1. ~Ahead => rollout_version = Len(lineage) - 1 BY <3>1, <4>2 DEF Lag
        <5>2. Len(lineage)' - base # 1 BY <2>1, <4>2
        <5>3. Len(lineage) - 1 = Len(lineage)' - 2 BY <2>1
        <5>. QED BY <5>1, <5>2, <5>3
      <4>. QED BY <4>1, <4>2
    <3>3. Ahead => /\ read = in_hand.number + 1 /\ batch_data_future.number = read
                   /\ batch_data_future.version = Len(lineage)' - 1
                   /\ rollout_version = Len(lineage)' - 1
      BY <1>6, <2>1 DEF TrainStep, AtTrain
    <3>4. /\ in_hand.number - Len(lineage)' <= restarted /\ Len(lineage)' > base
          /\ ~Ahead => read = in_hand.number
          /\ Reason /\ validated.step < global_steps
      <4>1. in_hand.number - 1 - Len(lineage) <= restarted BY <1>6 DEF TrainStep, AtTrain
      <4>2. ~Ahead => read = in_hand.number BY <1>6 DEF TrainStep, AtTrain
      <4>3. Reason /\ validated.step < global_steps BY <1>6 DEF TrainStep, AtTrain
      <4>4. in_hand.number - Len(lineage)' <= restarted BY <2>1, <4>1
      <4>5. Len(lineage)' > base BY <2>1
      <4>. QED BY <4>2, <4>3, <4>4, <4>5
    <3>5. /\ fit' = "trained" /\ in_hand' = in_hand /\ read' = read /\ base' = base
          /\ restarted' = restarted /\ rollout_version' = rollout_version
          /\ batch_data_future' = batch_data_future /\ validated' = validated
          /\ global_steps' = global_steps
      BY <1>6 DEF TrainStep
    <3>6. (LastOf(lineage) = in_hand.number /\ in_hand.number - Version <= restarted)'
      BY <2>1, <3>4, <3>5
    <3>7. (Ahead => /\ read = in_hand.number + 1 /\ batch_data_future.number = read
                    /\ batch_data_future.version = Version - 1
                    /\ rollout_version = Version - 1)'
      BY <2>3, <3>3, <3>5
    <3>8. (~Ahead => /\ read = in_hand.number
                     /\ rollout_version = Version - (IF Version - base = 1 THEN 1 ELSE 2))'
      BY <2>3, <3>2, <3>4, <3>5
    <3>9. (Version > base)' /\ Reason' /\ validated'.step < global_steps'
      BY <2>3, <3>4, <3>5
    <3>. QED BY <3>5, <3>6, <3>7, <3>8, <3>9 DEF AtTrained
  <2>. QED BY <1>6, <2>1, <2>2, <2>4 DEF TrainStep, OverlapInv, AtStart, AtWait, AtTrain, AtEnd,
       CheckpointOwes, SavedAtReturn
<1>7. CASE Validate
  <2>1. OverlapTypeOK' BY <1>7 DEF Validate, Validation, OverlapTypeOK
  <2>2. Ahead' = Ahead /\ Reason' = Reason BY <1>7 DEF Validate, Ahead, Reason, IsLastStep
  <2>3. AtTrained' BY <1>7, <2>2 DEF Validate, Validation, AtTrained
  <2>. QED BY <1>7, <2>1, <2>3 DEF Validate, OverlapInv, AtStart, AtWait, AtTrain, AtEnd,
       CheckpointOwes, SavedAtReturn
<1>8. CASE SaveAndGoOn
  <2>1. /\ fit = "save" /\ global_steps' = global_steps + 1
        /\ UNCHANGED <<lineage, base, rollout_version, read, limit, batch_data_future, in_hand,
                       validated, reading_failed, restarted>>
    BY <1>8 DEF SaveAndGoOn
  <2>2. LastOf(lineage) <= read /\ read - Version <= restarted + 1
    <3>1. read = in_hand.number \/ read = in_hand.number + 1 BY <2>1 DEF AtTrained
    <3>2. LastOf(lineage) = in_hand.number /\ in_hand.number - Len(lineage) <= restarted
      BY <2>1 DEF AtTrained
    <3>. QED BY <3>1, <3>2, SMTT(60)
  <2>3. checkpoint' \in Checkpoints /\ CheckpointOwes' /\ (IsLastStep => SavedAtReturn')
    <3>1. CASE DueEvery(SaveFreq)
      <4>1. checkpoint' = [step |-> global_steps, lineage |-> lineage, read |-> read]
        BY <1>8, <3>1 DEF SaveAndGoOn, PositionSaved
      <4>2. /\ checkpoint'.lineage = lineage /\ checkpoint'.read = read
            /\ checkpoint'.step = global_steps /\ checkpoint' \in Checkpoints
        BY <4>1 DEF Checkpoints, OverlapTypeOK
      <4>3. CheckpointOwes' BY <2>1, <2>2, <4>2 DEF CheckpointOwes
      <4>4. IsLastStep => fit' = "returned" BY <1>8 DEF SaveAndGoOn
      <4>. QED BY <2>1, <4>2, <4>3, <4>4 DEF SavedAtReturn
    <3>2. CASE ~DueEvery(SaveFreq)
      BY <1>8, <2>1, <3>2 DEF SaveAndGoOn, DueEvery, CheckpointOwes, OverlapTypeOK
    <3>. QED BY <3>1, <3>2
  <2>4. OverlapTypeOK' /\ validated'.step < global_steps'
    <3>1. fit' \in {"returned", "ended", "wait_prev_gen"} BY <1>8 DEF SaveAndGoOn
    <3>2. validated.step <= global_steps BY <2>1 DEF AtTrained
    <3>. QED BY <2>1, <2>3, <3>1, <3>2 DEF OverlapTypeOK
  <2>5. CASE IsLastStep
    <3>1. fit' = "returned" BY <1>8, <2>5 DEF SaveAndGoOn
    <3>. QED BY <2>1, <2>3, <2>4, <2>5, <3>1 DEF OverlapInv, AtStart, AtWait, AtTrain, AtTrained, AtEnd
  <2>6. CASE ~IsLastStep /\ batch_data_future = NoBatch
    <3>1. fit' = "ended" BY <1>8, <2>6 DEF SaveAndGoOn
    <3>2. SavedAtReturn' BY <2>1, <2>6, <3>1 DEF SavedAtReturn, AtTrained, Reason
    <3>. QED BY <2>1, <2>3, <2>4, <3>1, <3>2 DEF OverlapInv, AtStart, AtWait, AtTrain, AtTrained, AtEnd
  <2>7. CASE ~IsLastStep /\ batch_data_future # NoBatch
    <3>1. fit' = "wait_prev_gen" BY <1>8, <2>7 DEF SaveAndGoOn
    <3>2. NextIs(batch_data_future)'
      <4>1. /\ batch_data_future.number = read /\ read = in_hand.number + 1
            /\ batch_data_future.version = Len(lineage) - 1
            /\ rollout_version = Len(lineage) - 1
            /\ LastOf(lineage) = in_hand.number /\ in_hand.number - Len(lineage) <= restarted
            /\ Len(lineage) > base
        BY <2>1, <2>7 DEF AtTrained, Ahead
      <4>2. Lag = 1 BY <4>1 DEF Lag
      <4>3. NextIs(batch_data_future)
        <5>1. LastOf(lineage) < read BY <4>1
        <5>2. read - 1 - Len(lineage) <= restarted BY <4>1
        <5>. QED BY <4>1, <4>2, <5>1, <5>2 DEF NextIs
      <4>4. Lag' = Lag BY <2>1 DEF Lag
      <4>. QED BY <2>1, <4>3, <4>4 DEF NextIs
    <3>. QED BY <2>1, <2>3, <2>4, <3>1, <3>2 DEF OverlapInv, AtStart, AtWait, AtTrain, AtTrained, AtEnd,
         SavedAtReturn
  <2>. QED BY <2>5, <2>6, <2>7
<1>9. CASE CrashAndResume
  <2>1. /\ lineage' = checkpoint.lineage /\ read' = checkpoint.read /\ base' = Len(checkpoint.lineage)
        /\ global_steps' = checkpoint.step /\ restarted' = restarted + 1 /\ fit' = "loaded"
        /\ validated' = [step |-> -1, version |-> 0] /\ rollout_version' = 0
        /\ batch_data_future' = NoBatch /\ in_hand' = NoBatch /\ checkpoint' = checkpoint
    BY <1>9 DEF CrashAndResume, BeginFrom
  <2>2. checkpoint.lineage \in Seq(Nat) /\ checkpoint.read \in Nat /\ checkpoint.step \in Nat
    BY DEF Checkpoints, OverlapTypeOK
  <2>3. OverlapTypeOK'
    BY <2>1, <2>2 DEF OverlapTypeOK, NoBatch, Batches
  <2>4. LastOf(lineage)' = LastOf(checkpoint.lineage) /\ Increasing(lineage)'
        /\ Len(lineage)' = Len(checkpoint.lineage)
    BY <2>1 DEF CheckpointOwes, LastOf, Increasing
  <2>5. CheckpointOwes' BY <2>1 DEF CheckpointOwes
  <2>6. AtStart'
    <3>1. /\ LastOf(checkpoint.lineage) <= checkpoint.read
          /\ checkpoint.read - Len(checkpoint.lineage) <= restarted + 1
      BY DEF CheckpointOwes
    <3>2. (Version = base)' /\ (read - Version <= restarted)'
      BY <2>1, <2>4, <3>1
    <3>3. (LastOf(lineage) <= read)' /\ (validated.step < global_steps)'
      BY <2>1, <2>2, <2>4, <3>1
    <3>. QED BY <2>1, <3>2, <3>3 DEF AtStart
  <2>. QED BY <2>1, <2>3, <2>4, <2>5, <2>6 DEF OverlapInv, AtWait, AtTrain, AtTrained, AtEnd,
       SavedAtReturn
<1>10. CASE UNCHANGED overlapVars
  BY <1>10 DEF overlapVars, memory, OverlapInv, OverlapTypeOK, AtStart, AtWait, NextIs, Lag,
     AtTrain,
     AtTrained, AtEnd, CheckpointOwes, SavedAtReturn, Ahead, Reason, IsLastStep
<1>. QED BY <1>1, <1>2, <1>3, <1>4, <1>5, <1>6, <1>7, <1>8, <1>9, <1>10
         DEF OverlapNext, OverlapSteps

LEMMA OverlapAlways == OverlapSpec => []OverlapInv
<1>. QED BY OverlapInitially, OverlapPreserved, PTL DEF OverlapSpec

(* Every batch is trained on weights one update newer than those it was    *)
(* generated with, and a validation tests weights one or two updates old:  *)
(* for any dataloader, number of steps and restarts (fit and               *)
(* _async_gen_next_batch of one_step_off_policy/ray_trainer.py).           *)
THEOREM OverlapStaysOneStep == OverlapSpec => []OneStepBehind
<1>1. OverlapInv => OneStepBehind
  <2>1. OverlapInv => TrainedOneBehind
    <3>. SUFFICES ASSUME OverlapInv, fit = "train"
                  PROVE  Version - in_hand.version = IF Version = base THEN 0 ELSE 1
      BY DEF TrainedOneBehind
    <3>1. Version \in Nat BY DEF OverlapInv, OverlapTypeOK, Version
    <3>2. in_hand.version = Version - Lag BY DEF OverlapInv, AtTrain
    <3>3. Lag = IF Version = base THEN 0 ELSE 1 BY DEF Lag
    <3>4. Lag \in {0, 1} BY <3>3
    <3>5. Version - (Version - Lag) = Lag BY <3>1, <3>4
    <3>. QED BY <3>2, <3>3, <3>5
  <2>2. OverlapInv => ValidatedBehind
    <3>. SUFFICES ASSUME OverlapInv PROVE ValidatedBehind
      OBVIOUS
    <3>1. fit = "first" => validated.version = 0 BY DEF OverlapInv, AtStart
    <3>2. ASSUME fit = "save", validated.step = global_steps
          PROVE  UpdatesMissing = IF Ahead \/ Version - base = 1 THEN 1 ELSE 2
      <4>1. validated.version = rollout_version BY <3>2 DEF OverlapInv, AtTrained
      <4>2. Version \in Nat /\ rollout_version \in Nat BY DEF OverlapInv, OverlapTypeOK, Version
      <4>3. Ahead => rollout_version = Version - 1 BY <3>2 DEF OverlapInv, AtTrained
      <4>4. ~Ahead => rollout_version = Version - (IF Version - base = 1 THEN 1 ELSE 2)
        BY <3>2 DEF OverlapInv, AtTrained
      <4>. QED BY <4>1, <4>2, <4>3, <4>4 DEF UpdatesMissing
    <3>. QED BY <3>1, <3>2 DEF ValidatedBehind
  <2>. QED BY <2>1, <2>2 DEF OneStepBehind
<1>. QED BY <1>1, OverlapAlways, PTL

(* No batch is trained on twice and a restart loses at most the one being  *)
(* generated, and fit returns with its last weights saved (the same, with  *)
(* _save_checkpoint and _load_checkpoint).                                 *)
THEOREM OverlapLosesInFlightOnly == OverlapSpec => []OverlapKept
<1>1. OverlapInv => OverlapKept
  BY LastIsNumber, SMTT(60) DEF OverlapInv, OverlapTypeOK, Batches, OverlapKept, InFlightOnly, AtStart,
     AtWait, NextIs, AtTrain,
     AtTrained, AtEnd, Version
<1>. QED BY <1>1, OverlapAlways, PTL

-------------------------------------------------------------------------------
(* The hybrid engine.                                                      *)
(* For any replicas, settings, steps and restarts.  HybridInv says what is *)
(* true of a worker at each place between the two modes, and at which places*)
(* it can be in each turn of the manager; only workers in trainer mode leave*)
(* the driver to itself.                                                   *)

Streams == {"torch", "engine", "gen_dp_rank"}
States == [stream : Streams, drawn : Nat]
ToRollout == {"load_params", "resume_weights", "update_weights", "resume_kv_cache"}
Places == {"trainer", "rollout", "release"} \cup ToRollout
Jobs == {"load", "log_prob", "update", "save"}

HybridTypeOK ==
  /\ engine \in Engines
  /\ version \in Nat /\ draws \in Nat /\ step \in Nat
  /\ worker_at \in [GpuWorkers -> Places]
  /\ gpu \in [GpuWorkers -> SUBSET {"params", "optimizer", "weights", "kv_cache"}]
  /\ base_weights \in [GpuWorkers -> Int] /\ lora_weights \in [GpuWorkers -> Int]
  /\ DOMAIN base_sync_done = GpuWorkers
  /\ rng \in [GpuWorkers -> States] /\ torch_random_states \in [GpuWorkers -> States]
  /\ gen_random_states \in [GpuWorkers -> States]
  /\ DOMAIN cached = Replicas

(* Who may move: the places of the workers in each turn, and what the      *)
(* driver is at.                                                           *)
Turns ==
  /\ turn \in {"wake", "generate", "sleep"}
  /\ turn = "wake" => \A w \in GpuWorkers : worker_at[w] \in Places \ {"release"}
  /\ turn = "generate" => \A w \in GpuWorkers : worker_at[w] = "rollout"
  /\ turn = "sleep" => \A w \in GpuWorkers : worker_at[w] \notin ToRollout
  /\ driver \notin GenerationCalls \cup {"sleep_first"} =>
       turn = "wake" /\ \A w \in GpuWorkers : worker_at[w] = "trainer"
  /\ working => /\ driver \in Jobs
                /\ driver = "load" => kept # Nowhere
                /\ driver = "update" => CriticWarmup <= step

(* What the engine of a worker holds on the way to its next generation.    *)
Current(w) ==
  /\ engine.lora => base_weights[w] = 0 /\ lora_weights[w] = version
  /\ ~engine.lora => base_weights[w] = version
Held(w) ==
  /\ engine.lora => base_sync_done[w]
  /\ ~engine.lora => lora_weights[w] = Lost
  /\ engine.lora /\ engine.sleep_level = 1 => base_weights[w] = 0
  /\ turn # "sleep" /\ worker_at[w] \in {"resume_kv_cache", "rollout"} => Current(w)
Weights == \A w \in GpuWorkers : Held(w)

Caches ==
  \A r \in Replicas :
    /\ turn = "wake" => cached[r] = {}
    /\ turn = "generate" => cached[r] \subseteq EngineWeights(r)
    /\ turn = "sleep" /\ (\E w \in r : worker_at[w] # "rollout") => cached[r] = {}

OnDevice(w) ==
  /\ "kv_cache" \in gpu[w] => worker_at[w] \in {"rollout", "release"}
  /\ "weights" \in gpu[w] =>
       worker_at[w] \in {"update_weights", "resume_kv_cache", "rollout", "release"}
  /\ "params" \in gpu[w] =>
       \/ worker_at[w] \in {"resume_weights", "update_weights"}
       \/ worker_at[w] = "trainer" /\ working
  /\ "optimizer" \in gpu[w] => worker_at[w] = "trainer" /\ working
Memory == engine.param_offload /\ engine.free_cache_engine => \A w \in GpuWorkers : OnDevice(w)

(* The state of training is in the generator or put aside, that of         *)
(* generation the other way round.                                         *)
InRollout(w) == worker_at[w] \in {"rollout", "release"}
OfTraining(w) == IF InRollout(w) THEN torch_random_states[w] ELSE rng[w]
OfGeneration(w) == IF InRollout(w) THEN rng[w] ELSE gen_random_states[w]
Random ==
  /\ \A w \in GpuWorkers : /\ OfTraining(w) = [stream |-> TrainStream, drawn |-> draws]
                           /\ OfGeneration(w).stream # TrainStream
  /\ \A r \in Replicas : \A v, w \in r : OfGeneration(v) = OfGeneration(w)

Keeps ==
  kept # Nowhere =>
    /\ kept.version \in Nat /\ kept.draws \in Nat /\ kept.step \in Nat
    /\ kept.rng = [w \in GpuWorkers |-> [stream |-> TrainStream, drawn |-> kept.draws]]

HybridInv == HybridTypeOK /\ Turns /\ Weights /\ Caches /\ Memory /\ Random /\ Keeps
-------------------------------------------------------------------------------
(* The next draw of a stream. *)
LEMMA Drawn ==
  ASSUME NEW s \in States
  PROVE  Draw(s) \in States /\ Draw(s) = [stream |-> s.stream, drawn |-> s.drawn + 1]
<1>1. s = [stream |-> s.stream, drawn |-> s.drawn] /\ s.stream \in Streams /\ s.drawn \in Nat
  BY DEF States
<1>2. Draw(s) = [stream |-> s.stream, drawn |-> s.drawn + 1] BY <1>1 DEF Draw
<1>. QED BY <1>1, <1>2 DEF States

(* Every action of a worker, of a server and of the driver keeps all of it. *)
LEMMA HybridPreserved == HybridInv /\ [HybridNext]_hybridVars => HybridInv'
<1>. USE EngineAssumption DEF rareVars, driverVars, callVars, modeVars, weightVars, rngVars
<1>. SUFFICES ASSUME HybridTypeOK, Turns, Weights, Caches, Memory, Random, Keeps,
                     [HybridNext]_hybridVars
              PROVE  HybridInv'
  BY DEF HybridInv
<1>0. /\ \A r \in Replicas : r \subseteq GpuWorkers /\ r # {}
      /\ \A r, s \in Replicas : r = s \/ r \cap s = {}
  BY DEF GpuWorkers
<1>. USE <1>0
<1>1. ASSUME NEW r \in Replicas, ServerWakeUp(r) PROVE HybridInv'
  <2>. USE <1>1 DEF ServerWakeUp, SendTo
  <2>1. HybridTypeOK' BY DEF HybridTypeOK, Places, ToRollout
  <2>2. Turns' BY DEF Turns, Places, ToRollout
  <2>3. Weights' BY DEF Weights, Held, Current
  <2>4. Caches' BY DEF Caches
  <2>5. Memory' BY DEF Turns, Memory, OnDevice, GenerationCalls, Jobs
  <2>6. Random' BY DEF Random, OfTraining, OfGeneration, InRollout, TrainStream
  <2>7. Keeps' BY DEF Keeps, TrainStream
  <2>. QED BY <2>1, <2>2, <2>3, <2>4, <2>5, <2>6, <2>7 DEF HybridInv
<1>2. ASSUME NEW r \in Replicas, GenerateOn(r) PROVE HybridInv'
  <2>. USE <1>2 DEF GenerateOn, EngineWeights
  <2>1. HybridTypeOK'
    <3>1. \A w \in GpuWorkers : Draw(rng[w]) \in States BY Drawn DEF HybridTypeOK
    <3>. QED BY <3>1 DEF HybridTypeOK
  <2>2. Turns' BY DEF Turns
  <2>3. Weights' BY DEF Weights, Held, Current
  <2>4. Caches' BY DEF Caches
  <2>5. Memory' BY DEF Memory, OnDevice
  <2>6. Random'
    <3>1. \A w \in GpuWorkers : Draw(rng[w]).stream = rng[w].stream
      BY Drawn DEF HybridTypeOK
    <3>2. \A w \in GpuWorkers : InRollout(w) BY DEF Turns, InRollout
    <3>3. \A s \in Replicas : \A v, w \in s : rng'[v] = rng'[w]
      BY <3>2 DEF Random, OfGeneration
    <3>4. \A w \in GpuWorkers : OfTraining(w)' = [stream |-> TrainStream, drawn |-> draws]'
      BY <3>2 DEF Random, OfTraining, InRollout, TrainStream
    <3>5. \A w \in GpuWorkers : rng'[w].stream # TrainStream'
      <4>1. \A w \in GpuWorkers : rng[w].stream # TrainStream
        BY <3>2 DEF Random, OfGeneration
      <4>2. TrainStream' = TrainStream BY DEF TrainStream
      <4>. QED BY <4>1, <4>2, <3>1
    <3>6. \A w \in GpuWorkers : OfGeneration(w)' = rng'[w]
      BY <3>2 DEF OfGeneration, InRollout
    <3>7. \A s \in Replicas : \A v, w \in s : OfGeneration(v)' = OfGeneration(w)'
      BY <3>3, <3>6
    <3>8. \A w \in GpuWorkers : OfGeneration(w)'.stream # TrainStream'
      BY <3>5, <3>6
    <3>. QED BY <3>4, <3>7, <3>8 DEF Random
  <2>7. Keeps' BY DEF Keeps, TrainStream
  <2>. QED BY <2>1, <2>2, <2>3, <2>4, <2>5, <2>6, <2>7 DEF HybridInv
<1>3. ASSUME NEW r \in Replicas, ServerSleep(r) PROVE HybridInv'
  <2>. USE <1>3 DEF ServerSleep, SendTo
  <2>1. HybridTypeOK' BY DEF HybridTypeOK, Places
  <2>2. Turns' BY DEF Turns, ToRollout
  <2>3. Weights' BY DEF Weights, Held, Current
  <2>4. Caches' BY DEF HybridTypeOK, Caches
  <2>5. Memory' BY DEF Memory, OnDevice
  <2>6. Random' BY DEF Random, OfTraining, OfGeneration, InRollout, TrainStream
  <2>7. Keeps' BY DEF Keeps, TrainStream
  <2>. QED BY <2>1, <2>2, <2>3, <2>4, <2>5, <2>6, <2>7 DEF HybridInv
<1>4. ASSUME NEW w \in GpuWorkers, LoadParams(w) PROVE HybridInv'
  <2>. USE <1>4 DEF LoadParams
  <2>1. HybridTypeOK' BY DEF HybridTypeOK, Places, ToRollout
  <2>2. Turns' BY DEF Turns, Places, ToRollout
  <2>3. Weights' BY DEF Weights, Held, Current
  <2>4. Caches' BY DEF Turns, Caches
  <2>5. Memory' BY DEF HybridTypeOK, Memory, OnDevice
  <2>6. Random' BY DEF Random, OfTraining, OfGeneration, InRollout, TrainStream
  <2>7. Keeps' BY DEF Keeps, TrainStream
  <2>. QED BY <2>1, <2>2, <2>3, <2>4, <2>5, <2>6, <2>7 DEF HybridInv
<1>5. ASSUME NEW w \in GpuWorkers, ResumeWeights(w) PROVE HybridInv'
  <2>. USE <1>5 DEF ResumeWeights, Offloaded
  <2>1. HybridTypeOK' BY DEF HybridTypeOK, Places, ToRollout
  <2>2. Turns' BY DEF Turns, Places, ToRollout
  <2>3. Weights' BY DEF Weights, Held, Current
  <2>4. Caches' BY DEF Turns, Caches
  <2>5. Memory' BY DEF HybridTypeOK, Memory, OnDevice
  <2>6. Random' BY DEF Random, OfTraining, OfGeneration, InRollout, TrainStream
  <2>7. Keeps' BY DEF Keeps, TrainStream
  <2>. QED BY <2>1, <2>2, <2>3, <2>4, <2>5, <2>6, <2>7 DEF HybridInv
<1>6. ASSUME NEW w \in GpuWorkers, UpdateWeights(w) PROVE HybridInv'
  <2>. USE <1>6 DEF UpdateWeights, Offloaded, BaseSent, AdapterSent, Lost
  <2>1. HybridTypeOK' BY DEF HybridTypeOK, Places, ToRollout
  <2>2. Turns' BY DEF Turns, Places, ToRollout
  <2>3. Weights' BY DEF HybridTypeOK, Weights, Held, Current
  <2>4. Caches' BY DEF Turns, Caches
  <2>5. Memory' BY DEF HybridTypeOK, Memory, OnDevice
  <2>6. Random' BY DEF Random, OfTraining, OfGeneration, InRollout, TrainStream
  <2>7. Keeps' BY DEF Keeps, TrainStream
  <2>. QED BY <2>1, <2>2, <2>3, <2>4, <2>5, <2>6, <2>7 DEF HybridInv
<1>7. ASSUME NEW w \in GpuWorkers, ResumeKvCache(w) PROVE HybridInv'
  <2>. USE <1>7 DEF ResumeKvCache
  <2>1. HybridTypeOK' BY DEF HybridTypeOK, Places
  <2>2. Turns' BY DEF HybridTypeOK, Turns, Places
  <2>3. Weights' BY DEF Weights, Held, Current
  <2>4. Caches' BY DEF Turns, Caches
  <2>5. Memory' BY DEF HybridTypeOK, Memory, OnDevice
  <2>6. Random' BY DEF HybridTypeOK, Random, OfTraining, OfGeneration, InRollout, TrainStream
  <2>7. Keeps' BY DEF Keeps, TrainStream
  <2>. QED BY <2>1, <2>2, <2>3, <2>4, <2>5, <2>6, <2>7 DEF HybridInv
<1>8. ASSUME NEW w \in GpuWorkers, Release(w) PROVE HybridInv'
  <2>. USE <1>8 DEF Release, Lost
  <2>1. HybridTypeOK' BY DEF HybridTypeOK, Places
  <2>2. Turns' BY DEF Turns, ToRollout
  <2>3. Weights' BY DEF Weights, Held, Current
  <2>4. Caches' BY DEF Turns, Caches
  <2>5. Memory' BY DEF HybridTypeOK, Memory, OnDevice
  <2>6. Random' BY DEF HybridTypeOK, Random, OfTraining, OfGeneration, InRollout, TrainStream
  <2>7. Keeps' BY DEF Keeps, TrainStream
  <2>. QED BY <2>1, <2>2, <2>3, <2>4, <2>5, <2>6, <2>7 DEF HybridInv
<1>9. ASSUME SendRequests PROVE HybridInv'
  <2>. USE <1>9 DEF SendRequests, Everyone
  <2>1. HybridTypeOK' BY DEF HybridTypeOK
  <2>2. Turns' BY DEF Turns
  <2>3. Weights' BY DEF Weights, Held, Current
  <2>4. Caches' BY DEF Caches
  <2>5. Memory' BY DEF Memory, OnDevice
  <2>6. Random' BY DEF Random, OfTraining, OfGeneration, InRollout, TrainStream
  <2>7. Keeps' BY DEF Keeps, TrainStream
  <2>. QED BY <2>1, <2>2, <2>3, <2>4, <2>5, <2>6, <2>7 DEF HybridInv
<1>10. ASSUME Concat PROVE HybridInv'
  <2>. USE <1>10 DEF Concat
  <2>1. HybridTypeOK' BY DEF HybridTypeOK
  <2>2. Turns' BY DEF Turns, ToRollout
  <2>3. Weights' BY DEF Weights, Held, Current
  <2>4. Caches' BY DEF Turns, Caches
  <2>5. Memory' BY DEF Memory, OnDevice
  <2>6. Random' BY DEF Random, OfTraining, OfGeneration, InRollout, TrainStream
  <2>7. Keeps' BY DEF Keeps, TrainStream
  <2>. QED BY <2>1, <2>2, <2>3, <2>4, <2>5, <2>6, <2>7 DEF HybridInv
<1>11. ASSUME CallDone PROVE HybridInv'
  <2>. USE <1>11 DEF CallDone, Everyone, AfterCall
  <2>1. HybridTypeOK' BY DEF HybridTypeOK
  <2>2. Turns' BY DEF HybridTypeOK, Turns, GenerationCalls, Jobs
  <2>3. Weights' BY DEF Weights, Held, Current
  <2>4. Caches' BY DEF Caches
  <2>5. Memory' BY DEF Memory, OnDevice
  <2>6. Random' BY DEF Random, OfTraining, OfGeneration, InRollout, TrainStream
  <2>7. Keeps' BY DEF Keeps, TrainStream
  <2>. QED BY <2>1, <2>2, <2>3, <2>4, <2>5, <2>6, <2>7 DEF HybridInv
<1>12. ASSUME Begin PROVE HybridInv'
  <2>. USE <1>12 DEF Begin, Needed
  <2>1. HybridTypeOK' BY DEF HybridTypeOK
  <2>2. Turns' BY DEF Turns, Jobs
  <2>3. Weights' BY DEF Weights, Held, Current
  <2>4. Caches' BY DEF Caches, EngineWeights
  <2>5. Memory' BY DEF Turns, Memory, OnDevice, GenerationCalls
  <2>6. Random' BY DEF Random, OfTraining, OfGeneration, InRollout, TrainStream
  <2>7. Keeps' BY DEF Keeps, TrainStream
  <2>. QED BY <2>1, <2>2, <2>3, <2>4, <2>5, <2>6, <2>7 DEF HybridInv
<1>13. ASSUME LoadCheckpoint PROVE HybridInv'
  <2>. USE <1>13 DEF LoadCheckpoint, Finish, Offloaded
  <2>0. /\ kept.version \in Nat /\ kept.draws \in Nat /\ kept.step \in Nat
        /\ kept.rng = [w \in GpuWorkers |-> [stream |-> TrainStream, drawn |-> kept.draws]]
    BY DEF Turns, Keeps
  <2>1. HybridTypeOK'
    <3>1. [stream |-> TrainStream, drawn |-> kept.draws] \in States
      BY <2>0 DEF TrainStream, States, Streams
    <3>. QED BY <2>0, <3>1 DEF HybridTypeOK
  <2>2. Turns' BY DEF Turns, GenerationCalls
  <2>3. Weights' BY DEF Turns, Weights, Held, Current, GenerationCalls
  <2>4. Caches' BY DEF Caches, EngineWeights
  <2>5. Memory' BY DEF Memory, OnDevice
  <2>6. Random'
    <3>1. \A w \in GpuWorkers : ~InRollout(w) BY DEF Turns, InRollout, GenerationCalls
    <3>. QED BY <2>0, <3>1 DEF Random, OfTraining, OfGeneration, InRollout, TrainStream
  <2>7. Keeps' BY DEF Keeps, TrainStream
  <2>. QED BY <2>1, <2>2, <2>3, <2>4, <2>5, <2>6, <2>7 DEF HybridInv
<1>14. ASSUME NothingToLoad PROVE HybridInv'
  <2>. USE <1>14 DEF NothingToLoad
  <2>1. HybridTypeOK' BY DEF HybridTypeOK
  <2>2. Turns' BY DEF Turns, GenerationCalls
  <2>3. Weights' BY DEF Weights, Held, Current
  <2>4. Caches' BY DEF Caches, EngineWeights
  <2>5. Memory' BY DEF Memory, OnDevice
  <2>6. Random' BY DEF Random, OfTraining, OfGeneration, InRollout, TrainStream
  <2>7. Keeps' BY DEF Keeps
  <2>. QED BY <2>1, <2>2, <2>3, <2>4, <2>5, <2>6, <2>7 DEF HybridInv
<1>15. ASSUME ComputeLogProb PROVE HybridInv'
  <2>. USE <1>15 DEF ComputeLogProb, Finish, Offloaded
  <2>1. HybridTypeOK' BY DEF HybridTypeOK
  <2>2. Turns' BY DEF Turns, GenerationCalls
  <2>3. Weights' BY DEF Weights, Held, Current
  <2>4. Caches' BY DEF Caches, EngineWeights
  <2>5. Memory' BY DEF Memory, OnDevice
  <2>6. Random' BY DEF Random, OfTraining, OfGeneration, InRollout, TrainStream
  <2>7. Keeps' BY DEF Keeps, TrainStream
  <2>. QED BY <2>1, <2>2, <2>3, <2>4, <2>5, <2>6, <2>7 DEF HybridInv
<1>16. ASSUME UpdateActor PROVE HybridInv'
  <2>. USE <1>16 DEF UpdateActor, Finish, Offloaded
  <2>1. HybridTypeOK'
    <3>1. \A w \in GpuWorkers : Draw(rng[w]) \in States BY Drawn DEF HybridTypeOK
    <3>. QED BY <3>1 DEF HybridTypeOK
  <2>2. Turns' BY DEF Turns, GenerationCalls
  <2>3. Weights' BY DEF Turns, Weights, Held, Current, GenerationCalls
  <2>4. Caches' BY DEF Caches, EngineWeights
  <2>5. Memory' BY DEF Memory, OnDevice
  <2>6. Random'
    <3>1. \A w \in GpuWorkers : ~InRollout(w) BY DEF Turns, InRollout, GenerationCalls
    <3>2. \A w \in GpuWorkers : rng[w] = [stream |-> TrainStream, drawn |-> draws]
      BY <3>1 DEF Random, OfTraining
    <3>3. \A w \in GpuWorkers : Draw(rng[w]) = [stream |-> TrainStream, drawn |-> draws + 1]
      BY <3>2, Drawn DEF HybridTypeOK
    <3>. QED BY <3>1, <3>3 DEF Random, OfTraining, OfGeneration, InRollout, TrainStream
  <2>7. Keeps' BY DEF Keeps, TrainStream
  <2>. QED BY <2>1, <2>2, <2>3, <2>4, <2>5, <2>6, <2>7 DEF HybridInv
<1>17. ASSUME CriticOnly PROVE HybridInv'
  <2>. USE <1>17 DEF CriticOnly
  <2>1. HybridTypeOK' BY DEF HybridTypeOK
  <2>2. Turns' BY DEF HybridTypeOK, Turns, GenerationCalls
  <2>3. Weights' BY DEF Weights, Held, Current
  <2>4. Caches' BY DEF Caches, EngineWeights
  <2>5. Memory' BY DEF Memory, OnDevice
  <2>6. Random' BY DEF Random, OfTraining, OfGeneration, InRollout, TrainStream
  <2>7. Keeps' BY DEF Keeps, TrainStream
  <2>. QED BY <2>1, <2>2, <2>3, <2>4, <2>5, <2>6, <2>7 DEF HybridInv
<1>18. ASSUME SaveCheckpoint PROVE HybridInv'
  <2>. USE <1>18 DEF SaveCheckpoint, Finish, Offloaded
  <2>1. HybridTypeOK' BY DEF HybridTypeOK
  <2>2. Turns' BY DEF Turns, GenerationCalls
  <2>3. Weights' BY DEF Weights, Held, Current
  <2>4. Caches' BY DEF Caches, EngineWeights
  <2>5. Memory' BY DEF Memory, OnDevice
  <2>6. Random' BY DEF Random, OfTraining, OfGeneration, InRollout, TrainStream
  <2>7. Keeps'
    <3>1. \A w \in GpuWorkers : ~InRollout(w) BY DEF Turns, InRollout, GenerationCalls
    <3>2. rng = [w \in GpuWorkers |-> [stream |-> TrainStream, drawn |-> draws]]
      BY <3>1 DEF HybridTypeOK, Random, OfTraining
    <3>. QED BY <3>2 DEF HybridTypeOK, Keeps, TrainStream
  <2>. QED BY <2>1, <2>2, <2>3, <2>4, <2>5, <2>6, <2>7 DEF HybridInv
<1>19. ASSUME NextStep PROVE HybridInv'
  <2>. USE <1>19 DEF NextStep
  <2>1. HybridTypeOK' BY DEF HybridTypeOK
  <2>2. Turns' BY DEF Turns, GenerationCalls, Jobs
  <2>3. Weights' BY DEF Weights, Held, Current
  <2>4. Caches' BY DEF Caches, EngineWeights
  <2>5. Memory' BY DEF Memory, OnDevice
  <2>6. Random' BY DEF Random, OfTraining, OfGeneration, InRollout, TrainStream
  <2>7. Keeps' BY DEF Keeps, TrainStream
  <2>. QED BY <2>1, <2>2, <2>3, <2>4, <2>5, <2>6, <2>7 DEF HybridInv
<1>20. ASSUME EngineCrash PROVE HybridInv'
  <2>. USE <1>20 DEF EngineCrash, Launched, All, Stream, Resting, Lost, Nowhere
  <2>1. HybridTypeOK' BY DEF HybridTypeOK, States, Streams, Places
  <2>2. Turns' BY DEF Turns, Places, ToRollout
  <2>3. Weights' BY DEF HybridTypeOK, Weights, Held, Current
  <2>4. Caches' BY DEF Caches
  <2>5. Memory' BY DEF Memory, OnDevice
  <2>6. Random' BY DEF Random, OfTraining, OfGeneration, InRollout, TrainStream
  <2>7. Keeps' BY DEF Keeps, TrainStream
  <2>. QED BY <2>1, <2>2, <2>3, <2>4, <2>5, <2>6, <2>7 DEF HybridInv
<1>21. ASSUME UNCHANGED hybridVars PROVE HybridInv'
  <2>. USE <1>21 DEF hybridVars
  <2>1. HybridTypeOK' BY DEF HybridTypeOK
  <2>2. Turns' BY DEF Turns
  <2>3. Weights' BY DEF Weights, Held, Current
  <2>4. Caches' BY DEF Caches, EngineWeights
  <2>5. Memory' BY DEF Memory, OnDevice
  <2>6. Random' BY DEF Random, OfTraining, OfGeneration, InRollout, TrainStream
  <2>7. Keeps' BY DEF Keeps, TrainStream
  <2>. QED BY <2>1, <2>2, <2>3, <2>4, <2>5, <2>6, <2>7 DEF HybridInv
<1>. QED
  BY <1>1, <1>2, <1>3, <1>4, <1>5, <1>6, <1>7, <1>8, <1>9, <1>10, <1>11, <1>12, <1>13, <1>14,
     <1>15, <1>16, <1>17, <1>18, <1>19, <1>20, <1>21 DEF HybridNext, HybridSteps

(* A launch begins with everything on the device, for the first sleep.     *)
LEMMA HybridInitially == HybridInit => HybridInv
<1>. SUFFICES ASSUME HybridInit PROVE HybridInv
  OBVIOUS
<1>. USE EngineAssumption DEF HybridInit, Launched, All, Stream
<1>0. \A r \in Replicas : r \subseteq GpuWorkers BY DEF GpuWorkers
<1>1. HybridTypeOK BY DEF HybridTypeOK, States, Streams, Places, Resting, Lost
<1>2. Turns BY DEF Turns, Places, ToRollout, GenerationCalls
<1>3. Weights BY DEF Weights, Held, Lost
<1>4. Caches BY DEF Caches
<1>5. Memory BY DEF Memory, OnDevice, Resting
<1>6. Random
  BY <1>0 DEF Random, OfTraining, OfGeneration, InRollout, TrainStream
<1>7. Keeps BY DEF Keeps
<1>. QED BY <1>1, <1>2, <1>3, <1>4, <1>5, <1>6, <1>7 DEF HybridInv

(* What the parts of HybridKept say of a moment follows from the places.   *)
LEMMA HybridImplied == HybridInv => HybridKept
<1>. SUFFICES ASSUME HybridTypeOK, Turns, Weights, Caches, Memory, Random
              PROVE  HybridKept
  BY DEF HybridInv
<1>0. \A r \in Replicas : r \subseteq GpuWorkers /\ r # {}
  BY EngineAssumption DEF GpuWorkers
<1>1. EngineCurrent
  <2>. SUFFICES ASSUME turn = "generate", NEW r \in Replicas
                PROVE  EngineWeights(r) = {IF engine.lora THEN <<0, version>>
                                           ELSE <<version, Lost>>}
    BY DEF EngineCurrent
  <2>1. \A w \in GpuWorkers : Held(w) /\ Current(w)
    BY DEF Turns, Weights, Held
  <2>2. \A w \in r : <<base_weights[w], lora_weights[w]>>
                       = IF engine.lora THEN <<0, version>> ELSE <<version, Lost>>
    BY <1>0, <2>1 DEF Held, Current
  <2>. QED BY <1>0, <2>2 DEF EngineWeights
<1>2. CacheCurrent BY DEF CacheCurrent, Caches
<1>3. MemoryShared
  <2>. SUFFICES ASSUME engine.param_offload, engine.free_cache_engine, NEW w \in GpuWorkers
                PROVE  /\ ~({"params", "kv_cache"} \subseteq gpu[w])
                       /\ "optimizer" \in gpu[w] => gpu[w] \cap {"weights", "kv_cache"} = {}
    BY DEF MemoryShared
  <2>1. OnDevice(w) BY DEF Memory
  <2>2. gpu[w] \subseteq {"params", "optimizer", "weights", "kv_cache"} BY DEF HybridTypeOK
  <2>. QED BY <2>1, <2>2 DEF OnDevice
<1>4. StreamsApart
  <2>1. \A w \in GpuWorkers : worker_at[w] \in {"rollout", "release"}
          => rng[w].stream # TrainStream
    BY DEF Random, OfGeneration, InRollout
  <2>2. \A w \in GpuWorkers : worker_at[w] \notin {"rollout", "release"}
          => rng[w] = [stream |-> TrainStream, drawn |-> draws]
    BY DEF Random, OfTraining, InRollout
  <2>3. turn = "generate" => \A r \in Replicas : \A v, w \in r : rng[v] = rng[w]
    BY <1>0 DEF Turns, Random, OfGeneration, InRollout
  <2>. QED BY <2>1, <2>2, <2>3 DEF StreamsApart
<1>. QED BY <1>1, <1>2, <1>3, <1>4 DEF HybridKept

(* Whatever the settings, the replicas, the steps and the restarts: every  *)
(* generation has the actor's weights as they are, no prefix of other      *)
(* weights, the device never holds what it has no room for, and training   *)
(* and generation draw from streams of their own.                          *)
THEOREM HybridStaysTogether == HybridSpec => []HybridKept
<1>1. HybridInit => HybridInv BY HybridInitially
<1>2. HybridInv /\ [HybridNext]_hybridVars => HybridInv' BY HybridPreserved
<1>3. HybridInv => HybridKept BY HybridImplied
<1>. QED BY <1>1, <1>2, <1>3, PTL DEF HybridSpec

-------------------------------------------------------------------------------
(* The trust-region controllers.                                           *)
(* What keeps the copies of a controller on all ranks the same, for any    *)
(* ranks, discrepancies, gradients and schedule.                           *)

(* Between two updates all copies are equal, have seen what was applied,   *)
(* and the optimizer has the rate of the schedule.  Within an update the   *)
(* copies lag behind by the step that was just taken.                      *)
Seen(n) == \A r \in Ranks : ctl[r].step = n
ControllersInv ==
  /\ resumes \in Nat /\ applied \in Nat
  /\ ctl_at \in {"loss", "step", "control"}
  /\ ctl_at # "loss" => Running
  /\ \A q, r \in Ranks : ctl[q] = ctl[r]
  /\ Running => \A r \in Ranks : lr[r] = Schedule[call]
  /\ ctl_at = "control" /\ Taken => \A r \in Ranks : ctl[r].step + 1 = applied
  /\ ~(ctl_at = "control" /\ Taken) => Seen(applied)
  /\ OneFactor
  /\ LearningRateKept

(* What a rank makes of the reduced values depends on its copy and its     *)
(* learning rate only.                                                     *)
LEMMA SameUpdate ==
  ASSUME NEW q, NEW r, ctl[q] = ctl[r], lr[q] = lr[r]
  PROVE  Dctv(q) = Dctv(r) /\ TvSched(q) = TvSched(r)
<1>1. DHat(q) = DHat(r)
  BY DEF DHat
<1>2. MHat(q) = MHat(r)
  BY DEF MHat
<1>3. \A D : Ref(q, D) = Ref(r, D)
  BY DEF Ref
<1> QED
  BY <1>1, <1>2, <1>3 DEF Dctv, TvSched

(* An update counts once, and leaves the reference alone once it is set.   *)
LEMMA UpdateCounts ==
  ASSUME NEW r
  PROVE  /\ Dctv(r).step = ctl[r].step + 1 /\ TvSched(r).step = ctl[r].step + 1
         /\ Dctv(r).D_ref = ctl[r].D_ref
         /\ ctl[r].D_ref # None => TvSched(r).D_ref = ctl[r].D_ref
BY DEF Dctv, TvSched, Ref

LEMMA ARank == (CHOOSE r \in Ranks : TRUE) \in Ranks
BY OpdControllersAssumption

LEMMA ControllersInitially == CtlInit => ControllersInv
BY DEF CtlInit, ControllersInv, Running, Calls, Fresh, Seen, Taken, OneFactor, LearningRateKept

LEMMA ControllersPreserved == ControllersInv /\ [CtlNext]_ctlVars => ControllersInv'
<1> SUFFICES ASSUME ControllersInv, [CtlNext]_ctlVars PROVE ControllersInv'
  OBVIOUS
<1> USE DEF ControllersInv
<1>1. CASE Losses
  BY <1>1 DEF Losses, Running, Calls, Seen, Taken, OneFactor, LearningRateKept
<1>2. CASE OptimizerStep
  <2>1. PICK norm \in Norms \cup {Infinite} :
          /\ grad_norm' = [finite |-> norm # Infinite,
                           value |-> IF mode = "lr" THEN norm ELSE Scaled(norm, C)]
          /\ applied' = IF norm = Infinite THEN applied ELSE applied + 1
    BY <1>2 DEF OptimizerStep
  <2>2. Taken' <=> norm # Infinite
    BY <2>1 DEF Taken
  <2>3. /\ ctl_at = "step" /\ ctl_at' = "control"
        /\ UNCHANGED <<mode, call, mini_batch, ctl, local, resumes>>
    BY <1>2 DEF OptimizerStep
  <2>4. Seen(applied)
    BY <2>3
  <2>5. Running /\ Running'
    BY <2>3 DEF Running, Calls
  <2>6. \A r \in Ranks : lr'[r] = Schedule[call]
    BY <1>2, <2>5 DEF OptimizerStep, RateAfter
  <2>7. LearningRateKept'
    <3>1. last_lr' = LET r == CHOOSE r \in Ranks : TRUE
                     IN IF mode = "lr" THEN (lr[r] * ctl[r].c) \div Unit ELSE lr[r]
      BY <1>2 DEF OptimizerStep
    <3>2. lr[CHOOSE r \in Ranks : TRUE] = Schedule[call]
      BY <2>5, ARank
    <3> QED
      BY <2>3, <3>1, <3>2 DEF LearningRateKept, C
  <2>8. IF Taken' THEN \A r \in Ranks : ctl'[r].step + 1 = applied' ELSE Seen(applied)'
    BY <2>1, <2>2, <2>3, <2>4 DEF Seen
  <2>9. applied' \in Nat
    BY <2>1
  <2> QED
    BY <2>3, <2>5, <2>6, <2>7, <2>8, <2>9 DEF OneFactor, Seen
<1>3. CASE ControllerStep
  <2>1. /\ ctl_at = "control" /\ ctl_at' = "loss"
        /\ UNCHANGED <<mode, local, grad_norm, applied, resumes, last_lr>>
        /\ \A r \in Ranks : ctl'[r] = IF ~Taken THEN ctl[r] ELSE IF mode = "dctv" THEN Dctv(r) ELSE TvSched(r)
    BY <1>3 DEF ControllerStep
  <2>2. Running
    BY <2>1
  <2>3. \A q, r \in Ranks : lr[q] = lr[r]
    BY <2>2
  <2>4. \A q, r \in Ranks : ctl'[q] = ctl'[r]
    BY <2>1, <2>3, SameUpdate
  <2>5. Seen(applied)'
    <3>1. CASE Taken
      BY <2>1, <3>1, UpdateCounts DEF Seen
    <3>2. CASE ~Taken
      BY <2>1, <3>2 DEF Seen
    <3> QED
      BY <3>1, <3>2
  <2>6. Running' => \A r \in Ranks : lr'[r] = Schedule[call']
    <3>1. CASE mini_batch < MiniBatches
      BY <1>3, <2>2, <3>1 DEF ControllerStep
    <3>2. CASE ~(mini_batch < MiniBatches)
      BY <1>3, <3>2 DEF ControllerStep, Running, Calls
    <3> QED
      BY <3>1, <3>2
  <2> QED
    BY <2>1, <2>4, <2>5, <2>6 DEF OneFactor, LearningRateKept
<1>4. CASE ResumeTraining
  <2>1. /\ ctl_at = "loss" /\ UNCHANGED <<call, ctl_at, lr>>
        /\ ctl' = [r \in Ranks |-> Fresh] /\ applied' = 0 /\ resumes' = resumes + 1
    BY <1>4 DEF ResumeTraining
  <2>2. Seen(applied)'
    BY <2>1 DEF Seen, Fresh
  <2> QED
    BY <2>1, <2>2 DEF Running, Calls, OneFactor, LearningRateKept
<1>5. CASE UNCHANGED ctlVars
  BY <1>5 DEF ctlVars, Running, Calls, Seen, Taken, OneFactor, LearningRateKept, C
<1> QED
  BY <1>1, <1>2, <1>3, <1>4, <1>5 DEF CtlNext, CtlFinished

LEMMA ControllersAlways == CtlSpec => []ControllersInv
BY ControllersInitially, ControllersPreserved, PTL DEF CtlSpec

-------------------------------------------------------------------------------
(* OneFactor: the losses of one gradient are scaled alike on all ranks,    *)
(* although each found other discrepancies, so that what they average is   *)
(* the gradient of one objective.                                          *)
THEOREM FactorsAgree == CtlSpec => []OneFactor
<1>1. ControllersInv => OneFactor
  BY DEF ControllersInv
<1> QED
  BY <1>1, ControllersAlways, PTL

(* OnlyApplied: whatever gradients are not finite, the controllers have    *)
(* seen the updates that were applied since the start, each once.          *)
THEOREM UpdatesSeenOnce == CtlSpec => []OnlyApplied
<1>1. ControllersInv => OnlyApplied
  BY DEF ControllersInv, OnlyApplied, Seen
<1> QED
  BY <1>1, ControllersAlways, PTL

(* LearningRateKept: a scaled step leaves nothing of its factor in the     *)
(* learning rate of the next.                                              *)
THEOREM RateIsTheSchedules == CtlSpec => []LearningRateKept
<1>1. ControllersInv => LearningRateKept
  BY DEF ControllersInv
<1> QED
  BY <1>1, ControllersAlways, PTL

(* RanksInStep: the three together, which is what makes the copies of the  *)
(* controller one controller.                                              *)
THEOREM RanksStayInStep == CtlSpec => []RanksInStep
BY FactorsAgree, UpdatesSeenOnce, RateIsTheSchedules, PTL DEF RanksInStep

(* Anchored: the discrepancy of the first step stays what later ones are   *)
(* compared with, until the next start.                                    *)
THEOREM ReferenceStays == CtlSpec => Anchored
<1>1. ControllersInv /\ [CtlNext]_ctlVars =>
        [\A r \in Ranks : ctl[r].D_ref # None /\ resumes' = resumes => ctl'[r].D_ref = ctl[r].D_ref]_ctlVars
  <2> SUFFICES ASSUME ControllersInv, CtlNext, resumes' = resumes,
                      NEW r \in Ranks, ctl[r].D_ref # None
               PROVE  ctl'[r].D_ref = ctl[r].D_ref
    OBVIOUS
  <2>1. CASE Losses \/ OptimizerStep \/ CtlFinished
    BY <2>1 DEF Losses, OptimizerStep, CtlFinished, ctlVars
  <2>2. CASE ControllerStep
    BY <2>2, UpdateCounts DEF ControllerStep
  <2>3. CASE ResumeTraining
    BY <2>3 DEF ResumeTraining, ControllersInv
  <2> QED
    BY <2>1, <2>2, <2>3 DEF CtlNext
<1> QED
  BY <1>1, ControllersAlways, PTL DEF CtlSpec, Anchored

-------------------------------------------------------------------------------
(* Dynamic sampling.  Rows come in groups of n, one group to a prompt.     *)
Prompt == Nat \X Nat
Row == Nat \X Nat \X Nat
Grouped(b, ps, n) ==
  /\ b \in Seq(Row) /\ ps \in Seq(Prompt) /\ Len(b) = Len(ps) * n
  /\ \A i \in 1..Len(ps) : \A k \in 1..n : b[(i - 1) * n + k] = <<ps[i][1], ps[i][2], k>>
  /\ \A i, j \in 1..Len(ps) : ps[i] = ps[j] => i = j

LEMMA Multiples ==
  ASSUME NEW a \in Int, NEW b \in Int, NEW c \in Nat, a <= b
  PROVE  a * c <= b * c /\ a * c \in Int /\ b * c \in Int
  OBVIOUS

LEMMA Distributes ==
  ASSUME NEW a \in Int, NEW b \in Int, NEW c \in Int
  PROVE  (a + b) * c = a * c + b * c /\ (a - b) * c = a * c - b * c
  OBVIOUS

LEMMA Divides ==
  ASSUME NEW r \in Nat, NEW n \in Nat \ {0}
  PROVE  r = (r \div n) * n + (r % n) /\ r \div n \in Nat /\ r % n \in 0..(n - 1)
  OBVIOUS

(* The k-th place of the i-th group. *)
LEMMA Place ==
  ASSUME NEW m \in Nat, NEW n \in Nat \ {0}, NEW i \in 1..m, NEW k \in 1..n
  PROVE  (i - 1) * n + k \in 1..m * n /\ (i - 1) * n \in Nat /\ i * n = (i - 1) * n + n
<1>1. i * n = (i - 1) * n + n
  <2>1. (i - 1) * n = i * n - 1 * n
    BY Distributes
  <2>2. i * n \in Int /\ (i - 1) * n \in Int
    OBVIOUS
  <2> QED BY <2>1, <2>2
<1>2. 0 * n <= (i - 1) * n /\ (i - 1) * n \in Int
  BY Multiples
<1>3. i * n <= m * n /\ m * n \in Int
  BY Multiples
<1>4. 0 * n = 0
  OBVIOUS
<1> QED BY <1>1, <1>2, <1>3, <1>4

(* Every place is one of a group. *)
RowPlaces(m, n) == 1..m * n
PlacedIn(r, m, n) ==
  \E i \in 1..m : \E k \in 1..n :
    r = (i - 1) * n + k /\ i = (r - 1) \div n + 1 /\ k = ((r - 1) % n) + 1

LEMMA PlaceIn ==
  ASSUME NEW m \in Nat, NEW n \in Nat \ {0}, NEW r \in RowPlaces(m, n)
  PROVE  PlacedIn(r, m, n)
<1> DEFINE q == (r - 1) \div n
           y == (r - 1) % n
<1>1. m * n \in Int /\ r \in 1..m * n
  BY DEF RowPlaces
<1>2. r - 1 \in Nat /\ r \in Int
  BY <1>1
<1>3. r - 1 = q * n + y /\ q \in Nat /\ y \in 0..(n - 1)
  BY <1>2, Divides
<1> HIDE DEF q, y
<1>4. q * n \in Int
  BY <1>3
<1>5. q < m
  <2> SUFFICES ASSUME m <= q PROVE FALSE
    BY <1>3
  <2>1. m * n <= q * n
    BY <1>3, Multiples
  <2> QED BY <2>1, <1>1, <1>2, <1>3, <1>4
<1>6. q + 1 \in 1..m /\ y + 1 \in 1..n
  BY <1>3, <1>5
<1>7. r = ((q + 1) - 1) * n + (y + 1)
  BY <1>2, <1>3, <1>4
<1> QED BY <1>6, <1>7 DEF q, y, PlacedIn

LEMMA Quotient ==
  ASSUME NEW i \in Nat \ {0}, NEW n \in Nat \ {0}, NEW k \in 1..n
  PROVE  (((i - 1) * n + k) - 1) \div n + 1 = i /\ ((((i - 1) * n + k) - 1) % n) + 1 = k
<1> DEFINE r == (i - 1) * n + k
<1>1. r \in 1..i * n /\ (i - 1) * n \in Nat
  BY Place
<1>2. PICK j \in 1..i, l \in 1..n : 
        r = (j - 1) * n + l /\ j = (r - 1) \div n + 1 /\ l = ((r - 1) % n) + 1
  <2>1. r \in RowPlaces(i, n)
    BY <1>1 DEF RowPlaces
  <2> HIDE DEF r
  <2>2. PlacedIn(r, i, n)
    BY <2>1, PlaceIn
  <2> QED BY <2>2 DEF PlacedIn
<1>3. (j - 1) * n + n = j * n /\ (j - 1) * n \in Nat /\ j * n \in Int /\ (i - 1) * n \in Nat
  BY Place
<1>4. j = i
  <2> SUFFICES ASSUME j <= i - 1 PROVE FALSE
    OBVIOUS
  <2>1. j * n <= (i - 1) * n
    BY Multiples
  <2> HIDE DEF r
  <2>2. r = (i - 1) * n + k
    BY DEF r
  <2> QED BY <1>2, <1>3, <2>1, <2>2
<1>5. k = l
  BY <1>2, <1>3, <1>4
<1> QED BY <1>2, <1>4, <1>5

(* What a batch made of groups contains. *)
LEMMA GroupedHas ==
  ASSUME NEW b, NEW ps, NEW n \in Nat \ {0}, Grouped(b, ps, n)
  PROVE  /\ BatchOf(b) = ToSet(ps) /\ BatchOf(b) \subseteq Prompt
         /\ IsFiniteSet(BatchOf(b)) /\ Cardinality(BatchOf(b)) = Len(ps)
         /\ ToSet(b) = {<<p[1], p[2], k>> : p \in BatchOf(b), k \in 1..n}
<1> DEFINE m == Len(ps)
<1>1. b \in Seq(Row) /\ ps \in Seq(Prompt) /\ m \in Nat /\ Len(b) = m * n
  BY LenProperties DEF Grouped
<1>2. ASSUME NEW i \in 1..m, NEW k \in 1..n
      PROVE  /\ <<ps[i][1], ps[i][2], k>> \in ToSet(b) /\ ps[i] = <<ps[i][1], ps[i][2]>>
             /\ ps[i] \in Prompt
  <2>1. (i - 1) * n + k \in 1..Len(b)
    BY <1>1, Place
  <2>2. b[(i - 1) * n + k] = <<ps[i][1], ps[i][2], k>>
    BY DEF Grouped
  <2>3. ps[i] \in Prompt
    BY <1>1
  <2>4. DOMAIN b = 1..Len(b)
    BY <1>1
  <2>5. <<ps[i][1], ps[i][2], k>> \in ToSet(b)
    <3> DEFINE r == (i - 1) * n + k
    <3>1. r \in DOMAIN b /\ b[r] = <<ps[i][1], ps[i][2], k>>
      BY <2>1, <2>2, <2>4
    <3> HIDE DEF r
    <3> QED BY <3>1 DEF ToSet
  <2>6. ps[i] = <<ps[i][1], ps[i][2]>>
    BY <2>3 DEF Prompt
  <2> QED BY <2>3, <2>5, <2>6
<1>3. ASSUME NEW t \in ToSet(b)
      PROVE  \E i \in 1..m, k \in 1..n : t = <<ps[i][1], ps[i][2], k>>
  <2>1. PICK r \in RowPlaces(m, n) : t = b[r]
    BY <1>1 DEF ToSet, RowPlaces
  <2>2. PlacedIn(r, m, n)
    <3> HIDE DEF m
    <3> QED BY <1>1, PlaceIn
  <2>3. PICK i \in 1..m, k \in 1..n : r = (i - 1) * n + k
    BY <2>2 DEF PlacedIn
  <2> QED BY <2>1, <2>3 DEF Grouped
<1>4. ToSet(ps) = {ps[i] : i \in 1..m}
  BY <1>1 DEF ToSet
<1>5. BatchOf(b) = ToSet(ps)
  <2>1. ASSUME NEW p \in BatchOf(b) PROVE p \in ToSet(ps)
    <3>1. PICK t \in ToSet(b) : p = <<t[1], t[2]>>
      BY DEF BatchOf
    <3>2. PICK i \in 1..m, k \in 1..n : t = <<ps[i][1], ps[i][2], k>>
      BY <1>3
    <3>3. p = <<ps[i][1], ps[i][2]>>
      BY <3>1, <3>2
    <3> QED BY <3>3, <1>2, <1>4
  <2>2. ASSUME NEW p \in ToSet(ps) PROVE p \in BatchOf(b)
    <3>1. PICK i \in 1..m : p = ps[i]
      BY <1>4
    <3>2. 1 \in 1..n
      OBVIOUS
    <3>3. <<ps[i][1], ps[i][2], 1>> \in ToSet(b) /\ p = <<ps[i][1], ps[i][2]>>
      BY <1>2, <3>1, <3>2
    <3> DEFINE t == <<ps[i][1], ps[i][2], 1>>
    <3>4. p = <<t[1], t[2]>>
      BY <3>3
    <3> QED BY <3>3, <3>4 DEF BatchOf
  <2> QED BY <2>1, <2>2
<1>6. BatchOf(b) \subseteq Prompt
  <2>1. \A i \in 1..m : ps[i] \in Prompt
    BY <1>1
  <2> QED BY <2>1, <1>4, <1>5
<1>7. IsFiniteSet(BatchOf(b)) /\ Cardinality(BatchOf(b)) = m
  <2>1. ps \in Bijection(1..m, ToSet(ps))
    <3>1. ps \in [1..m -> ToSet(ps)]
      BY <1>1, <1>4
    <3>2. \A i, j \in 1..m : ps[i] = ps[j] => i = j
      BY DEF Grouped
    <3>3. \A p \in ToSet(ps) : \E i \in 1..m : ps[i] = p
      BY <1>4
    <3>4. ps \in Injection(1..m, ToSet(ps))
      BY <3>1, <3>2 DEF Injection, IsInjective
    <3>5. ps \in Surjection(1..m, ToSet(ps))
      BY <3>1, <3>3 DEF Surjection
    <3> QED BY <3>4, <3>5 DEF Bijection
  <2>2. IsFiniteSet(1..m) /\ Cardinality(1..m) = m
    <3> HIDE DEF m
    <3>1. m \in Nat /\ 1 \in Int /\ m \in Int
      BY <1>1
    <3>2. IsFiniteSet(1..m) /\ Cardinality(1..m) = IF 1 > m THEN 0 ELSE m - 1 + 1
      BY <3>1, FS_Interval
    <3> QED BY <3>1, <3>2
  <2>3. ExistsBijection(1..m, ToSet(ps))
    BY <2>1 DEF ExistsBijection
  <2> QED BY <2>2, <2>3, <1>5, FS_Bijection
<1>8. ToSet(b) = {<<p[1], p[2], k>> : p \in BatchOf(b), k \in 1..n}
  BY <1>2, <1>3, <1>4, <1>5
<1> QED BY <1>5, <1>6, <1>7, <1>8

(* Groups behind groups. *)
LEMMA GroupedConcat ==
  ASSUME NEW a, NEW ps, NEW b, NEW qs, NEW n \in Nat \ {0}, Grouped(a, ps, n), Grouped(b, qs, n),
         BatchOf(a) \cap BatchOf(b) = {}
  PROVE  Grouped(a \o b, ps \o qs, n) /\ BatchOf(a \o b) = BatchOf(a) \cup BatchOf(b)
<1> DEFINE m == Len(ps)
           l == Len(qs)
           c == a \o b
           rs == ps \o qs
<1>1. /\ a \in Seq(Row) /\ ps \in Seq(Prompt) /\ m \in Nat /\ Len(a) = m * n /\ m * n \in Nat
      /\ b \in Seq(Row) /\ qs \in Seq(Prompt) /\ l \in Nat /\ Len(b) = l * n /\ l * n \in Nat
  BY LenProperties DEF Grouped
<1>2. /\ c \in Seq(Row) /\ Len(c) = m * n + l * n
      /\ \A r \in 1..m * n + l * n : c[r] = IF r <= m * n THEN a[r] ELSE b[r - m * n]
  <2>1. /\ c \in Seq(Row) /\ Len(c) = Len(a) + Len(b)
        /\ \A r \in 1..Len(a) + Len(b) : c[r] = IF r <= Len(a) THEN a[r] ELSE b[r - Len(a)]
    BY <1>1, ConcatProperties
  <2> HIDE DEF c
  <2> QED BY <1>1, <2>1
<1>3. /\ rs \in Seq(Prompt) /\ Len(rs) = m + l
      /\ \A i \in 1..m + l : rs[i] = IF i <= m THEN ps[i] ELSE qs[i - m]
  BY <1>1, ConcatProperties
<1> HIDE DEF c, rs
<1>4. Len(c) = Len(rs) * n
  BY <1>1, <1>2, <1>3, Distributes
<1>5. ASSUME NEW i \in 1..Len(rs), NEW k \in 1..n
      PROVE  c[(i - 1) * n + k] = <<rs[i][1], rs[i][2], k>>
  <2>1. (i - 1) * n + k \in 1..m * n + l * n
    <3>1. Len(rs) \in Nat
      BY <1>1, <1>3
    <3>2. (i - 1) * n + k \in 1..Len(rs) * n
      BY <3>1, Place
    <3> QED BY <1>2, <1>4, <3>2
  <2>2. CASE i \in 1..m
    <3>1. (i - 1) * n + k \in 1..m * n
      BY <1>1, <2>2, Place
    <3>2. a[(i - 1) * n + k] = <<ps[i][1], ps[i][2], k>>
      BY <2>2 DEF Grouped
    <3>3. rs[i] = ps[i]
      BY <1>1, <1>3, <2>2
    <3>4. c[(i - 1) * n + k] = a[(i - 1) * n + k]
      BY <1>1, <1>2, <2>1, <3>1
    <3> QED BY <3>2, <3>3, <3>4
  <2>3. CASE i > m
    <3>1. i - m \in 1..l /\ (i - m) - 1 \in Int
      BY <1>1, <1>3, <2>3
    <3> DEFINE j == i - m
    <3>2. ((j - 1) * n + k \in 1..l * n) /\ (j - 1) * n \in Nat
      BY <1>1, <3>1, Place
    <3>3. (i - 1) * n = m * n + (j - 1) * n
      <4>1. i - 1 = m + (j - 1)
        BY <1>1, <1>3
      <4> QED BY <4>1, <1>1, <3>1, Distributes
    <3>4. rs[i] = qs[j]
      BY <1>1, <1>3, <2>3
    <3>5. b[(j - 1) * n + k] = <<qs[j][1], qs[j][2], k>>
      BY <3>1 DEF Grouped
    <3> HIDE DEF j
    <3>6. c[(i - 1) * n + k] = b[(j - 1) * n + k]
      <4> DEFINE x == (j - 1) * n
                 y == (i - 1) * n
                 p == m * n
                 r == (i - 1) * n + k
      <4>1. x \in Nat /\ p \in Nat /\ y = p + x /\ r = y + k
        BY <1>1, <3>2, <3>3
      <4> HIDE DEF r, x, y, p
      <4>2. r > p /\ r - p = x + k
        BY <4>1
      <4>3. r \in 1..m * n + l * n
        BY <2>1 DEF r
      <4>4. r > m * n /\ r \in Int /\ m * n \in Int
        BY <4>1, <4>2 DEF p
      <4>5. c[r] = b[r - m * n]
        BY <1>2, <4>3, <4>4
      <4>6. r - m * n = x + k
        BY <4>2 DEF p
      <4> QED BY <4>5, <4>6 DEF r, x
    <3> QED BY <3>4, <3>5, <3>6
  <2>4. i \in 1..m \/ i > m
    <3>1. m \in Nat
      BY <1>1
    <3> HIDE DEF m
    <3> QED BY <3>1
  <2> QED BY <2>2, <2>3, <2>4
<1>6. BatchOf(a) = ToSet(ps) /\ BatchOf(b) = ToSet(qs)
  BY GroupedHas
<1>7. ASSUME NEW i \in 1..Len(rs), NEW j \in 1..Len(rs), rs[i] = rs[j] PROVE i = j
  <2>1. \A x \in 1..m : \A y \in 1..l : ps[x] # qs[y]
    <3>1. DOMAIN ps = 1..m /\ DOMAIN qs = 1..l /\ ToSet(ps) \cap ToSet(qs) = {}
      BY <1>1, <1>6
    <3> HIDE DEF m, l
    <3> QED BY <3>1, SMTT(30) DEF ToSet
  <2>2. \A x, y \in 1..m : ps[x] = ps[y] => x = y
    BY DEF Grouped
  <2>3. \A x, y \in 1..l : qs[x] = qs[y] => x = y
    BY DEF Grouped
  <2>4. /\ m \in Nat /\ l \in Nat /\ i \in 1..m + l /\ j \in 1..m + l
        /\ rs[i] = IF i <= m THEN ps[i] ELSE qs[i - m]
        /\ rs[j] = IF j <= m THEN ps[j] ELSE qs[j - m]
    <3>1. m \in Nat /\ l \in Nat
      BY <1>1
    <3> HIDE DEF m, l
    <3> QED BY <1>3, <3>1
  <2> HIDE DEF m, l
  <2>5. CASE i <= m /\ j <= m
    <3>1. i \in 1..m /\ j \in 1..m /\ rs[i] = ps[i] /\ rs[j] = ps[j]
      BY <2>4, <2>5
    <3> QED BY <1>7, <2>2, <3>1
  <2>6. CASE i <= m /\ j > m
    <3>1. i \in 1..m /\ j - m \in 1..l /\ rs[i] = ps[i] /\ rs[j] = qs[j - m]
      BY <2>4, <2>6
    <3> QED BY <1>7, <2>1, <3>1
  <2>7. CASE i > m /\ j <= m
    <3>1. j \in 1..m /\ i - m \in 1..l /\ rs[j] = ps[j] /\ rs[i] = qs[i - m]
      BY <2>4, <2>7
    <3> QED BY <1>7, <2>1, <3>1
  <2>8. CASE i > m /\ j > m
    <3>1. i - m \in 1..l /\ j - m \in 1..l /\ rs[i] = qs[i - m] /\ rs[j] = qs[j - m]
      BY <2>4, <2>8
    <3>2. i - m = j - m
      BY <1>7, <2>3, <3>1
    <3> QED BY <2>4, <3>2
  <2> QED BY <2>4, <2>5, <2>6, <2>7, <2>8
<1>8. Grouped(c, rs, n)
  BY <1>2, <1>3, <1>4, <1>5, <1>7 DEF Grouped
<1>9. BatchOf(c) = ToSet(rs)
  BY <1>8, GroupedHas
<1>10. ToSet(rs) = ToSet(ps) \cup ToSet(qs)
  <2>1. /\ ToSet(rs) = {rs[i] : i \in 1..m + l} /\ ToSet(ps) = {ps[i] : i \in 1..m}
        /\ ToSet(qs) = {qs[i] : i \in 1..l}
    <3>1. /\ DOMAIN ps = 1..m /\ DOMAIN qs = 1..l /\ DOMAIN rs = 1..m + l
      <4>1. DOMAIN rs = 1..Len(rs)
        BY <1>3, LenProperties
      <4> QED BY <1>1, <1>3, <4>1
    <3> QED BY <3>1 DEF ToSet
  <2>2. \A i \in 1..m + l : IF i <= m THEN i \in 1..m ELSE i - m \in 1..l
    BY <1>1
  <2>3. \A i \in 1..m : i \in 1..m + l /\ rs[i] = ps[i]
    BY <1>1, <1>3
  <2>4. \A i \in 1..l : i + m \in 1..m + l /\ rs[i + m] = qs[i]
    <3> SUFFICES ASSUME NEW i \in 1..l PROVE i + m \in 1..m + l /\ rs[i + m] = qs[i]
      OBVIOUS
    <3>1. i + m \in 1..m + l /\ ~(i + m <= m) /\ (i + m) - m = i
      BY <1>1
    <3>2. rs[i + m] = qs[(i + m) - m]
      BY <1>3, <3>1
    <3> QED BY <3>1, <3>2
  <2>5. ToSet(rs) \subseteq ToSet(ps) \cup ToSet(qs)
    <3> SUFFICES ASSUME NEW i \in 1..m + l PROVE rs[i] \in ToSet(ps) \cup ToSet(qs)
      BY <2>1
    <3>1. CASE i <= m
      BY <1>3, <2>1, <2>2, <3>1
    <3>2. CASE ~(i <= m)
      BY <1>3, <2>1, <2>2, <3>2
    <3> QED BY <3>1, <3>2
  <2>6. ToSet(ps) \subseteq ToSet(rs)
    BY <2>1, <2>3
  <2>7. ToSet(qs) \subseteq ToSet(rs)
    BY <2>1, <2>4
  <2> QED BY <2>5, <2>6, <2>7
<1> QED BY <1>6, <1>8, <1>9, <1>10 DEF c, rs

(* The first groups. *)
LEMMA GroupedPrefix ==
  ASSUME NEW b, NEW ps, NEW n \in Nat \ {0}, Grouped(b, ps, n), NEW m \in Nat, m <= Len(ps)
  PROVE  /\ Grouped(SubSeq(b, 1, m * n), SubSeq(ps, 1, m), n)
         /\ BatchOf(SubSeq(b, 1, m * n)) \subseteq BatchOf(b)
         /\ Len(SubSeq(ps, 1, m)) = m
<1> DEFINE c == SubSeq(b, 1, m * n)
           rs == SubSeq(ps, 1, m)
<1>1. /\ b \in Seq(Row) /\ ps \in Seq(Prompt) /\ Len(ps) \in Nat /\ Len(b) = Len(ps) * n
      /\ m * n \in Nat
  BY LenProperties DEF Grouped
<1>2. m * n <= Len(b)
  BY <1>1, Multiples
<1>3. c \in Seq(Row) /\ Len(c) = m * n /\ \A r \in 1..m * n : c[r] = b[r]
  <2>1. Len(b) \in Nat /\ \A r \in 1..m * n : b[r] \in Row
    BY <1>1, <1>2
  <2> DEFINE M == m * n
  <2>2. M \in Nat /\ \A r \in 1..M : b[r] \in Row
    BY <1>1, <2>1
  <2> HIDE DEF M
  <2>3. /\ SubSeq(b, 1, M) \in Seq(Row) /\ Len(SubSeq(b, 1, M)) = IF 1 <= M THEN M - 1 + 1 ELSE 0
        /\ \A r \in 1..M - 1 + 1 : SubSeq(b, 1, M)[r] = b[1 + r - 1]
    BY <2>2, SubSeqProperties
  <2>4. Len(SubSeq(b, 1, M)) = M /\ \A r \in 1..M : SubSeq(b, 1, M)[r] = b[r]
    BY <2>2, <2>3
  <2> QED BY <2>3, <2>4 DEF M
<1>4. rs \in Seq(Prompt) /\ Len(rs) = m /\ \A i \in 1..m : rs[i] = ps[i]
  <2>1. \A i \in 1..m : ps[i] \in Prompt
    BY <1>1
  <2>2. /\ rs \in Seq(Prompt) /\ Len(rs) = IF 1 <= m THEN m - 1 + 1 ELSE 0
        /\ \A i \in 1..m - 1 + 1 : rs[i] = ps[1 + i - 1]
    BY <2>1, SubSeqProperties
  <2> HIDE DEF rs
  <2> QED BY <2>2
<1> HIDE DEF c, rs
<1>5. ASSUME NEW i \in 1..m, NEW k \in 1..n
      PROVE  c[(i - 1) * n + k] = <<rs[i][1], rs[i][2], k>>
  <2>1. (i - 1) * n + k \in 1..m * n
    BY Place
  <2>2. i \in 1..Len(ps)
    BY <1>1
  <2>3. b[(i - 1) * n + k] = <<ps[i][1], ps[i][2], k>>
    BY <2>2 DEF Grouped
  <2> QED BY <1>3, <1>4, <2>1, <2>3
<1>6. \A i, j \in 1..m : rs[i] = rs[j] => i = j
  <2>1. \A i \in 1..m : i \in 1..Len(ps)
    BY <1>1
  <2>2. \A i, j \in 1..Len(ps) : ps[i] = ps[j] => i = j
    BY DEF Grouped
  <2> QED BY <1>4, <2>1, <2>2
<1>7. Grouped(c, rs, n)
  BY <1>3, <1>4, <1>5, <1>6 DEF Grouped
<1>8. BatchOf(c) = ToSet(rs) /\ BatchOf(b) = ToSet(ps)
  BY <1>7, GroupedHas
<1>9. ToSet(rs) \subseteq ToSet(ps)
  BY <1>1, <1>4 DEF ToSet
<1> QED BY <1>4, <1>7, <1>8, <1>9 DEF c, rs

(* The prompts of a batch in their places. *)
LEMMA PromptsInPlace ==
  ASSUME NEW g \in Nat, NEW prompts, prompts \subseteq PromptsOf(g)
  PROVE  /\ IsFiniteSet(prompts) /\ Cardinality(prompts) \in Nat /\ prompts \subseteq Prompt
         /\ \A j \in 1..Cardinality(prompts) :
              PromptAt(j, prompts) \in prompts /\ PlaceOf(PromptAt(j, prompts), prompts) = j
         /\ \A p \in prompts :
              PlaceOf(p, prompts) \in 1..Cardinality(prompts)
              /\ PromptAt(PlaceOf(p, prompts), prompts) = p
<1> DEFINE m == Cardinality(prompts)
           Upto(p) == {q \in prompts : q[2] <= p[2]}
<1>1. GenBatchSize \in Nat
  BY SamplingAssumption
<1>2. \A p \in prompts : p = <<g, p[2]>> /\ p[2] \in 1..GenBatchSize /\ p \in Prompt
  BY <1>1 DEF PromptsOf, Prompt
<1>3. IsFiniteSet(prompts)
  <2> DEFINE f == [p \in prompts |-> p[2]]
  <2>1. f \in Injection(prompts, 1..GenBatchSize)
    <3>1. f \in [prompts -> 1..GenBatchSize]
      BY <1>2
    <3>2. \A p, q \in prompts : f[p] = f[q] => p = q
      BY <1>2
    <3> QED BY <3>1, <3>2 DEF Injection, IsInjective
  <2>2. IsFiniteSet(1..GenBatchSize)
    BY <1>1, FS_Interval
  <2> QED BY <2>1, <2>2, FS_Injection
<1>4. m \in Nat
  BY <1>3, FS_CardinalityType
<1>5. ASSUME NEW p \in prompts
      PROVE  /\ IsFiniteSet(Upto(p)) /\ Cardinality(Upto(p)) \in 1..m /\ p \in Upto(p)
  <2>1. Upto(p) \in SUBSET prompts /\ p \in Upto(p)
    BY <1>2
  <2>2. IsFiniteSet(Upto(p)) /\ Cardinality(Upto(p)) <= m
    BY <1>3, <2>1, FS_Subset
  <2>3. Cardinality(Upto(p)) \in Nat /\ Cardinality(Upto(p)) # 0
    BY <2>1, <2>2, FS_CardinalityType, FS_EmptySet
  <2> QED BY <1>4, <2>1, <2>2, <2>3
<1>6. ASSUME NEW p \in prompts, NEW q \in prompts, p[2] < q[2]
      PROVE  Cardinality(Upto(p)) # Cardinality(Upto(q))
  <2>1. Upto(p) \in SUBSET Upto(q) /\ q \notin Upto(p) /\ q \in Upto(q)
    BY <1>1, <1>2, <1>6
  <2>2. IsFiniteSet(Upto(q))
    BY <1>5
  <2> HIDE DEF Upto
  <2> QED BY <2>1, <2>2, FS_Subset
<1> DEFINE place == [p \in prompts |-> Cardinality(Upto(p))]
<1>7. place \in Injection(prompts, 1..m)
  <2>1. place \in [prompts -> 1..m]
    BY <1>5
  <2>2. \A p, q \in prompts : place[p] = place[q] => p = q
    BY <1>1, <1>2, <1>6
  <2> QED BY <2>1, <2>2 DEF Injection, IsInjective
<1>8. place \in Surjection(prompts, 1..m)
  <2>1. IsFiniteSet(1..m) /\ Cardinality(1..m) = m
    <3> HIDE DEF m
    <3>1. 1 \in Int /\ m \in Int
      BY <1>4
    <3> QED BY <1>4, <3>1, FS_Interval
  <2> QED BY <1>7, <2>1, FS_Injection
<1>9. \A p \in prompts : place[p] = PlaceOf(p, prompts)
  BY DEF PlaceOf
<1>10. \A j \in 1..m : \E p \in prompts : PlaceOf(p, prompts) = j
  <2>1. \A j \in 1..m : \E p \in prompts : place[p] = j
    BY <1>8 DEF Surjection
  <2> HIDE DEF place
  <2> QED BY <1>9, <2>1
<1>11. \A p, q \in prompts : PlaceOf(p, prompts) = PlaceOf(q, prompts) => p = q
  <2>1. \A p, q \in prompts : place[p] = place[q] => p = q
    BY <1>7 DEF Injection, IsInjective
  <2> HIDE DEF place
  <2> QED BY <1>9, <2>1
<1>12. \A p \in prompts : PlaceOf(p, prompts) \in 1..m
  BY <1>5 DEF PlaceOf
<1>13. \A j \in 1..m :
         PromptAt(j, prompts) \in prompts /\ PlaceOf(PromptAt(j, prompts), prompts) = j
  BY <1>10 DEF PromptAt
<1>14. \A p \in prompts : PromptAt(PlaceOf(p, prompts), prompts) = p
  BY <1>11, <1>12, <1>13
<1> QED BY <1>2, <1>3, <1>4, <1>12, <1>13, <1>14

LEMMA RowsGrouped ==
  ASSUME sampling.n \in Nat \ {0}, NEW g \in Nat, NEW prompts, prompts \subseteq PromptsOf(g)
  PROVE  \E ps : /\ Grouped(RowsOf(prompts), ps, sampling.n) /\ Len(ps) = Cardinality(prompts)
                 /\ BatchOf(RowsOf(prompts)) = prompts
<1> DEFINE m == Cardinality(prompts)
           n == sampling.n
           ps == [j \in 1..m |-> PromptAt(j, prompts)]
           b == RowsOf(prompts)
           E(r) == <<PromptAt((r - 1) \div n + 1, prompts)[1],
                     PromptAt((r - 1) \div n + 1, prompts)[2], ((r - 1) % n) + 1>>
<1>1. m \in Nat /\ prompts \subseteq Prompt /\ n \in Nat \ {0} /\ m * n \in Nat
  BY PromptsInPlace
<1>2. \A j \in 1..m : PromptAt(j, prompts) \in prompts /\ PlaceOf(PromptAt(j, prompts), prompts) = j
  BY PromptsInPlace
<1>3. ps \in Seq(Prompt) /\ Len(ps) = m
  BY <1>1, <1>2
<1>4. b = [r \in 1..m * n |-> E(r)]
  BY DEF RowsOf
<1> HIDE DEF b, n
<1>5. ASSUME NEW r \in 1..m * n PROVE E(r) \in Row
  <2>1. PICK i \in 1..m, k \in 1..n :
          r = (i - 1) * n + k /\ i = (r - 1) \div n + 1 /\ k = ((r - 1) % n) + 1
    <3> HIDE DEF m
    <3>1. r \in RowPlaces(m, n)
      BY DEF RowPlaces
    <3>2. PlacedIn(r, m, n)
      BY <1>1, <3>1, PlaceIn
    <3> QED BY <3>2 DEF PlacedIn
  <2>2. PromptAt(i, prompts) \in Prompt
    BY <1>1, <1>2
  <2>3. E(r) = <<PromptAt(i, prompts)[1], PromptAt(i, prompts)[2], k>>
    BY <2>1
  <2>4. k \in Nat
    BY <1>1
  <2> HIDE DEF E
  <2> QED BY <2>2, <2>3, <2>4 DEF Prompt, Row
<1>6. b \in Seq(Row) /\ Len(b) = m * n
  <2> DEFINE M == m * n
  <2>1. M \in Nat /\ b \in [1..M -> Row]
    BY <1>1, <1>4, <1>5
  <2> HIDE DEF M
  <2> QED BY <2>1 DEF M
<1>7. ASSUME NEW i \in 1..m, NEW k \in 1..n
      PROVE  b[(i - 1) * n + k] = <<ps[i][1], ps[i][2], k>>
  <2> DEFINE r == (i - 1) * n + k
  <2>1. r \in 1..m * n
    BY <1>1, Place
  <2>2. (r - 1) \div n + 1 = i /\ ((r - 1) % n) + 1 = k
    <3>1. i \in Nat \ {0}
      BY <1>1
    <3> QED BY <1>1, <3>1, Quotient
  <2> HIDE DEF r
  <2>3. b[r] = <<PromptAt(i, prompts)[1], PromptAt(i, prompts)[2], k>>
    BY <1>4, <2>1, <2>2
  <2> QED BY <2>3 DEF r
<1>8. \A i, j \in 1..m : ps[i] = ps[j] => i = j
  BY <1>2
<1>9. Grouped(b, ps, n)
  <2> HIDE DEF ps
  <2> QED BY <1>1, <1>3, <1>6, <1>7, <1>8 DEF Grouped
<1>10. ToSet(ps) = prompts
  <2>1. DOMAIN ps = 1..m
    OBVIOUS
  <2>2. \A p \in prompts :
          PlaceOf(p, prompts) \in 1..m /\ PromptAt(PlaceOf(p, prompts), prompts) = p
    BY PromptsInPlace
  <2>3. \A p \in prompts : p \in ToSet(ps)
    BY <2>1, <2>2 DEF ToSet
  <2>4. \A p \in ToSet(ps) : p \in prompts
    BY <1>2, <2>1 DEF ToSet
  <2> QED BY <2>3, <2>4
<1>11. BatchOf(b) = prompts
  BY <1>1, <1>9, <1>10, GroupedHas
<1> QED BY <1>3, <1>9, <1>11 DEF b, n

(* What is collected are the prompts of the generation batches since the   *)
(* last step that it may be made of.                                       *)
Collected ==
  {p \in (drawn - num_gen_batches + 1..drawn) \X (1..GenBatchSize) :
     sampling.n > 1 => p \notin flat}

SamplingTypes ==
  /\ sampling \in Samplings /\ dapo \in {"running", "returned", "raised", "exhausted"}
  /\ drawn \in 0..GenBatches /\ num_gen_batches \in 0..drawn
  /\ gen_step \in 1..sampling.total_steps
  /\ flat \subseteq Prompt /\ \A p \in flat : p[1] <= drawn
  /\ trained \in Seq(Seq(Row))

Collecting ==
  /\ sampling.filter =>
       /\ BatchOf(rows) = Collected /\ num_prompt_in_batch < TrainBatchSize
       /\ \E ps : Grouped(rows, ps, sampling.n) /\ Len(ps) = num_prompt_in_batch
  /\ ~sampling.filter => rows = <<>> /\ num_prompt_in_batch = 0 /\ num_gen_batches = 0
  /\ dapo = "running" => MayGoOn(num_gen_batches)
  /\ dapo = "raised" => sampling.filter /\ num_gen_batches = sampling.max_num_gen_batches

(* A batch that was trained on is from before what is collected now.       *)
TrainedOn(b) ==
  /\ \E ps : Grouped(b, ps, sampling.n) /\ Len(ps) = PromptsAsked
  /\ \A p \in BatchOf(b) : p[1] <= drawn - num_gen_batches
  /\ Informative(BatchOf(b))
BatchesApart ==
  /\ \A i \in 1..Len(trained) : TrainedOn(trained[i])
  /\ \A i, j \in 1..Len(trained) : j < i => BatchOf(trained[j]) \cap BatchOf(trained[i]) = {}

Numbered ==
  /\ NumberedByUpdates
  /\ dapo = "running" => Len(trained) = gen_step - 1 /\ DOMAIN saved \subseteq 1..gen_step - 1

SamplingInv == SamplingTypes /\ Collecting /\ BatchesApart /\ Numbered

LEMMA SamplingConstants ==
  ASSUME sampling \in Samplings
  PROVE  /\ sampling.n \in Nat \ {0} /\ sampling.filter \in BOOLEAN
         /\ sampling.total_steps \in Nat \ {0} /\ sampling.max_num_gen_batches \in Int
         /\ GenBatchSize \in Nat \ {0} /\ TrainBatchSize \in Nat \ {0} /\ GenBatches \in Nat \ {0}
BY SamplingAssumption

LEMMA NothingGrouped ==
  ASSUME NEW n \in Nat \ {0}
  PROVE  Grouped(<<>>, <<>>, n) /\ BatchOf(<<>>) = {}
<1>1. Len(<<>>) = 0 /\ <<>> \in Seq(Row) /\ <<>> \in Seq(Prompt) /\ 0 * n = 0
  BY EmptySeq
<1>2. ToSet(<<>>) = {}
  BY DEF ToSet
<1>3. BatchOf(<<>>) = {}
  BY <1>2 DEF BatchOf
<1> QED BY <1>1, <1>3 DEF Grouped

(* What SamplingKept says follows. *)
LEMMA SamplingInvSays == SamplingInv => SamplingKept
<1> SUFFICES ASSUME SamplingInv PROVE SamplingKept
  OBVIOUS
<1>0. sampling \in Samplings
  BY DEF SamplingInv, SamplingTypes
<1>1. CountAgrees
  <2>1. CASE sampling.filter
    BY <2>1 DEF SamplingInv, Collecting, Grouped, CountAgrees
  <2>2. CASE ~sampling.filter
    <3>1. rows = <<>> /\ num_prompt_in_batch = 0 /\ Len(<<>>) = 0
      BY <2>2 DEF SamplingInv, Collecting
    <3> QED BY <3>1, <1>0, SamplingConstants DEF CountAgrees
  <2> QED BY <2>1, <2>2
<1>2. WholeGroups
  <2> SUFFICES ASSUME NEW i \in DOMAIN trained
               PROVE  LET prompts == BatchOf(trained[i])
                      IN /\ Cardinality(prompts) = PromptsAsked
                         /\ ToSet(trained[i])
                              = {<<p[1], p[2], k>> : p \in prompts, k \in 1..sampling.n}
                         /\ Informative(prompts)
                         /\ \A j \in 1..i - 1 : BatchOf(trained[j]) \cap prompts = {}
    BY DEF WholeGroups
  <2>1. DOMAIN trained = 1..Len(trained) /\ Len(trained) \in Nat
    BY DEF SamplingInv, SamplingTypes
  <2>2. TrainedOn(trained[i])
    BY <2>1 DEF SamplingInv, BatchesApart
  <2>3. PICK ps : Grouped(trained[i], ps, sampling.n) /\ Len(ps) = PromptsAsked
    BY <2>2 DEF TrainedOn
  <2>4. /\ Cardinality(BatchOf(trained[i])) = PromptsAsked
        /\ ToSet(trained[i]) = {<<p[1], p[2], k>> : p \in BatchOf(trained[i]), k \in 1..sampling.n}
    BY <1>0, <2>3, SamplingConstants, GroupedHas
  <2>5. \A j \in 1..i - 1 : j \in 1..Len(trained) /\ j < i
    BY <2>1
  <2>6. \A j \in 1..i - 1 : BatchOf(trained[j]) \cap BatchOf(trained[i]) = {}
    BY <2>1, <2>5 DEF SamplingInv, BatchesApart
  <2> QED BY <2>2, <2>4, <2>6 DEF TrainedOn
<1>3. RaisedTooFew
  <2> SUFFICES ASSUME dapo = "raised"
               PROVE  /\ num_gen_batches = sampling.max_num_gen_batches
                      /\ Cardinality(
                           (UNION {PromptsOf(g) : g \in drawn - num_gen_batches + 1..drawn}) \ flat)
                           < TrainBatchSize
    BY DEF RaisedTooFew
  <2> DEFINE left == (UNION {PromptsOf(g) : g \in drawn - num_gen_batches + 1..drawn}) \ flat
  <2>1. /\ sampling.filter /\ num_gen_batches = sampling.max_num_gen_batches
        /\ BatchOf(rows) = Collected /\ num_prompt_in_batch < TrainBatchSize
    BY DEF SamplingInv, Collecting
  <2>2. PICK ps : Grouped(rows, ps, sampling.n) /\ Len(ps) = num_prompt_in_batch
    BY <2>1 DEF SamplingInv, Collecting
  <2>3. IsFiniteSet(Collected) /\ Cardinality(Collected) = num_prompt_in_batch
    BY <1>0, <2>1, <2>2, SamplingConstants, GroupedHas
  <2>4. left \in SUBSET Collected
    BY DEF Collected, PromptsOf
  <2>5. IsFiniteSet(left) /\ Cardinality(left) <= Cardinality(Collected)
    BY <2>3, <2>4, FS_Subset
  <2>6. Cardinality(left) \in Nat /\ num_prompt_in_batch \in Nat /\ TrainBatchSize \in Nat
    BY <1>0, <2>3, <2>5, FS_CardinalityType, SamplingConstants
  <2> HIDE DEF left
  <2>7. Cardinality(left) < TrainBatchSize
    BY <2>1, <2>3, <2>5, <2>6
  <2> QED BY <2>1, <2>7 DEF left
<1>4. NumberedByUpdates
  BY DEF SamplingInv, Numbered
<1> QED BY <1>1, <1>2, <1>3, <1>4 DEF SamplingKept

LEMMA SamplingInitial == SamplingInit => SamplingInv
<1> SUFFICES ASSUME SamplingInit PROVE SamplingInv
  OBVIOUS
<1>0. /\ sampling \in Samplings /\ sampling.n \in Nat \ {0} /\ sampling.total_steps \in Nat \ {0}
      /\ sampling.max_num_gen_batches \in Int
      /\ TrainBatchSize \in Nat \ {0} /\ GenBatches \in Nat \ {0} /\ GenBatchSize \in Nat
  BY SamplingConstants DEF SamplingInit
<1>1. Len(<<>>) = 0 /\ <<>> \in Seq(Seq(Row)) /\ DOMAIN <<>> = {}
  BY EmptySeq
<1>2. SamplingTypes
  BY <1>0, <1>1 DEF SamplingInit, SamplingTypes
<1>3. Collecting
  <2>1. Collected = {}
    BY DEF SamplingInit, Collected
  <2>2. Grouped(rows, <<>>, sampling.n) /\ BatchOf(rows) = {}
    BY <1>0, NothingGrouped DEF SamplingInit
  <2>3. MayGoOn(num_gen_batches)
    BY <1>0 DEF SamplingInit, MayGoOn
  <2> QED BY <1>0, <1>1, <2>1, <2>2, <2>3 DEF SamplingInit, Collecting
<1>4. BatchesApart
  BY <1>1 DEF SamplingInit, BatchesApart
<1>5. Numbered
  BY <1>1 DEF SamplingInit, Numbered, NumberedByUpdates
<1> QED BY <1>2, <1>3, <1>4, <1>5 DEF SamplingInv

(* A generation batch has been drawn: what is new is its prompts, and which *)
(* of them are flat.                                                       *)
BatchDrawn(same) ==
  /\ dapo = "running" /\ drawn < GenBatches /\ drawn' = drawn + 1
  /\ same \subseteq PromptsOf(drawn + 1) /\ flat' = flat \cup same
  /\ UNCHANGED sampling

LEMMA BatchDrawnTypes ==
  ASSUME SamplingInv, NEW same, BatchDrawn(same)
  PROVE  /\ sampling' \in Samplings /\ drawn' \in 1..GenBatches /\ drawn \in Nat
         /\ num_gen_batches \in Nat /\ num_gen_batches <= drawn
         /\ flat' \subseteq Prompt /\ \A p \in flat' : p[1] <= drawn'
         /\ \A p \in PromptsOf(drawn + 1) : p[1] = drawn + 1 /\ p \in Prompt
         /\ \A p \in flat' \ flat : p[1] = drawn + 1
<1>1. /\ sampling \in Samplings /\ drawn \in 0..GenBatches /\ num_gen_batches \in 0..drawn
      /\ flat \subseteq Prompt /\ \A p \in flat : p[1] <= drawn
      /\ GenBatches \in Nat /\ GenBatchSize \in Nat
  BY SamplingConstants DEF SamplingInv, SamplingTypes
<1>2. \A p \in PromptsOf(drawn + 1) : p[1] = drawn + 1 /\ p \in Prompt
  BY <1>1 DEF PromptsOf, Prompt
<1>3. \A p \in flat' : p \in flat \/ p \in PromptsOf(drawn + 1)
  BY DEF BatchDrawn
<1>4. \A p \in flat' \ flat : p[1] = drawn + 1
  BY <1>2, <1>3
<1>5. \A p \in flat' : p[1] <= drawn + 1 /\ p \in Prompt
  <2> SUFFICES ASSUME NEW p \in flat' PROVE p[1] <= drawn + 1 /\ p \in Prompt
    OBVIOUS
  <2>1. CASE p \in flat
    <3>1. p[1] <= drawn /\ p \in Prompt /\ p[1] \in Nat
      BY <1>1, <2>1 DEF Prompt
    <3> QED BY <1>1, <3>1
  <2>2. CASE p \in PromptsOf(drawn + 1)
    BY <1>1, <1>2, <2>2
  <2> QED BY <1>3, <2>1, <2>2
<1> QED BY <1>1, <1>2, <1>4, <1>5 DEF BatchDrawn

(* A prompt of an earlier generation batch is as informative as it was.    *)
LEMMA EarlierStays ==
  ASSUME SamplingInv, NEW same, BatchDrawn(same), NEW prompts, prompts \subseteq Prompt,
         \A p \in prompts : p[1] <= drawn, Informative(prompts)
  PROVE  Informative(prompts)'
<1>1. /\ \A p \in flat' \ flat : p[1] = drawn + 1
      /\ drawn \in Nat
  BY BatchDrawnTypes
<1>2. \A p \in prompts : p \notin flat' \ flat
  BY <1>1
<1>3. sampling' = sampling
  BY DEF BatchDrawn
<1> QED BY <1>2, <1>3 DEF Informative

(* A step on a batch of as many whole groups as asked for.                 *)
LEMMA UpdateKeeps ==
  ASSUME SamplingInv, NEW same, BatchDrawn(same), NEW b, NEW count, Update(b, count),
         NEW ps, Grouped(b, ps, sampling.n), Len(ps) = PromptsAsked,
         \A p \in BatchOf(b) : p[1] \in drawn - num_gen_batches + 1..drawn + 1,
         sampling.filter /\ sampling.n > 1 => BatchOf(b) \cap flat' = {}
  PROVE  SamplingInv'
<1>0. /\ sampling.n \in Nat \ {0} /\ sampling.total_steps \in Nat \ {0}
      /\ sampling.max_num_gen_batches \in Int /\ TrainBatchSize \in Nat \ {0}
      /\ sampling' = sampling
  BY SamplingConstants DEF SamplingInv, SamplingTypes, BatchDrawn
<1>1. /\ trained \in Seq(Seq(Row)) /\ gen_step \in 1..sampling.total_steps
      /\ Len(trained) = gen_step - 1 /\ Len(trained) \in Nat
  BY DEF SamplingInv, SamplingTypes, Numbered, BatchDrawn
<1>2. /\ trained' \in Seq(Seq(Row)) /\ Len(trained') = gen_step
      /\ trained'[gen_step] = b /\ \A i \in 1..gen_step - 1 : trained'[i] = trained[i]
  <2>1. trained' = Append(trained, b) /\ b \in Seq(Row)
    BY DEF Update, Grouped
  <2>2. Len(trained) + 1 = gen_step
    BY <1>1
  <2> QED BY <1>1, <2>1, <2>2, AppendProperties
<1>3. /\ rows' = <<>> /\ num_prompt_in_batch' = 0 /\ num_gen_batches' = 0
      /\ dapo' \in {"running", "returned"}
      /\ gen_step' \in 1..sampling.total_steps
      /\ dapo' = "running" => gen_step' = gen_step + 1
  BY <1>0, <1>1 DEF Update, CountAfterStep, BatchDrawn
<1>4. SamplingTypes'
  <2>1. num_gen_batches' \in 0..drawn' /\ drawn' \in 0..GenBatches
    BY <1>3, BatchDrawnTypes
  <2> QED BY <1>0, <1>2, <1>3, <2>1, BatchDrawnTypes DEF SamplingTypes
<1>5. Collecting'
  <2>1. Collected' = {}
    BY <1>3, BatchDrawnTypes DEF Collected
  <2>2. Grouped(rows', <<>>, sampling.n) /\ BatchOf(rows') = {} /\ Len(<<>>) = 0
    BY <1>0, <1>3, NothingGrouped
  <2>3. MayGoOn(num_gen_batches)'
    BY <1>0, <1>3 DEF MayGoOn
  <2>4. BatchOf(rows)' = {} /\ \E qs : Grouped(rows', qs, sampling'.n) /\ Len(qs) = 0
    BY <1>0, <2>2
  <2> QED BY <1>0, <1>3, <2>1, <2>3, <2>4 DEF Collecting
<1>6. BatchesApart'
  <2>1. PromptsAsked' = PromptsAsked
    BY <1>0 DEF PromptsAsked
  <2>2. ASSUME NEW i \in 1..gen_step - 1
        PROVE  TrainedOn(trained[i]) /\ BatchOf(trained[i]) \cap BatchOf(b) = {}
    <3>1. TrainedOn(trained[i])
      BY <1>1 DEF SamplingInv, BatchesApart
    <3>2. /\ \A p \in BatchOf(trained[i]) : p[1] <= drawn - num_gen_batches /\ p[1] \in Nat
          /\ \A p \in BatchOf(b) : p[1] >= drawn - num_gen_batches + 1
      <4>1. BatchOf(trained[i]) \subseteq Prompt
        BY <1>0, <3>1, GroupedHas DEF TrainedOn
      <4>2. \A p \in BatchOf(trained[i]) : p[1] \in Nat
        BY <4>1 DEF Prompt
      <4> QED BY <3>1, <4>2 DEF TrainedOn
    <3>3. drawn \in Nat /\ num_gen_batches \in Nat
      BY BatchDrawnTypes
    <3> QED BY <3>1, <3>2, <3>3
  <2>3. ASSUME NEW i \in 1..gen_step PROVE TrainedOn(trained[i])'
    <3>1. CASE i < gen_step
      <4>1. i \in 1..gen_step - 1
        BY <1>1, <3>1
      <4>2. trained'[i] = trained[i] /\ TrainedOn(trained[i])
        BY <1>2, <2>2, <4>1
      <4>3. BatchOf(trained[i]) \subseteq Prompt
        BY <1>0, <4>2, GroupedHas DEF TrainedOn
      <4>4. \A p \in BatchOf(trained[i]) : p[1] <= drawn /\ p[1] <= drawn' - num_gen_batches'
        <5>1. \A p \in BatchOf(trained[i]) : p[1] \in Nat /\ p[1] <= drawn - num_gen_batches
          BY <4>2, <4>3 DEF TrainedOn, Prompt
        <5>2. drawn \in Nat /\ num_gen_batches \in Nat /\ drawn' = drawn + 1
          BY BatchDrawnTypes DEF BatchDrawn
        <5> QED BY <1>3, <5>1, <5>2
      <4>5. Informative(BatchOf(trained[i]))
        BY <4>2 DEF TrainedOn
      <4> DEFINE B == BatchOf(trained[i])
      <4>6. sampling'.filter /\ sampling'.n > 1 => BatchOf(trained[i]) \cap flat' = {}
        <5>1. /\ \A p \in flat' \ flat : p[1] = drawn + 1
              /\ drawn \in Nat
          BY BatchDrawnTypes
        <5>2. \A p \in BatchOf(trained[i]) : p \notin flat' \ flat
          BY <4>4, <5>1
        <5> QED BY <1>0, <4>5, <5>2 DEF Informative
      <4>7. \E qs : Grouped(trained'[i], qs, sampling'.n) /\ Len(qs) = PromptsAsked'
        BY <1>0, <2>1, <4>2 DEF TrainedOn
      <4> QED BY <4>2, <4>4, <4>6, <4>7 DEF TrainedOn, Informative
    <3>2. CASE i = gen_step
      <4>1. trained'[i] = b
        BY <1>2, <3>2
      <4>2. \A p \in BatchOf(b) : p[1] <= drawn' - num_gen_batches'
        <5>1. drawn \in Nat /\ num_gen_batches \in Nat /\ drawn' = drawn + 1
          BY BatchDrawnTypes DEF BatchDrawn
        <5> QED BY <1>3, <5>1
      <4>3. \E qs : Grouped(trained'[i], qs, sampling'.n) /\ Len(qs) = PromptsAsked'
        BY <1>0, <2>1, <4>1
      <4>4. sampling'.filter /\ sampling'.n > 1 => BatchOf(b) \cap flat' = {}
        BY <1>0
      <4> QED BY <4>1, <4>2, <4>3, <4>4 DEF TrainedOn, Informative
    <3> QED BY <1>1, <3>1, <3>2
  <2>4. ASSUME NEW i \in 1..gen_step, NEW j \in 1..gen_step, j < i
        PROVE  BatchOf(trained'[j]) \cap BatchOf(trained'[i]) = {}
    <3>1. j \in 1..gen_step - 1 /\ j \in 1..Len(trained) /\ trained'[j] = trained[j]
      BY <1>1, <1>2, <2>4
    <3>2. CASE i = gen_step
      BY <1>2, <2>2, <3>1, <3>2
    <3>3. CASE i < gen_step
      <4>1. i \in 1..gen_step - 1 /\ i \in 1..Len(trained)
        BY <1>1, <3>3
      <4>2. trained'[i] = trained[i]
        BY <1>2, <4>1
      <4> QED BY <2>4, <3>1, <4>1, <4>2 DEF SamplingInv, BatchesApart
    <3> QED BY <1>1, <3>2, <3>3
  <2> QED BY <1>2, <2>3, <2>4 DEF BatchesApart
<1>7. Numbered'
  <2>1. \A s \in DOMAIN saved : saved[s] = s /\ s \in 1..gen_step - 1
    BY DEF SamplingInv, Numbered, NumberedByUpdates, BatchDrawn
  <2>2. \A s \in DOMAIN saved' : saved'[s] = s /\ s \in 1..gen_step
    <3>1. CASE SavesAt(gen_step)
      <4>1. saved' = WithCheckpoint(Len(trained) + 1) /\ Len(trained) + 1 = gen_step
        BY <1>1, <3>1 DEF Update
      <4>2. saved' = [s \in DOMAIN saved \cup {gen_step} |->
                        IF s = gen_step THEN gen_step ELSE saved[s]]
        BY <4>1 DEF WithCheckpoint
      <4>3. gen_step \in 1..gen_step
        BY <1>1
      <4> QED BY <1>1, <2>1, <4>2, <4>3
    <3>2. CASE ~SavesAt(gen_step)
      <4>1. saved' = saved
        BY <3>2 DEF Update
      <4> QED BY <1>1, <2>1, <4>1
    <3> QED BY <3>1, <3>2
  <2>3. NumberedByUpdates'
    BY <1>3, <2>2 DEF NumberedByUpdates
  <2>4. dapo' = "running" =>
          Len(trained)' = gen_step' - 1 /\ DOMAIN saved' \subseteq 1..gen_step' - 1
    BY <1>0, <1>1, <1>2, <1>3, <2>2
  <2> QED BY <2>3, <2>4 DEF Numbered
<1> QED BY <1>4, <1>5, <1>6, <1>7 DEF SamplingInv

(* The rows of the batches so far, when no step is made. *)
LEMMA BatchesStay ==
  ASSUME SamplingInv, NEW same, BatchDrawn(same), UNCHANGED trained,
         num_gen_batches' = num_gen_batches + 1
  PROVE  BatchesApart'
<1>1. /\ sampling.n \in Nat \ {0} /\ sampling' = sampling /\ PromptsAsked' = PromptsAsked
      /\ drawn \in Nat /\ num_gen_batches \in Nat /\ drawn' = drawn + 1
      /\ \A p \in flat' \ flat : p[1] = drawn + 1
  BY SamplingConstants, BatchDrawnTypes DEF SamplingInv, SamplingTypes, BatchDrawn, PromptsAsked
<1>2. ASSUME NEW i \in 1..Len(trained) PROVE TrainedOn(trained[i])'
  <2>1. TrainedOn(trained[i])
    BY DEF SamplingInv, BatchesApart
  <2>2. BatchOf(trained[i]) \subseteq Prompt
    BY <1>1, <2>1, GroupedHas DEF TrainedOn
  <2>3. \A p \in BatchOf(trained[i]) : p[1] \in Nat /\ p[1] <= drawn - num_gen_batches
    BY <2>1, <2>2 DEF TrainedOn, Prompt
  <2>4. \A p \in BatchOf(trained[i]) : p[1] <= drawn' - num_gen_batches' /\ p \notin flat' \ flat
    BY <1>1, <2>3
  <2>5. sampling'.filter /\ sampling'.n > 1 => BatchOf(trained[i]) \cap flat' = {}
    BY <1>1, <2>1, <2>4 DEF TrainedOn, Informative
  <2>6. \E qs : Grouped(trained'[i], qs, sampling'.n) /\ Len(qs) = PromptsAsked'
    BY <1>1, <2>1 DEF TrainedOn
  <2> QED BY <2>4, <2>5, <2>6 DEF TrainedOn, Informative
<1>3. \A i, j \in 1..Len(trained) : j < i => BatchOf(trained'[j]) \cap BatchOf(trained'[i]) = {}
  BY DEF SamplingInv, BatchesApart
<1> QED BY <1>2, <1>3 DEF BatchesApart

LEMMA GenerateKeeps ==
  ASSUME SamplingInv, NEW same \in SUBSET PromptsOf(drawn + 1), GenerateAndFilter(same)
  PROVE  SamplingInv'
<1> DEFINE g == drawn + 1
           n == sampling.n
           chosen == IF sampling.n = 1 THEN PromptsOf(drawn + 1) ELSE PromptsOf(drawn + 1) \ same
           all == rows \o RowsOf(chosen)
           count == num_prompt_in_batch + Cardinality(chosen)
<1>1. BatchDrawn(same)
  BY DEF GenerateAndFilter, BatchDrawn
<1>2. /\ n \in Nat \ {0} /\ sampling.filter \in BOOLEAN /\ sampling.max_num_gen_batches \in Int
      /\ GenBatchSize \in Nat \ {0} /\ TrainBatchSize \in Nat \ {0} /\ sampling \in Samplings
      /\ drawn \in Nat /\ num_gen_batches \in Nat /\ num_gen_batches <= drawn /\ g \in Nat
      /\ drawn' = drawn + 1 /\ sampling' = sampling
  BY <1>1, SamplingConstants, BatchDrawnTypes DEF SamplingInv, SamplingTypes, BatchDrawn
<1>3. \A p \in PromptsOf(g) : p[1] = g /\ p \in Prompt
  BY <1>1, BatchDrawnTypes
<1>4. CASE ~sampling.filter
  <2>1. PICK ps : /\ Grouped(RowsOf(PromptsOf(g)), ps, n) /\ Len(ps) = Cardinality(PromptsOf(g))
                  /\ BatchOf(RowsOf(PromptsOf(g))) = PromptsOf(g)
    BY <1>2, RowsGrouped
  <2>2. Cardinality(PromptsOf(g)) = GenBatchSize
    <3> DEFINE f == [i \in 1..GenBatchSize |-> <<g, i>>]
    <3>1. f \in [1..GenBatchSize -> PromptsOf(g)]
      BY DEF PromptsOf
    <3>2. \A i, j \in 1..GenBatchSize : f[i] = f[j] => i = j
      OBVIOUS
    <3>3. \A p \in PromptsOf(g) : p[2] \in 1..GenBatchSize /\ f[p[2]] = p
      BY DEF PromptsOf
    <3>4. f \in Injection(1..GenBatchSize, PromptsOf(g))
      BY <3>1, <3>2 DEF Injection, IsInjective
    <3>5. f \in Surjection(1..GenBatchSize, PromptsOf(g))
      BY <3>1, <3>3 DEF Surjection
    <3>6. ExistsBijection(1..GenBatchSize, PromptsOf(g))
      BY <3>4, <3>5 DEF ExistsBijection, Bijection
    <3>7. IsFiniteSet(1..GenBatchSize) /\ Cardinality(1..GenBatchSize) = GenBatchSize
      BY <1>2, FS_Interval
    <3> QED BY <3>6, <3>7, FS_Bijection
  <2>3. Len(ps) = PromptsAsked
    BY <1>4, <2>1, <2>2 DEF PromptsAsked
  <2>4. num_gen_batches = 0
    BY <1>4 DEF SamplingInv, Collecting
  <2>5. \A p \in BatchOf(RowsOf(PromptsOf(g))) : p[1] \in drawn - num_gen_batches + 1..drawn + 1
    BY <1>2, <1>3, <2>1, <2>4
  <2>6. Update(RowsOf(PromptsOf(g)), num_prompt_in_batch)
    BY <1>4 DEF GenerateAndFilter
  <2> HIDE DEF g, n
  <2>7. Grouped(RowsOf(PromptsOf(g)), ps, sampling.n)
    BY <2>1 DEF n
  <2> QED BY <1>1, <1>4, <2>3, <2>5, <2>6, <2>7, UpdateKeeps
<1>5. CASE sampling.filter
  <2>1. chosen \subseteq PromptsOf(g)
    OBVIOUS
  <2>2. PICK qs : /\ Grouped(RowsOf(chosen), qs, n) /\ Len(qs) = Cardinality(chosen)
                  /\ BatchOf(RowsOf(chosen)) = chosen
    BY <1>2, <2>1, RowsGrouped
  <2>3. PICK ps : Grouped(rows, ps, n) /\ Len(ps) = num_prompt_in_batch
    BY <1>5 DEF SamplingInv, Collecting
  <2>4. BatchOf(rows) = Collected
    BY <1>5 DEF SamplingInv, Collecting
  <2>5. /\ Collected \subseteq Prompt
        /\ \A p \in Collected : p[1] \in drawn - num_gen_batches + 1..drawn /\ p[1] <= drawn
    BY <1>2 DEF Collected, Prompt
  <2>6. BatchOf(rows) \cap BatchOf(RowsOf(chosen)) = {}
    <3>1. \A p \in Collected : p[1] # g
      BY <1>2, <2>5
    <3> QED BY <1>3, <2>1, <2>2, <2>4, <3>1
  <2> HIDE DEF chosen
  <2>7. Grouped(all, ps \o qs, n) /\ BatchOf(all) = Collected \cup chosen
    <3> DEFINE new == RowsOf(chosen)
    <3>1. /\ Grouped(rows, ps, n) /\ BatchOf(rows) = Collected /\ BatchOf(rows) \cap BatchOf(new) = {}
          /\ Grouped(new, qs, n) /\ BatchOf(new) = chosen /\ all = rows \o new
      BY <2>2, <2>3, <2>4, <2>6
    <3>2. n \in Nat \ {0}
      BY <1>2
    <3> HIDE DEF new, all, n
    <3> QED BY <3>1, <3>2, GroupedConcat, SMTT(30)
  <2>8. Len(ps \o qs) = count /\ count \in Nat
    <3>1. ps \in Seq(Prompt) /\ qs \in Seq(Prompt)
      BY <2>2, <2>3 DEF Grouped
    <3>2. Len(ps \o qs) = Len(ps) + Len(qs) /\ Len(ps) \in Nat /\ Len(qs) \in Nat
      BY <3>1, ConcatProperties, LenProperties
    <3> QED BY <2>2, <2>3, <3>2
  <2>9. Collected \cup chosen = {p \in (drawn - num_gen_batches + 1..drawn + 1) \X (1..GenBatchSize) :
                                 sampling.n > 1 => p \notin flat'}
    <3> DEFINE R == {p \in (drawn - num_gen_batches + 1..drawn + 1) \X (1..GenBatchSize) :
                       sampling.n > 1 => p \notin flat'}
    <3>1. flat' = flat \cup same /\ \A p \in flat : p[1] <= drawn
      BY DEF GenerateAndFilter, SamplingInv, SamplingTypes
    <3>2. \A p \in same : p[1] = g
      BY <1>3
    <3>3. ASSUME NEW p \in Collected PROVE p \in R
      <4>1. p \notin same
        BY <1>2, <2>5, <3>2
      <4>2. p \in (drawn - num_gen_batches + 1..drawn + 1) \X (1..GenBatchSize)
        BY <1>2 DEF Collected
      <4>3. sampling.n > 1 => p \notin flat
        BY DEF Collected
      <4> QED BY <3>1, <4>1, <4>2, <4>3
    <3>4. ASSUME NEW p \in chosen PROVE p \in R
      <4>1. p \in PromptsOf(g) /\ (sampling.n > 1 => p \notin same)
        BY <1>2 DEF chosen
      <4>2. p \notin flat
        BY <1>2, <1>3, <3>1, <4>1
      <4>3. p \in (drawn - num_gen_batches + 1..drawn + 1) \X (1..GenBatchSize)
        BY <1>2, <4>1 DEF PromptsOf
      <4> QED BY <3>1, <4>1, <4>2, <4>3
    <3>5. ASSUME NEW p \in R PROVE p \in Collected \cup chosen
      <4>1. p \in (drawn - num_gen_batches + 1..drawn + 1) \X (1..GenBatchSize)
            /\ (sampling.n > 1 => p \notin flat /\ p \notin same)
        BY <3>1
      <4>2. CASE p[1] = drawn + 1
        <5>1. p \in PromptsOf(drawn + 1)
          BY <4>1, <4>2 DEF PromptsOf
        <5> QED BY <1>2, <4>1, <5>1 DEF chosen
      <4>3. CASE p[1] # drawn + 1
        <5>1. p[1] \in drawn - num_gen_batches + 1..drawn + 1
          BY <4>1
        <5>2. p[1] \in drawn - num_gen_batches + 1..drawn
          BY <1>2, <4>3, <5>1
        <5>3. p \in (drawn - num_gen_batches + 1..drawn) \X (1..GenBatchSize)
          BY <4>1, <5>2
        <5> QED BY <4>1, <5>3 DEF Collected
      <4> QED BY <4>2, <4>3
    <3> QED BY <3>3, <3>4, <3>5
  <2> HIDE DEF all, count
  <2>10. CASE count < TrainBatchSize
    <3>1. KeepGenerating(all, count)
      BY <1>5, <2>10 DEF GenerateAndFilter, all, count, chosen
    <3>2. /\ num_gen_batches' = num_gen_batches + 1 /\ num_prompt_in_batch' = count
          /\ rows' = all /\ UNCHANGED <<gen_step, trained, saved>>
          /\ dapo' = IF MayGoOn(num_gen_batches + 1) THEN "running" ELSE "raised"
      BY <3>1 DEF KeepGenerating
    <3>3. SamplingTypes'
      <4>1. num_gen_batches' \in 0..drawn' /\ drawn' \in 0..GenBatches
        BY <1>1, <1>2, <3>2, BatchDrawnTypes
      <4>2. trained' \in Seq(Seq(Row)) /\ gen_step' \in 1..sampling'.total_steps
        BY <1>2, <3>2 DEF SamplingInv, SamplingTypes
      <4> QED BY <1>1, <3>2, <4>1, <4>2, BatchDrawnTypes DEF SamplingTypes
    <3>4. Collecting'
      <4>1. Collected' = Collected \cup chosen
        <5>1. drawn' - num_gen_batches' + 1 = drawn - num_gen_batches + 1
          BY <1>2, <3>2
        <5> QED BY <1>2, <2>9, <5>1 DEF Collected
      <4>2. BatchOf(rows)' = Collected'
        BY <2>7, <3>2, <4>1
      <4>3. \E rs : Grouped(rows', rs, sampling'.n) /\ Len(rs) = num_prompt_in_batch'
        BY <1>2, <2>7, <2>8, <3>2
      <4>4. MayGoOn(num_gen_batches)
        BY <1>1 DEF SamplingInv, Collecting, BatchDrawn
      <4>5. dapo' = "running" => MayGoOn(num_gen_batches)'
        BY <1>2, <3>2 DEF MayGoOn
      <4>6. dapo' = "raised" => num_gen_batches' = sampling'.max_num_gen_batches
        BY <1>2, <3>2, <4>4 DEF MayGoOn
      <4> QED BY <1>2, <1>5, <2>10, <3>2, <4>2, <4>3, <4>5, <4>6 DEF Collecting
    <3>5. BatchesApart'
      BY <1>1, <3>2, BatchesStay
    <3>6. Numbered'
      <4>1. dapo = "running" /\ dapo' # "exhausted"
        BY <1>1, <3>2 DEF BatchDrawn
      <4> QED BY <3>2, <4>1 DEF SamplingInv, Numbered, NumberedByUpdates
    <3> QED BY <3>3, <3>4, <3>5, <3>6 DEF SamplingInv
  <2>11. CASE ~(count < TrainBatchSize)
    <3> DEFINE b == SubSeq(all, 1, TrainBatchSize * n)
               rs == SubSeq(ps \o qs, 1, TrainBatchSize)
    <3>1. Update(b, count)
      BY <1>5, <2>11 DEF GenerateAndFilter, all, count, chosen
    <3>2. TrainBatchSize \in Nat /\ TrainBatchSize <= Len(ps \o qs)
      BY <1>2, <2>8, <2>11
    <3>3. Grouped(b, rs, n) /\ BatchOf(b) \subseteq BatchOf(all) /\ Len(rs) = TrainBatchSize
      BY <1>2, <2>7, <3>2, GroupedPrefix
    <3> HIDE DEF b, rs
    <3>4. \A p \in BatchOf(b) : p[1] \in drawn - num_gen_batches + 1..drawn + 1
      BY <2>7, <2>9, <3>3
    <3>5. sampling.filter /\ sampling.n > 1 => BatchOf(b) \cap flat' = {}
      BY <2>7, <2>9, <3>3
    <3>6. Len(rs) = PromptsAsked
      BY <1>5, <3>3 DEF PromptsAsked
    <3>7. Grouped(b, rs, sampling.n)
      BY <3>3
    <3> QED BY <1>1, <3>1, <3>4, <3>5, <3>6, <3>7, UpdateKeeps
  <2> QED BY <2>10, <2>11
<1> QED BY <1>2, <1>4, <1>5

(* What depends on the batches alone. *)
LEMMA BatchesSame ==
  ASSUME SamplingInv,
         UNCHANGED <<sampling, drawn, rows, num_prompt_in_batch, num_gen_batches, flat, trained>>
  PROVE  /\ BatchesApart'
         /\ dapo' \in {dapo, "exhausted"} => Collecting'
<1>1. BatchesApart'
  <2>1. \A i \in 1..Len(trained) : TrainedOn(trained[i])'
    BY DEF SamplingInv, BatchesApart, TrainedOn, Informative, PromptsAsked
  <2> QED BY <2>1 DEF SamplingInv, BatchesApart
<1>2. ASSUME dapo' \in {dapo, "exhausted"} PROVE Collecting'
  <2>1. Collected' = Collected /\ BatchOf(rows)' = BatchOf(rows)
    BY DEF Collected
  <2>2. sampling.filter => \E ps : Grouped(rows', ps, sampling'.n) /\ Len(ps) = num_prompt_in_batch'
    BY DEF SamplingInv, Collecting
  <2>3. MayGoOn(num_gen_batches)' <=> MayGoOn(num_gen_batches)
    BY DEF MayGoOn
  <2> QED BY <1>2, <2>1, <2>2, <2>3 DEF SamplingInv, Collecting
<1> QED BY <1>1, <1>2

LEMMA ExhaustedKeeps ==
  ASSUME SamplingInv, Exhausted
  PROVE  SamplingInv'
<1>1. /\ UNCHANGED <<sampling, drawn, gen_step, rows, num_prompt_in_batch, num_gen_batches, flat,
                     trained>>
      /\ dapo = "running" /\ dapo' = "exhausted"
  BY DEF Exhausted
<1>2. SamplingTypes'
  BY <1>1 DEF SamplingInv, SamplingTypes
<1>3. Collecting' /\ BatchesApart'
  BY <1>1, BatchesSame
<1>4. Numbered'
  <2>1. /\ \A s \in DOMAIN saved : saved[s] = s /\ s \in 1..gen_step - 1
        /\ Len(trained) = gen_step - 1 /\ gen_step \in Nat
    BY <1>1 DEF SamplingInv, SamplingTypes, Numbered, NumberedByUpdates
  <2>2. saved' = WithCheckpoint(gen_step - 1)
    BY <2>1 DEF Exhausted
  <2>3. saved' = [s \in DOMAIN saved \cup {gen_step} |->
                    IF s = gen_step THEN gen_step - 1 ELSE saved[s]]
    BY <2>2 DEF WithCheckpoint
  <2>4. \A s \in DOMAIN saved' : saved'[s] = IF s = gen_step THEN s - 1 ELSE s
    BY <2>1, <2>3
  <2> QED BY <1>1, <2>4 DEF Numbered, NumberedByUpdates
<1> QED BY <1>2, <1>3, <1>4 DEF SamplingInv

LEMMA SamplingStill ==
  ASSUME SamplingInv, UNCHANGED samplingVars
  PROVE  SamplingInv'
<1>1. SamplingTypes'
  BY DEF SamplingInv, samplingVars, SamplingTypes
<1>2. Collecting' /\ BatchesApart'
  BY BatchesSame DEF samplingVars
<1>3. Numbered'
  BY DEF SamplingInv, samplingVars, Numbered, NumberedByUpdates
<1> QED BY <1>1, <1>2, <1>3 DEF SamplingInv

(* SamplingKept: a training batch is made of as many prompts as asked for, *)
(* all their responses, none of them without a difference in reward, and   *)
(* no prompt twice; fit raises only with too few prompts from as many      *)
(* generation batches as it may try; checkpoints are numbered by updates.  *)
(* For any dataloader, batch sizes, settings and rewards.                  *)
THEOREM SamplingStaysWhole == SamplingSpec => []SamplingKept
<1>1. SamplingInv /\ [SamplingNext]_samplingVars => SamplingInv'
  <2> SUFFICES ASSUME SamplingInv, [SamplingNext]_samplingVars PROVE SamplingInv'
    OBVIOUS
  <2>1. ASSUME NEW same \in SUBSET PromptsOf(drawn + 1), GenerateAndFilter(same) PROVE SamplingInv'
    BY <2>1, GenerateKeeps
  <2>2. CASE Exhausted
    BY <2>2, ExhaustedKeeps
  <2>3. CASE UNCHANGED samplingVars
    BY <2>3, SamplingStill
  <2> QED BY <2>1, <2>2, <2>3 DEF SamplingNext, SamplingSteps
<1> QED BY <1>1, SamplingInitial, SamplingInvSays, PTL DEF SamplingSpec

-------------------------------------------------------------------------------
(* The alignment of tokenizations, for any strings of bytes, any ways to   *)
(* cut them into tokens, any cut of the teacher's sequence, and any        *)
(* threshold.  AlignInv keeps, for every chunk marked so far, the tokens   *)
(* it was made of on either side (AlignedAs): it lies behind both          *)
(* pointers, which only advance, so that no later chunk reaches into it;   *)
(* the row filled in at the end is what was marked (RowFilled).            *)

AlignTypes ==
  /\ n_stu \in Nat /\ n_tec \in Nat /\ n_special \in Nat
  /\ s_ptr \in 1..n_stu + 1 /\ t_ptr \in 1..n_tec + 1
  /\ s_end \in 1..n_stu + 1 /\ t_end \in 1..n_tec + 1
  /\ teacher_truncated \in BOOLEAN /\ at \in {"growing", "ended", "filled"}
  /\ at = "growing" => s_ptr <= s_end /\ t_ptr <= t_end

(* Chunk id is the student's tokens a..b and the teacher's u..v.           *)
AlignedAs(id, a, b, u, v) ==
  /\ a \in 1..b /\ b \in 1..n_stu /\ b < s_ptr
  /\ u \in 1..v /\ v \in 1..n_tec /\ v < t_ptr
  /\ b - a < LargeChunkThreshold /\ v - u < LargeChunkThreshold
  /\ \A k \in 1..n_stu : chunk_ids[k] = id <=> k \in a..b
  /\ \A k \in a..b : aligned[k] = [sum |-> u..v, of |-> b - a + 1]
  /\ Text(student, a, b) = Text(teacher, u, v)
  /\ ~Incomplete(Text(student, a, b))

ChunksMade ==
  /\ chunk_count \in 0..s_ptr - 1
  /\ \A k \in 1..n_stu :
       /\ chunk_ids[k] \in -1..chunk_count - 1
       /\ chunk_ids[k] # -1 => \E a, b, u, v \in Int : AlignedAs(chunk_ids[k], a, b, u, v)

SumsApart ==
  \A j, k \in 1..n_stu :
    chunk_ids[j] # -1 /\ chunk_ids[k] # -1 /\ chunk_ids[j] # chunk_ids[k]
      => aligned[j].sum \cap aligned[k].sum = {}

FilledRow ==
  [k \in 1..n_stu + n_special |->
     IF k <= n_stu THEN [logp |-> aligned[k], chunk |-> chunk_ids[k]]
     ELSE IF k = n_stu + 1 THEN [logp |-> EndOfTeacher, chunk |-> EndChunk]
     ELSE [logp |-> Unaligned, chunk |-> -1]]
RowFilled ==
  IF at = "filled" THEN row = IF teacher_truncated THEN GivenUp ELSE FilledRow ELSE row = <<>>

AlignInv == AlignTypes /\ ChunksMade /\ SumsApart /\ RowFilled

-------------------------------------------------------------------------------
(* A tokenization is a sequence of tokens.                                 *)
LEMMA TokensInSequence ==
  ASSUME NEW b, Len(b) \in Nat, NEW toks \in Tokenizations(b)
  PROVE  toks = <<>> \/ \E n \in Nat : toks = [k \in 1..n |-> toks[k]]
<1>1. CASE b = <<>>
  BY <1>1 DEF Tokenizations
<1>2. CASE b # <<>>
  <2>1. \E cuts \in SUBSET (1..Len(b) - 1) :
          toks = [n \in 1..Cardinality(cuts) + 1 |-> TokenAt(b, cuts \cup {Len(b)}, n)]
    <3> DEFINE Cutting(cuts) == [n \in 1..Cardinality(cuts) + 1 |-> TokenAt(b, cuts \cup {Len(b)}, n)]
    <3>1. Tokenizations(b) = {Cutting(cuts) : cuts \in SUBSET (1..Len(b) - 1)}
      BY <1>2 DEF Tokenizations
    <3>2. toks \in {Cutting(cuts) : cuts \in SUBSET (1..Len(b) - 1)}
      BY <3>1
    <3> HIDE DEF Cutting
    <3>3. \E cuts \in SUBSET (1..Len(b) - 1) : toks = Cutting(cuts)
      BY <3>2
    <3> QED
      BY <3>3 DEF Cutting
  <2>2. PICK cuts \in SUBSET (1..Len(b) - 1) :
          toks = [n \in 1..Cardinality(cuts) + 1 |-> TokenAt(b, cuts \cup {Len(b)}, n)]
    BY <2>1
  <2>3. IsFiniteSet(1..Len(b) - 1)
    BY FS_Interval
  <2>4. Cardinality(cuts) + 1 \in Nat
    <3>1. IsFiniteSet(cuts)
      BY <2>3, FS_Subset
    <3>2. Cardinality(cuts) \in Nat
      BY <3>1, FS_CardinalityType
    <3> QED
      BY <3>2
  <2> QED
    BY <2>2, <2>4
<1> QED
  BY <1>1, <1>2

LEMMA LengthOfTokens ==
  ASSUME NEW b, Len(b) \in Nat, NEW toks \in Tokenizations(b)
  PROVE  Len(toks) \in Nat /\ DOMAIN toks = 1..Len(toks)
<1>1. CASE toks = <<>>
  BY <1>1
<1>2. ASSUME NEW n \in Nat, toks = [k \in 1..n |-> toks[k]]
      PROVE  Len(toks) \in Nat /\ DOMAIN toks = 1..Len(toks)
  BY <1>2
<1> QED
  BY <1>1, <1>2, TokensInSequence

LEMMA AlignInitial == AlignInit => AlignInv
<1> SUFFICES ASSUME AlignInit PROVE AlignInv
  OBVIOUS
<1>1. PICK b \in StudentBytes : \E full \in Tokenizations(Encode(b)) :
        /\ student \in Tokenizations(b)
        /\ \E n \in 0..Len(full) : teacher = SubSeq(full, 1, n)
  BY DEF AlignInit
<1>2. PICK full \in Tokenizations(Encode(b)) :
        /\ student \in Tokenizations(b)
        /\ \E n \in 0..Len(full) : teacher = SubSeq(full, 1, n)
  BY <1>1
<1>3. Len(b) \in Nat /\ Len(Encode(b)) \in Nat
  BY OpdAlignAssumption DEF Encode
<1>4. n_stu \in Nat /\ Len(full) \in Nat /\ DOMAIN full = 1..Len(full)
  BY <1>2, <1>3, LengthOfTokens DEF n_stu
<1>5. PICK n \in 0..Len(full) : teacher = SubSeq(full, 1, n)
  BY <1>2
<1>6. n_tec \in Nat
  BY <1>4, <1>5 DEF n_tec
<1>7. n_special \in Nat
  BY OpdAlignAssumption DEF AlignInit
<1> HIDE DEF n_stu, n_tec
<1>8. /\ s_ptr = 1 /\ t_ptr = 1 /\ s_end = 1 /\ t_end = 1 /\ teacher_truncated = FALSE
       /\ at \in {"growing", "ended"}
  BY DEF AlignInit
<1>9. AlignTypes
  <2>1. n_stu + 1 \in Nat /\ n_tec + 1 \in Nat /\ 1 \in 1..n_stu + 1 /\ 1 \in 1..n_tec + 1
    BY <1>4, <1>6
  <2>2. /\ s_ptr \in 1..n_stu + 1 /\ t_ptr \in 1..n_tec + 1
        /\ s_end \in 1..n_stu + 1 /\ t_end \in 1..n_tec + 1
    BY <1>8, <2>1
  <2>3. teacher_truncated \in BOOLEAN /\ at \in {"growing", "ended", "filled"}
    BY <1>8
  <2>4. s_ptr <= s_end /\ t_ptr <= t_end
    BY <1>8
  <2> QED
    BY <1>4, <1>6, <1>7, <2>2, <2>3, <2>4 DEF AlignTypes
<1>10. /\ s_ptr = 1 /\ chunk_count = 0 /\ row = <<>> /\ at # "filled"
      /\ \A k \in 1..n_stu : chunk_ids[k] = -1
  BY DEF AlignInit
<1>11. ChunksMade
  BY <1>10 DEF ChunksMade
<1>12. SumsApart
  BY <1>10 DEF SumsApart
<1>13. RowFilled
  BY <1>10 DEF RowFilled
<1> QED
  BY <1>9, <1>13, <1>11, <1>12 DEF AlignInv
-------------------------------------------------------------------------------
(* A turn that does not match takes in at most one token on either side.   *)
LEMMA GrownOneOf ==
  /\ Grown[1] \in {s_end, s_end + 1} /\ Grown[2] \in {t_end, t_end + 1}
<1> DEFINE s_more == s_end < n_stu
           t_more == t_end < n_tec
           s_first == IF s_more THEN StudentGrows
                      ELSE IF t_more THEN TeacherGrows ELSE <<s_end, t_end>>
           t_first == IF t_more THEN TeacherGrows
                      ELSE IF s_more THEN StudentGrows ELSE <<s_end, t_end>>
           pairs == {<<s_end, t_end>>, StudentGrows, TeacherGrows, <<s_end + 1, t_end + 1>>}
<1>1. StudentGrows \in pairs /\ TeacherGrows \in pairs /\ <<s_end, t_end>> \in pairs
  OBVIOUS
<1>2. s_first \in pairs /\ t_first \in pairs
  <2> HIDE DEF s_more, t_more, pairs
  <2> QED
    BY <1>1
<1>3. <<IF s_more THEN s_end + 1 ELSE s_end, IF t_more THEN t_end + 1 ELSE t_end>> \in pairs
  <2> HIDE DEF s_more, t_more
  <2> QED
    BY DEF StudentGrows, TeacherGrows
<1>4. Grown \in pairs
  <2> DEFINE fewer == Len(S_text) < Len(T_text)
             more == Len(S_text) > Len(T_text)
             s_inc == Incomplete(S_text)
             t_inc == Incomplete(T_text)
             both == <<IF s_more THEN s_end + 1 ELSE s_end, IF t_more THEN t_end + 1 ELSE t_end>>
  <2>1. Grown = CASE fewer -> IF s_more THEN StudentGrows ELSE TeacherGrows
                  [] more -> IF t_more THEN TeacherGrows ELSE StudentGrows
                  [] OTHER -> CASE s_inc /\ ~t_inc -> s_first
                                [] t_inc /\ ~s_inc -> t_first
                                [] OTHER -> both
    BY DEF Grown
  <2>2. StudentGrows \in pairs /\ TeacherGrows \in pairs /\ both \in pairs
    BY <1>3
  <2> HIDE DEF fewer, more, s_inc, t_inc, s_first, t_first, both, pairs, s_more, t_more
  <2> QED
    BY <1>2, <2>1, <2>2
<1> QED
  BY <1>4 DEF StudentGrows, TeacherGrows

(* A chunk stays what it is while the pointers advance and what is before  *)
(* them is left alone.                                                     *)
LEMMA ChunkStays ==
  ASSUME AlignTypes, NEW id, NEW a \in Int, NEW b \in Int, NEW u \in Int, NEW v \in Int,
         AlignedAs(id, a, b, u, v), UNCHANGED input,
         s_ptr' \in Int, s_ptr <= s_ptr', t_ptr' \in Int, t_ptr <= t_ptr',
         \A k \in 1..n_stu : k < s_ptr => aligned'[k] = aligned[k],
         \A k \in 1..n_stu : chunk_ids'[k] = id <=> chunk_ids[k] = id
  PROVE  AlignedAs(id, a, b, u, v)'
<1>1. student' = student /\ teacher' = teacher /\ n_stu' = n_stu /\ n_tec' = n_tec
  BY DEF input, n_stu, n_tec
<1>2. a \in 1..b /\ b \in 1..n_stu' /\ b < s_ptr' /\ u \in 1..v /\ v \in 1..n_tec' /\ v < t_ptr'
  BY <1>1 DEF AlignedAs, AlignTypes
<1>3. \A k \in 1..n_stu' : chunk_ids'[k] = id <=> k \in a..b
  BY <1>1 DEF AlignedAs
<1>4. \A k \in a..b : aligned'[k] = [sum |-> u..v, of |-> b - a + 1]
  BY DEF AlignedAs, AlignTypes
<1>5. Text(student', a, b) = Text(teacher', u, v) /\ ~Incomplete(Text(student', a, b))
  BY <1>1 DEF AlignedAs
<1>6. b - a < LargeChunkThreshold /\ v - u < LargeChunkThreshold
  BY DEF AlignedAs
<1> QED
  BY <1>2, <1>3, <1>4, <1>5, <1>6 DEF AlignedAs

(* What is marked lies behind the pointers.                                *)
LEMMA MarkedBefore ==
  ASSUME AlignTypes, ChunksMade, NEW k \in 1..n_stu, chunk_ids[k] # -1
  PROVE  /\ k < s_ptr /\ chunk_ids[k] < chunk_count
         /\ \E u, v \in Int : v < t_ptr /\ u \in 1..v /\ v \in 1..n_tec /\ aligned[k].sum = u..v
<1>1. PICK a, b, u, v \in Int : AlignedAs(chunk_ids[k], a, b, u, v)
  BY DEF ChunksMade
<1>2. k \in a..b /\ b < s_ptr /\ v < t_ptr /\ u \in 1..v /\ v \in 1..n_tec
  BY <1>1 DEF AlignedAs
<1>3. aligned[k].sum = u..v
  BY <1>1, <1>2 DEF AlignedAs
<1>4. chunk_ids[k] < chunk_count
  BY DEF ChunksMade, AlignTypes
<1> QED
  BY <1>2, <1>3, <1>4 DEF AlignTypes

LEMMA ChunksStay ==
  ASSUME AlignTypes, ChunksMade,
         UNCHANGED <<input, s_ptr, t_ptr, chunk_count, aligned, chunk_ids>>
  PROVE  ChunksMade'
<1>1. n_stu' = n_stu
  BY DEF input, n_stu
<1>2. ASSUME NEW k \in 1..n_stu, chunk_ids[k] # -1
      PROVE  (\E a, b, u, v \in Int : AlignedAs(chunk_ids[k], a, b, u, v))'
  <2>1. PICK id : id = chunk_ids[k]
    OBVIOUS
  <2>2. PICK a, b, u, v \in Int : AlignedAs(id, a, b, u, v)
    BY <1>2, <2>1 DEF ChunksMade
  <2>3. s_ptr' \in Int /\ s_ptr <= s_ptr' /\ t_ptr' \in Int /\ t_ptr <= t_ptr'
    BY DEF AlignTypes
  <2>4. AlignedAs(id, a, b, u, v)'
    BY <2>2, <2>3, ChunkStays
  <2> QED
    BY <2>1, <2>4 DEF AlignedAs
<1> QED
  BY <1>1, <1>2 DEF ChunksMade

LEMMA MatchAligns == AlignInv /\ Match => AlignInv'
<1> SUFFICES ASSUME AlignInv, Match PROVE AlignInv'
  OBVIOUS
<1> USE DEF AlignInv
<1>1. UNCHANGED input /\ n_stu' = n_stu /\ n_tec' = n_tec /\ n_special' = n_special
      /\ student' = student /\ teacher' = teacher
  BY DEF Match, input, n_stu, n_tec
<1>2. /\ s_ptr \in 1..n_stu /\ s_ptr <= s_end /\ s_end \in 1..n_stu
      /\ t_ptr \in 1..n_tec /\ t_ptr <= t_end /\ t_end \in 1..n_tec
      /\ n_stu \in Nat /\ n_tec \in Nat
  BY DEF Match, InReach, AlignTypes
<1>3. /\ s_ptr' = s_end + 1 /\ t_ptr' = t_end + 1 /\ s_end' = s_end + 1 /\ t_end' = t_end + 1
      /\ chunk_count' = chunk_count + 1 /\ at' \in {"growing", "ended"} /\ row' = row
      /\ at = "growing"
  BY DEF Match, AlignTypes
<1>4. teacher_truncated' \in BOOLEAN
  <2>1. CASE s_end < n_stu /\ t_end < n_tec
    BY <2>1 DEF Match, AlignTypes
  <2>2. CASE ~(s_end < n_stu /\ t_end < n_tec)
    <3>1. teacher_truncated' = (s_end < n_stu)
      BY <2>2 DEF Match
    <3>2. (s_end < n_stu) \in BOOLEAN
      OBVIOUS
    <3> QED
      BY <3>1, <3>2
  <2> QED
    BY <2>1, <2>2
<1>5. \A k \in 1..n_stu :
        aligned'[k] = IF k \in s_ptr..s_end
                      THEN (IF IsLarge THEN Unaligned
                            ELSE [sum |-> t_ptr..t_end, of |-> s_end - s_ptr + 1])
                      ELSE aligned[k]
  BY DEF Match
<1>6. \A k \in 1..n_stu :
        chunk_ids'[k] = IF k \in s_ptr..s_end /\ ~IsLarge THEN chunk_count ELSE chunk_ids[k]
  BY DEF Match, NewChunk
<1>7. AlignTypes'
  <2>1. /\ s_ptr' \in 1..n_stu + 1 /\ t_ptr' \in 1..n_tec + 1
        /\ s_end' \in 1..n_stu + 1 /\ t_end' \in 1..n_tec + 1
    BY <1>2, <1>3
  <2>2. s_ptr' <= s_end' /\ t_ptr' <= t_end' /\ n_special' \in Nat
    BY <1>1, <1>2, <1>3 DEF AlignTypes
  <2>3. at' \in {"growing", "ended", "filled"}
    BY <1>3
  <2> QED
    BY <1>1, <1>2, <1>4, <2>1, <2>2, <2>3 DEF AlignTypes
<1>8. ASSUME ~IsLarge, NEW id, NEW a, NEW b, NEW u, NEW v, id = chunk_count,
             a = s_ptr, b = s_end, u = t_ptr, v = t_end
      PROVE  AlignedAs(id, a, b, u, v)'
  <2> USE <1>8
  <2>1. b - a < LargeChunkThreshold /\ v - u < LargeChunkThreshold
    BY <1>2, OpdAlignAssumption DEF IsLarge
  <2>2. \A k \in 1..n_stu' : chunk_ids'[k] = id <=> k \in a..b
    BY <1>1, <1>6 DEF ChunksMade, AlignTypes
  <2>3. \A k \in a..b : aligned'[k] = [sum |-> u..v, of |-> b - a + 1]
    BY <1>2, <1>5
  <2>4. Text(student', a, b) = Text(teacher', u, v)
        /\ ~Incomplete(Text(student', a, b))
    BY <1>1 DEF Match, Boundary, S_text, T_text
  <2>5. /\ a \in 1..b /\ b \in 1..n_stu' /\ b < s_ptr'
        /\ u \in 1..v /\ v \in 1..n_tec' /\ v < t_ptr'
    BY <1>1, <1>2, <1>3
  <2> QED
    BY <2>1, <2>2, <2>3, <2>4, <2>5 DEF AlignedAs
<1>9. ChunksMade'
  <2>1. chunk_count' \in 0..s_ptr' - 1 /\ chunk_count \in Nat
    BY <1>2, <1>3 DEF ChunksMade
  <2>2. ASSUME NEW k \in 1..n_stu
        PROVE  /\ chunk_ids'[k] \in -1..chunk_count' - 1
               /\ (chunk_ids[k] # -1 =>
                     \E a, b, u, v \in Int : AlignedAs(chunk_ids[k], a, b, u, v))'
    <3>1. CASE k \in s_ptr..s_end /\ ~IsLarge
      <4>1. chunk_ids'[k] = chunk_count
        BY <1>6, <3>1
      <4>2. PICK id, a, b, u, v \in Int :
              id = chunk_count /\ a = s_ptr /\ b = s_end /\ u = t_ptr /\ v = t_end
        BY <1>2, <2>1
      <4>3. AlignedAs(id, a, b, u, v)'
        BY <1>8, <3>1, <4>2
      <4>4. chunk_ids'[k] = id
        BY <4>1, <4>2
      <4>5. (\E c, d, e, f \in Int : AlignedAs(chunk_ids[k], c, d, e, f))'
        BY <4>3, <4>4 DEF AlignedAs
      <4> QED
        BY <1>3, <2>1, <4>1, <4>5
    <3>2. CASE ~(k \in s_ptr..s_end /\ ~IsLarge)
      <4>1. chunk_ids'[k] = chunk_ids[k] /\ chunk_ids[k] \in -1..chunk_count - 1
        BY <1>6, <3>2 DEF ChunksMade
      <4>2. ASSUME chunk_ids[k] # -1
            PROVE  (\E a, b, u, v \in Int : AlignedAs(chunk_ids[k], a, b, u, v))'
        <5>0. PICK id : id = chunk_ids[k]
          OBVIOUS
        <5>1. PICK a, b, u, v \in Int : AlignedAs(id, a, b, u, v)
          BY <4>2, <5>0 DEF ChunksMade
        <5>2. \A m \in 1..n_stu : m < s_ptr => aligned'[m] = aligned[m]
          BY <1>2, <1>5
        <5>3. \A m \in 1..n_stu : chunk_ids'[m] = id <=> chunk_ids[m] = id
          <6> SUFFICES ASSUME NEW m \in 1..n_stu
                       PROVE  chunk_ids'[m] = id <=> chunk_ids[m] = id
            OBVIOUS
          <6>1. chunk_ids[m] = chunk_ids[k] => m < s_ptr
            BY <4>2, MarkedBefore
          <6>2. chunk_ids[k] < chunk_count
            BY <4>2, MarkedBefore
          <6>3. chunk_ids'[m] = chunk_ids[m] \/ (m \in s_ptr..s_end /\ chunk_ids'[m] = chunk_count)
            BY <1>6
          <6> QED
            BY <1>2, <2>1, <4>1, <5>0, <6>1, <6>2, <6>3
        <5>4. s_ptr' \in Int /\ s_ptr <= s_ptr' /\ t_ptr' \in Int /\ t_ptr <= t_ptr'
          BY <1>2, <1>3
        <5>5. AlignedAs(id, a, b, u, v)'
          BY <1>1, <5>1, <5>2, <5>3, <5>4, ChunkStays
        <5> QED
          BY <4>1, <5>0, <5>5 DEF AlignedAs
      <4> QED
        BY <1>3, <2>1, <4>1, <4>2
    <3> QED
      BY <3>1, <3>2
  <2> QED
    BY <1>1, <2>1, <2>2 DEF ChunksMade
<1>10. SumsApart'
  <2> SUFFICES ASSUME NEW j \in 1..n_stu, NEW k \in 1..n_stu,
                      chunk_ids'[j] # -1, chunk_ids'[k] # -1, chunk_ids'[j] # chunk_ids'[k]
               PROVE  aligned'[j].sum \cap aligned'[k].sum = {}
    BY <1>1 DEF SumsApart
  <2> DEFINE New(m) == m \in s_ptr..s_end /\ ~IsLarge
  <2>1. ASSUME NEW m \in 1..n_stu, chunk_ids'[m] # -1, ~New(m)
        PROVE  /\ chunk_ids[m] = chunk_ids'[m] /\ aligned'[m] = aligned[m]
               /\ aligned[m].sum \cap (t_ptr..t_end) = {}
    <3>1. chunk_ids[m] = chunk_ids'[m] /\ chunk_ids[m] # -1
      BY <1>6, <2>1
    <3>2. m < s_ptr /\ \E u, v \in Int : v < t_ptr /\ aligned[m].sum = u..v
      BY <3>1, MarkedBefore
    <3> QED
      BY <1>2, <1>5, <3>1, <3>2
  <2>2. ASSUME NEW m \in 1..n_stu, New(m)
        PROVE  chunk_ids'[m] = chunk_count /\ aligned'[m].sum = t_ptr..t_end
    BY <1>5, <1>6, <2>2
  <2> HIDE DEF New
  <2>3. CASE New(j) /\ New(k)
    BY <2>2, <2>3
  <2>4. CASE New(j) /\ ~New(k)
    BY <2>1, <2>2, <2>4
  <2>5. CASE ~New(j) /\ New(k)
    BY <2>1, <2>2, <2>5
  <2>6. CASE ~New(j) /\ ~New(k)
    BY <2>1, <2>6 DEF SumsApart
  <2> QED
    BY <2>3, <2>4, <2>5, <2>6
<1>11. RowFilled'
  BY <1>3 DEF RowFilled
<1> QED
  BY <1>7, <1>9, <1>10, <1>11
LEMMA GrowAligns == AlignInv /\ Grow => AlignInv'
<1> SUFFICES ASSUME AlignInv, Grow PROVE AlignInv'
  OBVIOUS
<1> USE DEF AlignInv
<1>1. /\ UNCHANGED <<input, s_ptr, t_ptr, chunk_count, aligned, chunk_ids, teacher_truncated,
                     row, at>>
      /\ student' = student /\ teacher' = teacher
      /\ n_stu' = n_stu /\ n_tec' = n_tec /\ n_special' = n_special
  BY DEF Grow, input, n_stu, n_tec
<1>2. /\ s_end' \in {s_end, s_end + 1} /\ t_end' \in {t_end, t_end + 1}
      /\ s_end <= n_stu /\ t_end <= n_tec /\ at = "growing"
  BY GrownOneOf DEF Grow, InReach
<1>3. AlignTypes'
  BY <1>1, <1>2 DEF AlignTypes
<1>5. ChunksMade'
  BY <1>1, ChunksStay
<1>6. SumsApart' /\ RowFilled'
  BY <1>1, <1>2 DEF SumsApart, RowFilled
<1> QED
  BY <1>3, <1>5, <1>6

LEMMA FallbackAligns == AlignInv /\ Fallback => AlignInv'
<1> SUFFICES ASSUME AlignInv, Fallback PROVE AlignInv'
  OBVIOUS
<1> USE DEF AlignInv
<1>1. /\ UNCHANGED <<input, chunk_count, chunk_ids, s_end, t_end, teacher_truncated, row>>
      /\ student' = student /\ teacher' = teacher
      /\ n_stu' = n_stu /\ n_tec' = n_tec /\ n_special' = n_special
  BY DEF Fallback, input, n_stu, n_tec
<1>2. /\ s_ptr' = n_stu + 1 /\ t_ptr' = n_tec + 1 /\ at' = "ended" /\ at = "growing"
      /\ \A k \in 1..n_stu : k < s_ptr => aligned'[k] = aligned[k]
  BY DEF Fallback, AlignTypes
<1>3. AlignTypes'
  BY <1>1, <1>2 DEF AlignTypes
<1>4. s_ptr' \in Int /\ s_ptr <= s_ptr' /\ t_ptr' \in Int /\ t_ptr <= t_ptr'
  BY <1>2 DEF AlignTypes
<1>5. ChunksMade'
  <2>1. chunk_count' \in 0..s_ptr' - 1
    BY <1>1, <1>2 DEF ChunksMade, AlignTypes
  <2>2. ASSUME NEW k \in 1..n_stu
        PROVE  /\ chunk_ids'[k] \in -1..chunk_count' - 1
               /\ (chunk_ids[k] # -1 =>
                     \E a, b, u, v \in Int : AlignedAs(chunk_ids[k], a, b, u, v))'
    <3>1. chunk_ids' = chunk_ids /\ chunk_count' = chunk_count
      BY <1>1
    <3>2. ASSUME chunk_ids[k] # -1
          PROVE  (\E a, b, u, v \in Int : AlignedAs(chunk_ids[k], a, b, u, v))'
      <4>1. PICK id : id = chunk_ids[k]
        OBVIOUS
      <4>2. PICK a, b, u, v \in Int : AlignedAs(id, a, b, u, v)
        BY <3>2, <4>1 DEF ChunksMade
      <4>3. \A m \in 1..n_stu : chunk_ids'[m] = id <=> chunk_ids[m] = id
        BY <3>1
      <4>4. AlignedAs(id, a, b, u, v)'
        BY <1>1, <1>2, <1>4, <4>2, <4>3, ChunkStays
      <4> QED
        BY <3>1, <4>1, <4>4 DEF AlignedAs
    <3> QED
      BY <3>1, <3>2 DEF ChunksMade
  <2> QED
    BY <1>1, <2>1, <2>2 DEF ChunksMade
<1>6. SumsApart'
  <2>1. \A k \in 1..n_stu : chunk_ids[k] # -1 => aligned'[k] = aligned[k]
    BY <1>2, MarkedBefore
  <2> QED
    BY <1>1, <2>1 DEF SumsApart
<1>7. RowFilled'
  BY <1>1, <1>2 DEF RowFilled
<1> QED
  BY <1>3, <1>5, <1>6, <1>7

LEMMA FillAligns == AlignInv /\ Fill => AlignInv'
<1> SUFFICES ASSUME AlignInv, Fill PROVE AlignInv'
  OBVIOUS
<1> USE DEF AlignInv
<1>1. /\ UNCHANGED <<input, s_ptr, t_ptr, s_end, t_end, chunk_count, aligned, chunk_ids,
                     teacher_truncated>>
      /\ student' = student /\ teacher' = teacher
      /\ n_stu' = n_stu /\ n_tec' = n_tec /\ n_special' = n_special
  BY DEF Fill, input, n_stu, n_tec
<1>2. at' = "filled" /\ row' = IF teacher_truncated THEN GivenUp ELSE FilledRow
  BY DEF Fill, FilledRow
<1>3. AlignTypes'
  BY <1>1, <1>2 DEF AlignTypes
<1>4. ChunksMade'
  BY <1>1, ChunksStay
<1>5. SumsApart'
  BY <1>1 DEF SumsApart
<1>6. GivenUp' = GivenUp
  BY <1>1 DEF GivenUp
<1>7. FilledRow' = FilledRow
  <2>1. EndOfTeacher' = EndOfTeacher /\ EndChunk' = EndChunk
    BY <1>1 DEF EndOfTeacher, EndChunk
  <2> QED
    BY <1>1, <2>1 DEF FilledRow
<1>8. RowFilled'
  BY <1>1, <1>2, <1>6, <1>7 DEF RowFilled
<1> QED
  BY <1>3, <1>4, <1>5, <1>8

-------------------------------------------------------------------------------
(* The ends and the number of an interval.                                 *)
LEMMA EndsOfInterval ==
  ASSUME NEW a \in Int, NEW b \in Int, a <= b
  PROVE  Min(a..b) = a /\ Max(a..b) = b /\ Cardinality(a..b) = b - a + 1
<1>1. Min(a..b) = a
  BY DEF Min
<1>2. Max(a..b) = b
  BY DEF Max
<1>3. Cardinality(a..b) = b - a + 1
  BY FS_Interval
<1> QED
  BY <1>1, <1>2, <1>3

LEMMA LeastNumber ==
  ASSUME NEW T \in SUBSET Nat, T # {}
  PROVE  \E m \in T : \A k \in T : m <= k
<1>1. PICK m \in T : \A k \in T : <<k, m>> \notin OpToRel(<, Nat)
  BY NatLessThanWellFounded, WFMin
<1>2. OpToRel(<, Nat) = {ss \in Nat \X Nat : ss[1] < ss[2]}
  BY DEF OpToRel
<1>3. ASSUME NEW k \in T PROVE m <= k
  <2>1. <<k, m>> \notin {ss \in Nat \X Nat : ss[1] < ss[2]}
    BY <1>1, <1>2
  <2>2. ~(k < m)
    BY <2>1
  <2>3. k \in Nat /\ m \in Nat
    OBVIOUS
  <2> QED
    BY <2>2, <2>3
<1> QED
  BY <1>3

(* A bounded set of numbers that is not empty has a largest one.           *)
LEMMA LargestOfBounded ==
  ASSUME NEW S \in SUBSET Int, S # {}, NEW low \in Int, NEW high \in Int,
         \A x \in S : low <= x /\ x <= high
  PROVE  Max(S) \in S /\ \A x \in S : x <= Max(S)
<1> DEFINE Above == {n \in Nat : \A x \in S : x < low + n}
<1>1. PICK y \in S : TRUE
  OBVIOUS
<1>2. high - low + 1 \in Above
  BY <1>1
<1>3. PICK n \in Above : \A m \in Above : n <= m
  <2>1. Above \in SUBSET Nat /\ Above # {}
    BY <1>2
  <2> HIDE DEF Above
  <2> QED
    BY <2>1, LeastNumber
<1>4. n # 0
  BY <1>1
<1>5. n - 1 \notin Above
  BY <1>3, <1>4
<1>6. PICK x \in S : ~(x < low + n - 1)
  BY <1>4, <1>5
<1>7. \A z \in S : x >= z
  BY <1>6
<1>8. Max(S) \in S /\ \A z \in S : Max(S) >= z
  BY <1>7 DEF Max
<1> QED
  BY <1>8

LEMMA EndChunkIsNew ==
  ASSUME AlignTypes, ChunksMade
  PROVE  EndChunk \in Nat /\ \A k \in 1..n_stu : chunk_ids[k] < EndChunk
<1>1. CASE n_stu = 0
  BY <1>1 DEF EndChunk
<1>2. CASE n_stu # 0
  <2> DEFINE Ids == {chunk_ids[k] : k \in 1..n_stu}
  <2>1. chunk_ids[1] \in Ids
    BY <1>2 DEF AlignTypes
  <2>2. \A x \in Ids : x \in Int /\ -1 <= x /\ x <= n_stu
    BY DEF ChunksMade, AlignTypes
  <2>3. Max(Ids) \in Ids /\ \A x \in Ids : x <= Max(Ids)
    <3> HIDE DEF Ids
    <3>1. Ids \in SUBSET Int /\ Ids # {} /\ n_stu \in Int /\ -1 \in Int
      BY <2>1, <2>2 DEF AlignTypes
    <3> QED
      BY <2>2, <3>1, LargestOfBounded
  <2>4. EndChunk = Max(Ids) + 1
    BY <1>2 DEF EndChunk
  <2>5. \A k \in 1..n_stu : chunk_ids[k] \in Ids
    OBVIOUS
  <2> HIDE DEF Ids
  <2> QED
    BY <2>2, <2>3, <2>4, <2>5
<1> QED
  BY <1>1, <1>2

LEMMA AlignmentsKept == AlignSpec => []AlignInv
<1>1. AlignInv /\ UNCHANGED alignVars => AlignInv'
  <2> SUFFICES ASSUME AlignInv, UNCHANGED alignVars PROVE AlignInv'
    OBVIOUS
  <2>1. /\ UNCHANGED <<s_ptr, t_ptr, s_end, t_end, chunk_count, aligned, chunk_ids,
                       teacher_truncated, row, at>>
        /\ student' = student /\ teacher' = teacher
        /\ n_stu' = n_stu /\ n_tec' = n_tec /\ n_special' = n_special
    BY DEF alignVars, n_stu, n_tec
  <2>2. GivenUp' = GivenUp /\ FilledRow' = FilledRow
    <3>1. EndOfTeacher' = EndOfTeacher /\ EndChunk' = EndChunk
      BY <2>1 DEF EndOfTeacher, EndChunk
    <3> QED
      BY <2>1, <3>1 DEF GivenUp, FilledRow
  <2>3. AlignTypes'
    BY <2>1 DEF AlignInv, AlignTypes
  <2>4. ChunksMade'
    <3>1. UNCHANGED <<input, s_ptr, t_ptr, chunk_count, aligned, chunk_ids>>
      BY DEF alignVars, input
    <3> QED
      BY <3>1, ChunksStay DEF AlignInv
  <2>5. SumsApart'
    BY <2>1 DEF AlignInv, SumsApart
  <2>6. RowFilled'
    BY <2>1, <2>2 DEF AlignInv, RowFilled
  <2> QED
    BY <2>3, <2>4, <2>5, <2>6 DEF AlignInv
<1>2. AlignInv /\ [AlignNext]_alignVars => AlignInv'
  BY <1>1, MatchAligns, GrowAligns, FallbackAligns, FillAligns
  DEF AlignNext, AlignSteps, AlignFinished
<1> QED
  BY <1>2, AlignInitial, PTL DEF AlignSpec

(* The trained positions with a chunk of the content are those it was made *)
(* of.                                                                     *)
LEMMA TrainedPositions ==
  ASSUME AlignInv, at = "filled", ~teacher_truncated
  PROVE  /\ DOMAIN row = 1..n_stu + n_special /\ n_stu \in Nat /\ n_special \in Nat /\ n_tec \in Nat
         /\ \A k \in DOMAIN row : k <= n_stu =>
              /\ row[k].logp = aligned[k] /\ row[k].chunk = chunk_ids[k]
              /\ (k \in Trained <=> chunk_ids[k] # -1)
         /\ \A k \in DOMAIN row : k > n_stu =>
              /\ k \in Trained <=> k = n_stu + 1
              /\ k = n_stu + 1 => row[k].logp = EndOfTeacher /\ row[k].chunk = EndChunk
<1> USE DEF AlignInv
<1>1. row = FilledRow /\ n_stu \in Nat /\ n_special \in Nat /\ n_tec \in Nat
  BY DEF RowFilled, AlignTypes
<1>2. DOMAIN row = 1..n_stu + n_special
  BY <1>1 DEF FilledRow
<1>3. ASSUME NEW k \in DOMAIN row, k <= n_stu
      PROVE  /\ row[k].logp = aligned[k] /\ row[k].chunk = chunk_ids[k]
             /\ (k \in Trained <=> chunk_ids[k] # -1)
  <2>1. row[k].logp = aligned[k] /\ row[k].chunk = chunk_ids[k] /\ k \in 1..n_stu
    BY <1>1, <1>2, <1>3 DEF FilledRow
  <2>2. chunk_ids[k] \in Int /\ -1 <= chunk_ids[k]
    BY <1>1, <2>1 DEF ChunksMade, AlignTypes
  <2>3. ASSUME chunk_ids[k] # -1 PROVE aligned[k] # Unaligned
    <3>1. PICK a, b, u, v \in Int : AlignedAs(chunk_ids[k], a, b, u, v)
      BY <2>1, <2>3 DEF ChunksMade
    <3>2. k \in a..b
      BY <2>1, <3>1 DEF AlignedAs
    <3>3. aligned[k] = [sum |-> u..v, of |-> b - a + 1]
      BY <3>1, <3>2 DEF AlignedAs
    <3>4. DOMAIN aligned[k] = {"sum", "of"} /\ DOMAIN Unaligned = {"sum"}
      BY <3>3 DEF Unaligned
    <3> QED
      BY <3>4
  <2>4. Sentinel(k) <=> chunk_ids[k] = -1
    BY <2>1, <2>2, <2>3 DEF Sentinel
  <2> QED
    BY <2>1, <2>4 DEF Trained
<1>4. ASSUME NEW k \in DOMAIN row, k > n_stu
      PROVE  /\ k \in Trained <=> k = n_stu + 1
             /\ k = n_stu + 1 => row[k].logp = EndOfTeacher /\ row[k].chunk = EndChunk
  <2>1. CASE k = n_stu + 1
    <3>1. row[k].logp = EndOfTeacher /\ row[k].chunk = EndChunk
      BY <1>1, <1>2, <1>4, <2>1 DEF FilledRow
    <3>2. DOMAIN EndOfTeacher = {"sum", "of"} /\ DOMAIN Unaligned = {"sum"}
      BY DEF EndOfTeacher, Unaligned
    <3>3. EndOfTeacher # Unaligned
      BY <3>2
    <3>4. ~Sentinel(k)
      BY <3>1, <3>3, EndChunkIsNew DEF Sentinel
    <3> QED
      BY <2>1, <3>1, <3>4 DEF Trained
  <2>2. CASE k # n_stu + 1
    <3>1. row[k].logp = Unaligned
      BY <1>1, <1>2, <1>4, <2>2 DEF FilledRow
    <3> QED
      BY <2>2, <3>1 DEF Trained, Sentinel
  <2> QED
    BY <2>1, <2>2
<1> QED
  BY <1>1, <1>2, <1>3, <1>4

LEMMA NothingTrained ==
  ASSUME AlignInv, at # "filled" \/ teacher_truncated
  PROVE  Trained = {}
<1>1. CASE at # "filled"
  <2>1. row = <<>>
    BY <1>1 DEF AlignInv, RowFilled
  <2> QED
    BY <2>1 DEF Trained
<1>2. CASE at = "filled" /\ teacher_truncated
  <2>1. row = GivenUp
    BY <1>2 DEF AlignInv, RowFilled
  <2>2. \A k \in DOMAIN row : row[k].logp = Unaligned
    BY <2>1 DEF GivenUp
  <2> QED
    BY <2>2 DEF Trained, Sentinel
<1> QED
  BY <1>1, <1>2

(* A trained position of the content, and the chunk it is in.              *)
LEMMA TrainedInChunk ==
  ASSUME AlignInv, NEW k \in Trained, k <= n_stu
  PROVE  \E a, b, u, v \in Int :
           /\ AlignedAs(row[k].chunk, a, b, u, v) /\ ChunkOf(row[k].chunk) = a..b
           /\ \A m \in a..b : row[m].logp = [sum |-> u..v, of |-> b - a + 1]
<1>1. at = "filled" /\ ~teacher_truncated
  BY NothingTrained DEF AlignInv, AlignTypes
<1>2. k \in DOMAIN row /\ k \in 1..n_stu
  BY <1>1, TrainedPositions DEF Trained
<1>3. row[k].chunk = chunk_ids[k] /\ chunk_ids[k] # -1
  BY <1>1, <1>2, TrainedPositions
<1>4. PICK a, b, u, v \in Int : AlignedAs(chunk_ids[k], a, b, u, v)
  BY <1>2, <1>3 DEF AlignInv, ChunksMade
<1>5. a..b \subseteq 1..n_stu /\ a..b \subseteq DOMAIN row
  BY <1>1, <1>4, TrainedPositions DEF AlignedAs
<1>6. ChunkOf(chunk_ids[k]) = a..b
  <2>1. ASSUME NEW m \in a..b PROVE m \in ChunkOf(chunk_ids[k])
    <3>1. chunk_ids[m] = chunk_ids[k] /\ m \in DOMAIN row /\ m <= n_stu
      BY <1>2, <1>4, <1>5 DEF AlignedAs
    <3> QED
      BY <1>1, <1>3, <3>1, TrainedPositions DEF ChunkOf
  <2>2. ASSUME NEW m \in ChunkOf(chunk_ids[k]) PROVE m \in a..b
    <3>1. m \in Trained /\ m \in DOMAIN row /\ row[m].chunk = chunk_ids[k]
      BY DEF ChunkOf, Trained
    <3>2. m <= n_stu
      <4>1. m > n_stu => row[m].chunk = EndChunk
        BY <1>1, <3>1, TrainedPositions
      <4>2. chunk_ids[k] < EndChunk /\ EndChunk \in Nat
        BY <1>2, EndChunkIsNew DEF AlignInv
      <4>3. chunk_ids[k] \in Int
        BY <1>2 DEF AlignInv, ChunksMade, AlignTypes
      <4>4. m \in Int /\ n_stu \in Int
        BY <1>1, <3>1, TrainedPositions
      <4> QED
        BY <3>1, <4>1, <4>2, <4>3, <4>4
    <3>3. m \in 1..n_stu /\ chunk_ids[m] = chunk_ids[k]
      BY <1>1, <3>1, <3>2, TrainedPositions
    <3> QED
      BY <1>4, <3>3 DEF AlignedAs
  <2> QED
    BY <2>1, <2>2
<1>7. \A m \in a..b : row[m].logp = [sum |-> u..v, of |-> b - a + 1]
  <2> SUFFICES ASSUME NEW m \in a..b PROVE row[m].logp = [sum |-> u..v, of |-> b - a + 1]
    OBVIOUS
  <2>1. m \in DOMAIN row /\ m <= n_stu
    BY <1>5, <1>1, TrainedPositions
  <2>2. row[m].logp = aligned[m]
    BY <1>1, <2>1, TrainedPositions
  <2> QED
    BY <1>4, <2>2 DEF AlignedAs
<1> QED
  BY <1>3, <1>4, <1>6, <1>7

LEMMA TrainedAtEnd ==
  ASSUME AlignInv, NEW k \in Trained, ~(k <= n_stu)
  PROVE  /\ ChunkOf(row[k].chunk) = {k} /\ row[k].logp = [sum |-> {n_tec + 1}, of |-> 1]
         /\ k = n_stu + 1
<1>1. at = "filled" /\ ~teacher_truncated
  BY NothingTrained DEF AlignInv, AlignTypes
<1>2. k \in DOMAIN row /\ k \in Int /\ n_stu \in Nat /\ k > n_stu
  BY <1>1, TrainedPositions DEF Trained
<1>3. k = n_stu + 1 /\ row[k].logp = EndOfTeacher /\ row[k].chunk = EndChunk
  BY <1>1, <1>2, TrainedPositions
<1>4. ASSUME NEW m \in ChunkOf(EndChunk) PROVE m = k
  <2>1. m \in Trained /\ m \in DOMAIN row /\ row[m].chunk = EndChunk
    BY DEF ChunkOf, Trained
  <2>2. m \in 1..n_stu + n_special
    BY <1>1, <2>1, TrainedPositions
  <2>3. CASE m <= n_stu
    <3>1. row[m].chunk = chunk_ids[m] /\ m \in 1..n_stu
      BY <1>1, <2>1, <2>2, <2>3, TrainedPositions
    <3>2. chunk_ids[m] < EndChunk /\ chunk_ids[m] \in Int /\ EndChunk \in Nat
      BY <3>1, EndChunkIsNew DEF AlignInv, ChunksMade, AlignTypes
    <3> QED
      BY <2>1, <3>1, <3>2
  <2>4. CASE ~(m <= n_stu)
    <3>1. m > n_stu
      BY <1>1, <2>2, <2>4, TrainedPositions
    <3> QED
      BY <1>1, <1>3, <2>1, <3>1, TrainedPositions
  <2> QED
    BY <2>3, <2>4
<1>5. k \in ChunkOf(EndChunk)
  BY <1>3 DEF ChunkOf
<1> QED
  BY <1>3, <1>4, <1>5 DEF EndOfTeacher

LEMMA SumsConserved == AlignInv => Conserved
<1> SUFFICES ASSUME AlignInv PROVE Conserved
  OBVIOUS
<1>1. ASSUME NEW id \in ChunkIds, NEW k \in ChunkOf(id)
      PROVE  /\ row[k].logp # Unset /\ row[k].logp.of = Cardinality(ChunkOf(id))
             /\ \A m \in ChunkOf(id) : row[m].logp = row[k].logp
  <2>1. k \in Trained /\ row[k].chunk = id
    BY DEF ChunkOf
  <2>2. CASE k <= n_stu
    <3>0. PICK a, b, u, v \in Int :
            /\ AlignedAs(row[k].chunk, a, b, u, v) /\ ChunkOf(row[k].chunk) = a..b
            /\ \A m \in a..b : row[m].logp = [sum |-> u..v, of |-> b - a + 1]
      BY <2>1, <2>2, TrainedInChunk
    <3>1. /\ AlignedAs(id, a, b, u, v) /\ ChunkOf(id) = a..b
          /\ \A m \in a..b : row[m].logp = [sum |-> u..v, of |-> b - a + 1]
      BY <2>1, <3>0
    <3>2. Cardinality(a..b) = b - a + 1
      <4>1. a <= b
        BY <3>1 DEF AlignedAs
      <4> QED
        BY <4>1, EndsOfInterval
    <3>3. row[k].logp = [sum |-> u..v, of |-> b - a + 1]
      BY <3>1
    <3>4. row[k].logp # Unset
      <4>1. DOMAIN row[k].logp = {"sum", "of"} /\ DOMAIN Unset = {"sum"}
        BY <3>3 DEF Unset
      <4> QED
        BY <4>1
    <3> QED
      BY <3>1, <3>2, <3>3, <3>4
  <2>3. CASE ~(k <= n_stu)
    <3>1. ChunkOf(id) = {k} /\ row[k].logp = [sum |-> {n_tec + 1}, of |-> 1]
      BY <2>1, <2>3, TrainedAtEnd
    <3>2. Cardinality(ChunkOf(id)) = 1
      BY <3>1, FS_Singleton
    <3>3. row[k].logp # Unset
      <4>1. DOMAIN row[k].logp = {"sum", "of"} /\ DOMAIN Unset = {"sum"}
        BY <3>1 DEF Unset
      <4> QED
        BY <4>1
    <3> QED
      BY <3>1, <3>2, <3>3
  <2> QED
    BY <2>2, <2>3
<1>2. ASSUME NEW j \in Trained, NEW k \in Trained, row[j].chunk # row[k].chunk
      PROVE  row[j].logp.sum \cap row[k].logp.sum = {}
  <2> DEFINE Inside(m) == m <= n_stu
  <2>1. at = "filled" /\ ~teacher_truncated
    BY NothingTrained DEF AlignInv, AlignTypes
  <2>2. ASSUME NEW m \in Trained, Inside(m)
        PROVE  /\ m \in 1..n_stu /\ row[m].chunk = chunk_ids[m] /\ chunk_ids[m] # -1
               /\ row[m].logp = aligned[m] /\ aligned[m].sum \subseteq 1..n_tec
    <3>1. m \in DOMAIN row /\ m \in 1..n_stu
      BY <2>1, <2>2, TrainedPositions DEF Trained
    <3>2. row[m].chunk = chunk_ids[m] /\ chunk_ids[m] # -1 /\ row[m].logp = aligned[m]
      BY <2>1, <2>2, <3>1, TrainedPositions
    <3>3. \E u, v \in Int : u \in 1..v /\ v \in 1..n_tec /\ aligned[m].sum = u..v
      BY <3>1, <3>2, MarkedBefore DEF AlignInv
    <3>4. aligned[m].sum \subseteq 1..n_tec
      <4>1. PICK u, v \in Int : u \in 1..v /\ v \in 1..n_tec /\ aligned[m].sum = u..v
        BY <3>3
      <4>2. n_tec \in Nat
        BY DEF AlignInv, AlignTypes
      <4>3. u..v \subseteq 1..n_tec
        BY <4>1, <4>2
      <4> QED
        BY <4>1, <4>3
    <3> QED
      BY <3>1, <3>2, <3>4
  <2>3. ASSUME NEW m \in Trained, ~Inside(m)
        PROVE  m = n_stu + 1 /\ row[m].logp.sum = {n_tec + 1}
    BY <2>3, TrainedAtEnd
  <2>4. n_tec \in Nat
    BY DEF AlignInv, AlignTypes
  <2> HIDE DEF Inside
  <2>5. CASE Inside(j) /\ Inside(k)
    BY <1>2, <2>2, <2>5 DEF AlignInv, SumsApart
  <2>6. CASE Inside(j) /\ ~Inside(k)
    BY <2>2, <2>3, <2>4, <2>6
  <2>7. CASE ~Inside(j) /\ Inside(k)
    BY <2>2, <2>3, <2>4, <2>7
  <2>8. CASE ~Inside(j) /\ ~Inside(k)
    BY <1>2, <2>3, <2>8
  <2> QED
    BY <2>5, <2>6, <2>7, <2>8
<1> QED
  BY <1>1, <1>2 DEF Conserved

LEMMA ChunksSameText == AlignInv => SameText
<1> SUFFICES ASSUME AlignInv, NEW id \in ChunkIds, NEW k \in ChunkOf(id), k <= n_stu
             PROVE  LET s == ChunkOf(id)
                        t == row[k].logp.sum
                    IN /\ {Cardinality(s), Cardinality(t)} \subseteq 1..LargeChunkThreshold
                       /\ s = Min(s)..Max(s) /\ t = Min(t)..Max(t)
                       /\ Text(student, Min(s), Max(s)) = Text(teacher, Min(t), Max(t))
                       /\ ~Incomplete(Text(student, Min(s), Max(s)))
  BY DEF SameText
<1>1. k \in Trained /\ row[k].chunk = id
  BY DEF ChunkOf
<1>0. PICK a, b, u, v \in Int :
        /\ AlignedAs(row[k].chunk, a, b, u, v) /\ ChunkOf(row[k].chunk) = a..b
        /\ \A m \in a..b : row[m].logp = [sum |-> u..v, of |-> b - a + 1]
  BY <1>1, TrainedInChunk
<1>2. /\ AlignedAs(id, a, b, u, v) /\ ChunkOf(id) = a..b
      /\ \A m \in a..b : row[m].logp = [sum |-> u..v, of |-> b - a + 1]
  BY <1>0, <1>1
<1>3. row[k].logp.sum = u..v
  BY <1>2
<1>4. /\ a <= b /\ u <= v /\ b - a < LargeChunkThreshold /\ v - u < LargeChunkThreshold
      /\ Text(student, a, b) = Text(teacher, u, v) /\ ~Incomplete(Text(student, a, b))
  BY <1>2 DEF AlignedAs
<1>5. /\ Min(a..b) = a /\ Max(a..b) = b /\ Cardinality(a..b) = b - a + 1
      /\ Min(u..v) = u /\ Max(u..v) = v /\ Cardinality(u..v) = v - u + 1
  BY <1>4, EndsOfInterval
<1>6. {b - a + 1, v - u + 1} \subseteq 1..LargeChunkThreshold
  BY <1>4, OpdAlignAssumption
<1> QED
  BY <1>2, <1>3, <1>4, <1>5, <1>6

LEMMA AlignedTypes == AlignInv => AlignTypeOK
<1> SUFFICES ASSUME AlignInv PROVE AlignTypeOK
  OBVIOUS
<1>1. chunk_count \in 0..n_stu /\ \A k \in 1..n_stu : chunk_ids[k] \in -1..chunk_count - 1
  BY DEF AlignInv, ChunksMade, AlignTypes
<1>2. row # <<>> => DOMAIN row = 1..n_stu + n_special
  BY DEF AlignInv, RowFilled, GivenUp, FilledRow
<1> QED
  BY <1>1, <1>2 DEF AlignTypeOK, AlignInv, AlignTypes

(* ChunksAligned: a chunk is the same text on both sides, of whole         *)
(* characters and within the threshold, its shares are those of one sum of *)
(* the teacher's, and no log-probability of the teacher is given twice.    *)
THEOREM ChunksStayAligned == AlignSpec => []ChunksAligned
<1>1. AlignInv => ChunksAligned
  BY AlignedTypes, SumsConserved, ChunksSameText DEF ChunksAligned
<1> QED
  BY <1>1, AlignmentsKept, PTL

-------------------------------------------------------------------------------
LEMMA UpTo ==
  ASSUME NEW n \in Nat, NEW T, 0 \in T, \A k \in 0..n : k + 1 <= n /\ k \in T => k + 1 \in T
  PROVE  \A k \in 0..n : k \in T
<1> DEFINE Missing == {k \in Nat : k <= n /\ k \notin T}
<1>1. Missing = {}
  <2> SUFFICES ASSUME Missing # {} PROVE FALSE
    OBVIOUS
  <2>1. PICK m \in Missing : \A k \in Missing : m <= k
    <3>1. Missing \in SUBSET Nat
      OBVIOUS
    <3> HIDE DEF Missing
    <3> QED
      BY <3>1, LeastNumber
  <2>2. m # 0 /\ m - 1 \in Nat /\ m - 1 \notin Missing
    BY <2>1
  <2>3. m - 1 \in T /\ m - 1 \in 0..n
    BY <2>1, <2>2
  <2>4. (m - 1) + 1 = m /\ m <= n
    BY <2>1
  <2>5. m \in T
    BY <2>3, <2>4
  <2> QED
    BY <2>1, <2>5
<1> QED
  BY <1>1

(* Flattening a sequence of sequences is what satisfies its recursion.     *)
LEMMA FlattenAs ==
  ASSUME NEW s, Len(s) \in Nat \ {0}, NEW g,
         g = [i \in 1..Len(s) |-> IF i = 1 THEN s[i] ELSE g[i - 1] \o s[i]]
  PROVE  FlattenSeq(s) = g[Len(s)]
<1> DEFINE n == Len(s)
           Body(f) == [i \in 1..n |-> IF i = 1 THEN s[i] ELSE f[i - 1] \o s[i]]
           f == CHOOSE f : f = Body(f)
<1>1. FlattenSeq(s) = f[n]
  BY DEF FlattenSeq
<1>2. g = Body(g)
  OBVIOUS
<1>3. f = Body(f)
  <2> HIDE DEF Body
  <2> QED
    BY <1>2
<1> HIDE DEF f
<1> DEFINE T == {k \in Nat : k = 0 \/ f[k] = g[k]}
<1>4. ASSUME NEW k \in 0..n, k + 1 <= n, k \in T PROVE k + 1 \in T
  <2>1. k + 1 \in 1..n /\ (k + 1) - 1 = k
    BY <1>4
  <2>2. f[k + 1] = IF k + 1 = 1 THEN s[k + 1] ELSE f[(k + 1) - 1] \o s[k + 1]
    BY <1>3, <2>1
  <2>3. g[k + 1] = IF k + 1 = 1 THEN s[k + 1] ELSE g[(k + 1) - 1] \o s[k + 1]
    BY <1>2, <2>1
  <2> HIDE DEF Body
  <2>4. k + 1 # 1 => f[(k + 1) - 1] = g[(k + 1) - 1]
    <3>1. (k + 1) - 1 = k /\ k \in Nat /\ (k + 1 # 1 => k # 0)
      BY <2>1
    <3>2. k = 0 \/ f[k] = g[k]
      BY <1>4
    <3> QED
      BY <3>1, <3>2
  <2>5. f[k + 1] = g[k + 1]
    BY <2>2, <2>3, <2>4
  <2> QED
    BY <2>1, <2>5
<1>5. n \in Nat /\ n # 0 /\ 0 \in T
  OBVIOUS
<1> HIDE DEF n, Body
<1>6. \A k \in 0..n : k \in T
  <2> HIDE DEF T
  <2> QED
    BY <1>4, <1>5, UpTo
<1>7. n \in T
  <2>1. n \in 0..n
    BY <1>5
  <2> HIDE DEF T
  <2> QED
    BY <1>6, <2>1
<1>8. f[n] = g[n]
  BY <1>5, <1>7
<1> QED
  BY <1>1, <1>8 DEF n

Flattened(F, s, V) ==
  /\ F \in [0..Len(s) -> Seq(V)] /\ F[0] = <<>>
  /\ \A i \in 1..Len(s) : F[i] = F[i - 1] \o s[i]

(* The prefixes of a flattened sequence.                                   *)
LEMMA Flattens ==
  ASSUME NEW V, NEW s \in Seq(Seq(V)), s # <<>>
  PROVE  \E F : Flattened(F, s, V) /\ FlattenSeq(s) = F[Len(s)]
<1> DEFINE n == Len(s)
           Until(F, m) == /\ F \in [0..m -> Seq(V)] /\ F[0] = <<>>
                          /\ \A i \in 1..m : F[i] = F[i - 1] \o s[i]
           T == {m \in Nat : \E F : Until(F, m)}
<1>1. n \in Nat \ {0} /\ \A i \in 1..n : s[i] \in Seq(V)
  BY EmptySeq, LenProperties
<1>2. 0 \in T
  <2>1. Until([i \in 0..0 |-> <<>>], 0)
    OBVIOUS
  <2> QED
    BY <2>1
<1>3. ASSUME NEW m \in 0..n, m + 1 <= n, m \in T PROVE m + 1 \in T
  <2>1. PICK F : Until(F, m)
    BY <1>3
  <2> DEFINE G == [i \in 0..m + 1 |-> IF i = m + 1 THEN F[m] \o s[m + 1] ELSE F[i]]
  <2>2. m \in Nat /\ m + 1 \in 1..n /\ m + 1 \in Nat
    BY <1>1, <1>3
  <2>3. F[m] \in Seq(V) /\ s[m + 1] \in Seq(V) /\ F[m] \o s[m + 1] \in Seq(V)
    BY <1>1, <2>1, <2>2
  <2>4. G \in [0..m + 1 -> Seq(V)] /\ G[0] = <<>>
    <3> DEFINE S == Seq(V)
               x == F[m] \o s[m + 1]
    <3>1. F \in [0..m -> S] /\ F[0] = <<>> /\ x \in S /\ m \in Nat
      BY <2>1, <2>2, <2>3
    <3>2. G = [i \in 0..m + 1 |-> IF i = m + 1 THEN x ELSE F[i]]
      OBVIOUS
    <3> HIDE DEF G, S, x
    <3>3. \A i \in 0..m + 1 : i # m + 1 => i \in 0..m
      BY <3>1
    <3>4. \A i \in 0..m + 1 : G[i] \in S
      BY <3>1, <3>2, <3>3
    <3>5. 0 \in 0..m + 1 /\ 0 # m + 1
      BY <3>1
    <3> QED BY <3>1, <3>2, <3>4, <3>5 DEF S
  <2>5. ASSUME NEW i \in 1..m + 1 PROVE G[i] = G[i - 1] \o s[i]
    <3>1. CASE i = m + 1
      <4>1. i - 1 = m /\ m \in 0..m + 1 /\ m # m + 1 /\ i \in 0..m + 1
        BY <2>2, <3>1
      <4>2. G[i] = F[m] \o s[m + 1] /\ G[m] = F[m]
        BY <3>1, <4>1
      <4> QED
        BY <3>1, <4>1, <4>2
    <3>2. CASE i # m + 1
      <4>1. i \in 1..m /\ i - 1 \in 0..m /\ i - 1 # m + 1 /\ i \in 0..m + 1 /\ i - 1 \in 0..m + 1
        BY <2>2, <3>2
      <4>2. G[i] = F[i] /\ G[i - 1] = F[i - 1]
        BY <3>2, <4>1
      <4> QED
        BY <2>1, <4>1, <4>2
    <3> QED
      BY <3>1, <3>2
  <2>6. Until(G, m + 1)
    BY <2>4, <2>5
  <2> QED
    BY <2>2, <2>6
<1>4. n \in T
  <2>1. n \in Nat
    BY <1>1
  <2> HIDE DEF T, n
  <2>2. \A k \in 0..n : k \in T
    BY <1>2, <1>3, <2>1, UpTo
  <2> QED
    BY <2>1, <2>2
<1>5. PICK F : Until(F, n)
  BY <1>4
<1>6. Flattened(F, s, V)
  BY <1>5 DEF Flattened
<1> DEFINE g == [i \in 1..n |-> F[i]]
<1>7. g = [i \in 1..n |-> IF i = 1 THEN s[i] ELSE g[i - 1] \o s[i]]
  <2>1. ASSUME NEW i \in 1..n PROVE g[i] = IF i = 1 THEN s[i] ELSE g[i - 1] \o s[i]
    <3>1. F[i] = F[i - 1] \o s[i] /\ s[i] \in Seq(V) /\ g[i] = F[i]
      BY <1>1, <1>5
    <3>2. CASE i = 1
      <4>1. F[i - 1] = <<>>
        BY <1>5, <3>2
      <4>2. <<>> \o s[i] = s[i]
        BY <3>1, ConcatEmptySeq
      <4> QED
        BY <3>1, <3>2, <4>1, <4>2
    <3>3. CASE i # 1
      <4>1. i - 1 \in 1..n
        BY <1>1, <3>3
      <4> QED
        BY <3>1, <3>3, <4>1
    <3> QED
      BY <3>2, <3>3
  <2> QED
    BY <2>1
<1>8. FlattenSeq(s) = g[n]
  <2> HIDE DEF g
  <2> QED
    BY <1>1, <1>7, FlattenAs
<1>9. n \in 1..n
  BY <1>1
<1> QED
  BY <1>6, <1>8, <1>9
-------------------------------------------------------------------------------
(* Cuts, in their order.                                                   *)
LEMMA CutsInOrder ==
  ASSUME NEW N \in Nat, NEW ends, ends \subseteq 1..N
  PROVE  /\ Cardinality(ends) \in Nat /\ CutAt(ends, 0) = 0
         /\ \A k \in 1..Cardinality(ends) : CutAt(ends, k) \in ends
         /\ \A j, k \in 0..Cardinality(ends) : j < k => CutAt(ends, j) < CutAt(ends, k)
         /\ \A e \in ends : \E k \in 1..Cardinality(ends) : CutAt(ends, k) = e
<1> DEFINE n == Cardinality(ends)
           Below(e) == {m \in ends : m <= e}
           place == [e \in ends |-> Cardinality(Below(e))]
<1>1. IsFiniteSet(ends)
  <2>1. IsFiniteSet(1..N)
    BY FS_Interval
  <2> QED
    BY <2>1, FS_Subset
<1>2. n \in Nat
  BY <1>1, FS_CardinalityType
<1>3. \A e \in ends : e \in Nat \ {0}
  OBVIOUS
<1>4. ASSUME NEW e \in ends
      PROVE  IsFiniteSet(Below(e)) /\ Cardinality(Below(e)) \in 1..n
  <2>1. Below(e) \in SUBSET ends /\ e \in Below(e)
    BY <1>3
  <2>2. IsFiniteSet(Below(e)) /\ Cardinality(Below(e)) <= n
    BY <1>1, <2>1, FS_Subset
  <2>3. Cardinality(Below(e)) \in Nat /\ Cardinality(Below(e)) # 0
    BY <2>1, <2>2, FS_CardinalityType, FS_EmptySet
  <2> QED
    BY <1>2, <2>2, <2>3
<1>5. ASSUME NEW e \in ends, NEW f \in ends, e < f PROVE place[e] < place[f]
  <2>0. e \in Nat /\ f \in Nat /\ ~(f <= e) /\ f <= f /\ \A m \in ends : m <= e => m <= f
    BY <1>3, <1>5
  <2>1. Below(e) \in SUBSET Below(f) /\ f \notin Below(e) /\ f \in Below(f)
    BY <2>0
  <2>2. Below(e) \in SUBSET Below(f) \ {f} /\ IsFiniteSet(Below(f))
    BY <1>4, <2>1
  <2>3. Cardinality(Below(f) \ {f}) = Cardinality(Below(f)) - 1 /\ IsFiniteSet(Below(f) \ {f})
    BY <2>1, <2>2, FS_RemoveElement
  <2>4. Cardinality(Below(e)) <= Cardinality(Below(f) \ {f})
    BY <2>2, <2>3, FS_Subset
  <2>5. Cardinality(Below(e)) \in Nat /\ Cardinality(Below(f)) \in Nat
    BY <1>2, <1>4
  <2> HIDE DEF Below
  <2> QED
    BY <2>3, <2>4, <2>5
<1>6. place \in [ends -> 1..n]
  BY <1>4
<1> HIDE DEF place
<1>7. \A e, f \in ends : place[e] = place[f] => e = f
  <2> SUFFICES ASSUME NEW e \in ends, NEW f \in ends, place[e] = place[f], e # f PROVE FALSE
    OBVIOUS
  <2>1. e < f \/ f < e
    BY <1>3
  <2>2. place[e] \in Int /\ place[f] \in Int
    BY <1>2, <1>6
  <2> QED
    BY <1>5, <2>1, <2>2
<1>8. place \in Surjection(ends, 1..n)
  <2>1. IsFiniteSet(1..n) /\ Cardinality(1..n) = n
    <3> HIDE DEF n
    <3>1. 1 \in Int /\ n \in Int
      BY <1>2
    <3> QED
      BY <1>2, <3>1, FS_Interval
  <2>2. place \in Injection(ends, 1..n)
    BY <1>6, <1>7 DEF Injection, IsInjective
  <2> QED
    BY <1>1, <2>1, <2>2, FS_Injection
<1>9. ASSUME NEW k \in 1..n PROVE CutAt(ends, k) \in ends /\ place[CutAt(ends, k)] = k
  <2>1. \E e \in ends : place[e] = k
    BY <1>8 DEF Surjection
  <2>2. \E e \in ends : Cardinality(Below(e)) = k
    BY <2>1 DEF place
  <2>3. CutAt(ends, k) = CHOOSE e \in ends : Cardinality(Below(e)) = k
    <3>1. k # 0
      BY <1>2
    <3> QED
      BY <3>1 DEF CutAt
  <2>4. CutAt(ends, k) \in ends /\ Cardinality(Below(CutAt(ends, k))) = k
    <3> HIDE DEF Below
    <3> QED
      BY <2>2, <2>3
  <2> QED
    BY <2>4 DEF place
<1>10. ASSUME NEW j \in 0..n, NEW k \in 0..n, j < k PROVE CutAt(ends, j) < CutAt(ends, k)
  <2>1. k \in 1..n /\ CutAt(ends, k) \in ends /\ place[CutAt(ends, k)] = k
    BY <1>2, <1>9, <1>10
  <2>2. CASE j = 0
    <3>1. CutAt(ends, j) = 0
      BY <2>2 DEF CutAt
    <3>2. \A e \in ends : 0 < e
      BY <1>3
    <3>3. 0 < CutAt(ends, k)
      BY <2>1, <3>2
    <3> QED
      BY <3>1, <3>3
  <2>3. CASE j # 0
    <3>1. j \in 1..n /\ CutAt(ends, j) \in ends /\ place[CutAt(ends, j)] = j
      BY <1>2, <1>9, <1>10, <2>3
    <3> DEFINE c == CutAt(ends, j)
               d == CutAt(ends, k)
    <3>2. c \in ends /\ d \in ends /\ place[c] < place[d] /\ c \in Nat /\ d \in Nat
      BY <1>2, <1>3, <1>10, <2>1, <3>1
    <3> HIDE DEF c, d
    <3>3. ~(d < c) /\ d # c
      <4>1. d < c => place[d] < place[c]
        BY <1>5, <3>2
      <4>2. place[c] \in Int /\ place[d] \in Int
        BY <1>2, <1>6, <3>2
      <4> QED
        BY <3>2, <4>1, <4>2
    <3>4. c < d
      BY <3>2, <3>3
    <3> QED
      BY <3>4 DEF c, d
  <2> QED
    BY <2>2, <2>3
<1>11. ASSUME NEW e \in ends PROVE \E k \in 1..n : CutAt(ends, k) = e
  <2>1. place[e] \in 1..n
    BY <1>6
  <2>2. CutAt(ends, place[e]) \in ends /\ place[CutAt(ends, place[e])] = place[e]
    BY <1>9, <2>1
  <2>3. CutAt(ends, place[e]) = e
    BY <1>7, <2>2
  <2> QED
    BY <2>1, <2>3
<1>12. CutAt(ends, 0) = 0
  BY DEF CutAt
<1> QED
  BY <1>2, <1>9, <1>10, <1>11, <1>12

Bytes == {"a", "h", "l", "r"}

(* The tokens are what is between the cuts; the last cut is the end.       *)
Cutting(toks, b, ends) ==
  /\ b \in Seq(Bytes) /\ ends \subseteq 1..Len(b) /\ (Len(b) # 0 => Len(b) \in ends)
  /\ toks \in Seq(Seq(Bytes)) /\ Len(toks) = Cardinality(ends)
  /\ \A k \in 1..Len(toks) : toks[k] = SubSeq(b, CutAt(ends, k - 1) + 1, CutAt(ends, k))

LEMMA Slices ==
  ASSUME NEW b \in Seq(Bytes), NEW p \in Nat, NEW e \in Nat, p <= e, e <= Len(b)
  PROVE  /\ SubSeq(b, p + 1, e) \in Seq(Bytes) /\ Len(SubSeq(b, p + 1, e)) = e - p
         /\ \A k \in 1..e - p : SubSeq(b, p + 1, e)[k] = b[p + k]
<1>1. Len(b) \in Nat /\ \A i \in 1..Len(b) : b[i] \in Bytes
  BY LenProperties, ElementOfSeq
<1>2. p + 1 \in Int /\ e \in Int /\ \A i \in p + 1..e : b[i] \in Bytes
  BY <1>1
<1>3. /\ SubSeq(b, p + 1, e) \in Seq(Bytes)
      /\ Len(SubSeq(b, p + 1, e)) = IF p + 1 <= e THEN e - (p + 1) + 1 ELSE 0
      /\ \A i \in 1..e - (p + 1) + 1 : SubSeq(b, p + 1, e)[i] = b[(p + 1) + i - 1]
  BY <1>2, SubSeqProperties
<1>4. e - (p + 1) + 1 = e - p /\ \A i \in Int : (p + 1) + i - 1 = p + i
  OBVIOUS
<1> QED
  BY <1>3, <1>4

LEMMA CutsAre ==
  ASSUME NEW toks, NEW b, NEW ends, Cutting(toks, b, ends)
  PROVE  /\ Len(b) \in Nat /\ Len(toks) \in Nat /\ (Len(toks) = 0 <=> Len(b) = 0)
         /\ CutAt(ends, 0) = 0 /\ CutAt(ends, Len(toks)) = Len(b)
         /\ \A k \in 0..Len(toks) : CutAt(ends, k) \in 0..Len(b)
         /\ \A k \in 1..Len(toks) : CutAt(ends, k) \in ends
         /\ \A j, k \in 0..Len(toks) : j < k <=> CutAt(ends, j) < CutAt(ends, k)
         /\ \A e \in ends : \E k \in 1..Len(toks) : CutAt(ends, k) = e
<1> DEFINE n == Len(toks)
           N == Len(b)
<1>1. N \in Nat /\ n \in Nat /\ ends \subseteq 1..N /\ n = Cardinality(ends)
  BY LenProperties DEF Cutting
<1>2. /\ CutAt(ends, 0) = 0
      /\ \A k \in 1..n : CutAt(ends, k) \in ends
      /\ \A j, k \in 0..n : j < k => CutAt(ends, j) < CutAt(ends, k)
      /\ \A e \in ends : \E k \in 1..n : CutAt(ends, k) = e
  BY <1>1, CutsInOrder
<1>3. \A k \in 0..n : CutAt(ends, k) \in 0..N
  <2> SUFFICES ASSUME NEW k \in 0..n PROVE CutAt(ends, k) \in 0..N
    OBVIOUS
  <2>1. CASE k = 0
    BY <1>1, <1>2, <2>1
  <2>2. CASE k # 0
    <3>1. k \in 1..n /\ \A e \in ends : e \in 0..N
      BY <1>1, <2>2
    <3> QED
      BY <1>2, <3>1
  <2> QED
    BY <2>1, <2>2
<1>4. N # 0 => N \in ends
  BY DEF Cutting
<1>5. n = 0 <=> N = 0
  <2>1. ASSUME N = 0 PROVE n = 0
    <3>1. ends = {}
      BY <1>1, <2>1
    <3> QED
      BY <1>1, <3>1, FS_EmptySet
  <2>2. ASSUME n = 0 PROVE N = 0
    <3>1. ends = {}
      BY <1>1, <1>2, <2>2
    <3> QED
      BY <1>4, <3>1
  <2> QED
    BY <2>1, <2>2
<1> HIDE DEF n, N
<1>6. CutAt(ends, n) = N
  <2>1. CASE N = 0
    BY <1>2, <1>5, <2>1
  <2>2. CASE N # 0
    <3>1. PICK k \in 1..n : CutAt(ends, k) = N
      BY <1>2, <1>4, <2>2
    <3>2. k \in 0..n /\ n \in 0..n /\ (k = n \/ k < n)
      BY <1>1
    <3>3. k < n => N < CutAt(ends, n)
      BY <1>2, <3>1, <3>2
    <3>4. CutAt(ends, n) \in 0..N
      BY <1>3, <3>2
    <3> QED
      BY <1>1, <3>1, <3>2, <3>3, <3>4
  <2> QED
    BY <2>1, <2>2
<1>7. \A j, k \in 0..n : j < k <=> CutAt(ends, j) < CutAt(ends, k)
  <2> SUFFICES ASSUME NEW j \in 0..n, NEW k \in 0..n, CutAt(ends, j) < CutAt(ends, k) PROVE j < k
    BY <1>2
  <2>1. CutAt(ends, j) \in Int /\ CutAt(ends, k) \in Int /\ j \in Int /\ k \in Int
    BY <1>1, <1>3
  <2>2. k < j => CutAt(ends, k) < CutAt(ends, j)
    BY <1>2
  <2>3. k # j
    BY <2>1
  <2> QED
    BY <2>1, <2>2, <2>3
<1> QED
  BY <1>1, <1>2, <1>3, <1>5, <1>6, <1>7 DEF n, N

LEMMA TokenizationCuts ==
  ASSUME NEW b \in Seq(Bytes), NEW toks \in Tokenizations(b)
  PROVE  \E ends : Cutting(toks, b, ends)
<1> DEFINE N == Len(b)
<1>1. N \in Nat
  BY LenProperties
<1>2. CASE b = <<>>
  <2>1. toks = <<>> /\ N = 0
    BY <1>2 DEF Tokenizations
  <2>2. toks \in Seq(Seq(Bytes)) /\ Len(toks) = 0 /\ Cardinality({}) = 0
    BY <2>1, FS_EmptySet
  <2>3. Cutting(toks, b, {})
    BY <2>1, <2>2 DEF Cutting
  <2> QED
    BY <2>3
<1>3. CASE b # <<>>
  <2> DEFINE Cuts(cuts) == [n \in 1..Cardinality(cuts) + 1 |-> TokenAt(b, cuts \cup {N}, n)]
  <2>1. Tokenizations(b) = {Cuts(cuts) : cuts \in SUBSET (1..N - 1)}
    BY <1>3 DEF Tokenizations
  <2>2. toks \in {Cuts(cuts) : cuts \in SUBSET (1..N - 1)}
    BY <2>1
  <2> HIDE DEF Cuts
  <2>3. PICK cuts \in SUBSET (1..N - 1) : toks = Cuts(cuts)
    BY <2>2
  <2> DEFINE ends == cuts \cup {N}
             n == Cardinality(cuts) + 1
  <2>4. N # 0
    BY <1>3, EmptySeq
  <2>5. ends \subseteq 1..N /\ N \in ends /\ N \notin cuts
    <3> HIDE DEF N
    <3>1. N \in 1..N /\ N \notin 1..N - 1 /\ \A m \in 1..N - 1 : m \in 1..N
      BY <1>1, <2>4
    <3> QED
      BY <3>1
  <2>6. Cardinality(ends) = n
    <3>1. IsFiniteSet(1..N - 1)
      BY <1>1, FS_Interval
    <3>2. IsFiniteSet(cuts)
      BY <3>1, FS_Subset
    <3> QED
      BY <2>5, <3>2, FS_AddElement
  <2>7. /\ n \in Nat
        /\ \A k \in 1..n : CutAt(ends, k) \in ends
        /\ \A j, k \in 0..n : j < k => CutAt(ends, j) < CutAt(ends, k)
        /\ CutAt(ends, 0) = 0
    BY <1>1, <2>5, <2>6, CutsInOrder
  <2>8. toks = [k \in 1..n |-> TokenAt(b, ends, k)]
    BY <2>3 DEF Cuts
  <2> HIDE DEF n, ends
  <2>9. ASSUME NEW k \in 1..n
        PROVE  /\ toks[k] = SubSeq(b, CutAt(ends, k - 1) + 1, CutAt(ends, k))
               /\ toks[k] \in Seq(Bytes)
    <3> DEFINE p == CutAt(ends, k - 1)
               e == CutAt(ends, k)
    <3>1. k - 1 \in 0..n /\ k \in 0..n /\ k - 1 < k
      BY <2>7
    <3>2. k - 1 = 0 \/ k - 1 \in 1..n
      BY <2>7
    <3>3. p \in Nat /\ e \in 1..N /\ p < e
      <4>1. e \in ends /\ p < e /\ (p = 0 \/ p \in ends)
        BY <2>7, <3>1, <3>2
      <4>2. \A m \in ends : m \in 1..N /\ m \in Nat
        BY <1>1, <2>5
      <4> QED
        BY <4>1, <4>2
    <3>4. toks[k] = SubSeq(b, p + 1, e)
      BY <2>8 DEF TokenAt
    <3> HIDE DEF p, e
    <3>5. SubSeq(b, p + 1, e) \in Seq(Bytes)
      BY <1>1, <3>3, Slices
    <3> QED
      BY <3>4, <3>5 DEF p, e
  <2>10. toks \in Seq(Seq(Bytes)) /\ Len(toks) = n
    <3>1. toks = [k \in 1..n |-> toks[k]] /\ n \in Nat /\ \A k \in 1..n : toks[k] \in Seq(Bytes)
      BY <2>7, <2>8, <2>9
    <3> DEFINE S == Seq(Bytes)
    <3> HIDE DEF S
    <3>2. \A k \in 1..n : toks[k] \in S
      BY <3>1 DEF S
    <3>3. toks \in Seq(S) /\ Len(toks) = n
      BY <3>1, <3>2, SMTT(30)
    <3> QED
      BY <3>3 DEF S
  <2>11. Cutting(toks, b, ends)
    BY <2>5, <2>6, <2>9, <2>10 DEF Cutting
  <2> QED
    BY <2>11
<1> QED
  BY <1>2, <1>3
-------------------------------------------------------------------------------
(* The characters of bytes: what decode() makes of each of them.           *)
Chars == {<<"e">>, <<>>, <<"a">>, <<Replacement>>}
CharsOf(b) == [k \in DOMAIN b |-> CharAt(b, k)]
Characters(c, N) ==
  /\ c \in [1..N -> Chars]
  /\ \A k \in 1..N : c[k] = <<>> <=> k > 1 /\ c[k - 1] = <<"e">>
  /\ \A k \in 1..N : c[k] = <<"e">> => k < N
Starts(c, p) == p = 0 \/ c[p] # <<"e">>
LastPiece(c, e) == IF c[e] = <<"e">> THEN <<Replacement>> ELSE c[e]
Pieces(c, p, e) == [k \in 1..e - p |-> IF k = e - p THEN LastPiece(c, e) ELSE c[p + k]]
SliceText(c, p, e) == FlattenSeq(Pieces(c, p, e))

LEMMA CharsDiffer ==
  /\ <<"e">> # <<>> /\ <<"a">> # <<>> /\ <<Replacement>> # <<>>
  /\ <<"e">> # <<"a">> /\ <<"e">> # <<Replacement>> /\ <<"a">> # <<Replacement>>
<1>1. /\ Len(<<"e">>) = 1 /\ Len(<<"a">>) = 1 /\ Len(<<Replacement>>) = 1
      /\ <<"e">>[1] = "e" /\ <<"a">>[1] = "a" /\ <<Replacement>>[1] = Replacement
      /\ Len(<<>>) = 0
  OBVIOUS
<1>2. "e" # "a" /\ "e" # Replacement /\ "a" # Replacement
  BY DEF Replacement
<1> QED
  BY <1>1, <1>2

(* A byte by its neighbours. *)
LEMMA CharCases ==
  ASSUME NEW b \in Seq(Bytes), NEW k \in 1..Len(b)
  PROVE  /\ CharAt(b, k) \in Chars
         /\ CharAt(b, k) = <<"e">> <=> b[k] = "h" /\ k < Len(b) /\ b[k + 1] = "l"
         /\ CharAt(b, k) = <<>> <=> b[k] = "l" /\ k > 1 /\ b[k - 1] = "h"
         /\ CharAt(b, k) = <<"a">> <=> b[k] = "a"
<1>1. "h" # "l" /\ "h" # "a" /\ "l" # "a"
  OBVIOUS
<1>2. CASE b[k] = "h" /\ k < Len(b) /\ b[k + 1] = "l"
  BY <1>1, <1>2, CharsDiffer DEF CharAt, Chars
<1>3. CASE b[k] = "l" /\ k > 1 /\ b[k - 1] = "h"
  BY <1>1, <1>3, CharsDiffer DEF CharAt, Chars
<1>4. CASE b[k] = "a"
  BY <1>1, <1>4, CharsDiffer DEF CharAt, Chars
<1>5. CASE /\ ~(b[k] = "h" /\ k < Len(b) /\ b[k + 1] = "l")
           /\ ~(b[k] = "l" /\ k > 1 /\ b[k - 1] = "h") /\ b[k] # "a"
  <2>1. CharAt(b, k) = <<Replacement>>
    BY <1>5 DEF CharAt
  <2> QED
    BY <1>5, <2>1, CharsDiffer DEF Chars
<1> QED
  BY <1>2, <1>3, <1>4, <1>5

LEMMA CharsAre ==
  ASSUME NEW b \in Seq(Bytes)
  PROVE  Characters(CharsOf(b), Len(b))
<1>1. Len(b) \in Nat /\ DOMAIN b = 1..Len(b)
  BY LenProperties
<1>2. \A k \in 1..Len(b) : CharsOf(b)[k] = CharAt(b, k) /\ CharAt(b, k) \in Chars
  BY <1>1, CharCases DEF CharsOf
<1>3. CharsOf(b) \in [1..Len(b) -> Chars]
  BY <1>1, <1>2 DEF CharsOf
<1>4. ASSUME NEW k \in 1..Len(b)
      PROVE  CharsOf(b)[k] = <<>> <=> k > 1 /\ CharsOf(b)[k - 1] = <<"e">>
  <2>1. CharsOf(b)[k] = <<>> <=> b[k] = "l" /\ k > 1 /\ b[k - 1] = "h"
    BY <1>2, CharCases
  <2>2. CASE k > 1
    <3>1. k - 1 \in 1..Len(b) /\ (k - 1) + 1 = k /\ k - 1 < Len(b)
      BY <1>1, <2>2
    <3>2. CharAt(b, k - 1) = <<"e">> <=> b[k - 1] = "h" /\ k - 1 < Len(b) /\ b[(k - 1) + 1] = "l"
      BY <3>1, CharCases
    <3> QED
      BY <1>2, <2>1, <2>2, <3>1, <3>2
  <2> QED
    BY <2>1, <2>2
<1>5. \A k \in 1..Len(b) : CharsOf(b)[k] = <<"e">> => k < Len(b)
  BY <1>2, CharCases
<1> QED
  BY <1>3, <1>4, <1>5 DEF Characters

(* The text encoded again has the same characters. *)
LEMMA EncodeSame ==
  ASSUME NEW b \in Seq(Bytes)
  PROVE  Encode(b) \in Seq(Bytes) /\ Len(Encode(b)) = Len(b) /\ CharsOf(Encode(b)) = CharsOf(b)
<1> DEFINE N == Len(b)
           r == Encode(b)
<1>1. N \in Nat /\ DOMAIN b = 1..N /\ \A k \in 1..N : b[k] \in Bytes
  BY LenProperties, ElementOfSeq
<1>2. r = [k \in 1..N |-> IF CharAt(b, k) = <<Replacement>> THEN "r" ELSE b[k]]
  BY <1>1 DEF Encode
<1>3. \A k \in 1..N : r[k] \in Bytes
  BY <1>1, <1>2 DEF Bytes
<1>4. r \in Seq(Bytes) /\ Len(r) = N
  <2>1. r = [k \in 1..N |-> r[k]]
    BY <1>2
  <2> HIDE DEF r, N
  <2> QED
    BY <1>1, <1>3, <2>1
<1>5. DOMAIN r = 1..N
  BY <1>2
<1> HIDE DEF r
<1>6. \A k \in 1..N : r[k] = IF CharAt(b, k) = <<Replacement>> THEN "r" ELSE b[k]
  BY <1>2
<1>7. ASSUME NEW k \in 1..N PROVE CharAt(r, k) = CharAt(b, k)
  <2>1. CASE CharAt(b, k) = <<"e">>
    <3>1. b[k] = "h" /\ k < N /\ b[k + 1] = "l" /\ k + 1 \in 1..N /\ (k + 1) - 1 = k /\ k + 1 > 1
      BY <1>1, <2>1, CharCases
    <3>2. CharAt(b, k + 1) = <<>>
      BY <3>1, CharCases
    <3>3. r[k] = "h" /\ r[k + 1] = "l"
      BY <1>6, <2>1, <3>1, <3>2, CharsDiffer
    <3>4. CharAt(r, k) = <<"e">>
      BY <1>4, <3>1, <3>3, CharCases
    <3> QED
      BY <2>1, <3>4
  <2>2. CASE CharAt(b, k) = <<>>
    <3>1. b[k] = "l" /\ k > 1 /\ b[k - 1] = "h" /\ k - 1 \in 1..N /\ (k - 1) + 1 = k /\ k - 1 < N
      BY <1>1, <2>2, CharCases
    <3>2. CharAt(b, k - 1) = <<"e">>
      BY <3>1, CharCases
    <3>3. r[k] = "l" /\ r[k - 1] = "h"
      BY <1>6, <2>2, <3>1, <3>2, CharsDiffer
    <3>4. CharAt(r, k) = <<>>
      BY <1>4, <3>1, <3>3, CharCases
    <3> QED
      BY <2>2, <3>4
  <2>3. CASE CharAt(b, k) = <<"a">>
    <3>1. b[k] = "a"
      BY <2>3, CharCases
    <3>2. r[k] = "a"
      BY <1>6, <2>3, <3>1, CharsDiffer
    <3>3. CharAt(r, k) = <<"a">>
      BY <1>4, <3>2, CharCases
    <3> QED
      BY <2>3, <3>3
  <2>4. CASE CharAt(b, k) = <<Replacement>>
    <3>1. r[k] = "r"
      BY <1>6, <2>4
    <3>2. "r" # "h" /\ "r" # "l" /\ "r" # "a"
      OBVIOUS
    <3>3. CharAt(r, k) # <<"e">> /\ CharAt(r, k) # <<>> /\ CharAt(r, k) # <<"a">>
      BY <1>4, <3>1, <3>2, CharCases
    <3>4. CharAt(r, k) \in Chars
      BY <1>4, CharCases
    <3> QED
      BY <2>4, <3>3, <3>4 DEF Chars
  <2>5. CharAt(b, k) \in Chars
    BY CharCases
  <2> QED
    BY <2>1, <2>2, <2>3, <2>4, <2>5 DEF Chars
<1>8. CharsOf(r) = CharsOf(b)
  BY <1>1, <1>5, <1>7 DEF CharsOf
<1> QED
  BY <1>4, <1>8 DEF r

(* Of a slice that starts at a character, only the last one can be cut.    *)
LEMMA SliceChars ==
  ASSUME NEW b \in Seq(Bytes), NEW p \in Nat, NEW e \in Nat, p < e, e <= Len(b),
         Starts(CharsOf(b), p)
  PROVE  Decode(SubSeq(b, p + 1, e)) = SliceText(CharsOf(b), p, e)
<1> DEFINE N == Len(b)
           s == SubSeq(b, p + 1, e)
           m == e - p
           c == CharsOf(b)
<1>1. N \in Nat /\ DOMAIN b = 1..N /\ m \in Nat \ {0}
  BY LenProperties
<1>2. s \in Seq(Bytes) /\ Len(s) = m /\ \A k \in 1..m : s[k] = b[p + k]
  BY Slices
<1>3. DOMAIN s = 1..m
  BY <1>2, LenProperties
<1>4. \A k \in 1..N : c[k] = CharAt(b, k)
  BY <1>1 DEF CharsOf
<1>5. Characters(c, N)
  BY CharsAre
<1> HIDE DEF s, c
<1>6. ASSUME NEW k \in 1..m
      PROVE  CharAt(s, k) = IF k = m THEN LastPiece(c, e) ELSE c[p + k]
  <2>1. p + k \in 1..N /\ s[k] = b[p + k] /\ c[p + k] = CharAt(b, p + k)
    BY <1>1, <1>2, <1>4
  <2>2. /\ CharAt(s, k) \in Chars
        /\ CharAt(s, k) = <<"e">> <=> s[k] = "h" /\ k < m /\ s[k + 1] = "l"
        /\ CharAt(s, k) = <<>> <=> s[k] = "l" /\ k > 1 /\ s[k - 1] = "h"
        /\ CharAt(s, k) = <<"a">> <=> s[k] = "a"
    BY <1>2, CharCases
  <2>3. /\ c[p + k] \in Chars
        /\ c[p + k] = <<"e">> <=> b[p + k] = "h" /\ p + k < N /\ b[p + k + 1] = "l"
        /\ c[p + k] = <<>> <=> b[p + k] = "l" /\ p + k > 1 /\ b[p + k - 1] = "h"
        /\ c[p + k] = <<"a">> <=> b[p + k] = "a"
    BY <2>1, CharCases
  <2>4. CharAt(s, k) = <<"a">> <=> c[p + k] = <<"a">>
    BY <2>1, <2>2, <2>3
  <2>5. CharAt(s, k) = <<>> <=> c[p + k] = <<>>
    <3>1. CASE k > 1
      <4>1. k - 1 \in 1..m /\ p + (k - 1) = p + k - 1 /\ p + k > 1
        BY <1>1, <3>1
      <4>2. s[k - 1] = b[p + k - 1]
        BY <1>2, <4>1
      <4> QED
        BY <2>1, <2>2, <2>3, <3>1, <4>1, <4>2
    <3>2. CASE k = 1
      <4>1. CharAt(s, k) # <<>>
        BY <2>2, <3>2
      <4>2. c[p + k] = <<>> => p + k > 1 /\ c[p + k - 1] = <<"e">>
        BY <1>5, <2>1 DEF Characters
      <4>3. p + k - 1 = p /\ (p + k > 1 => p # 0)
        BY <3>2
      <4>4. c[p + k] # <<>>
        BY <4>2, <4>3 DEF Starts, c
      <4> QED
        BY <4>1, <4>4
    <3> QED
      BY <1>1, <3>1, <3>2
  <2>6. CASE k # m
    <3>1. k < m /\ k + 1 \in 1..m /\ p + (k + 1) = p + k + 1 /\ p + k < N
      BY <1>1, <2>6
    <3>2. s[k + 1] = b[p + k + 1]
      BY <1>2, <3>1
    <3>3. CharAt(s, k) = <<"e">> <=> c[p + k] = <<"e">>
      BY <2>1, <2>2, <2>3, <3>1, <3>2
    <3> QED
      BY <2>2, <2>3, <2>4, <2>5, <2>6, <3>3 DEF Chars
  <2>7. CASE k = m
    <3>1. p + k = e /\ CharAt(s, k) # <<"e">>
      BY <1>1, <2>2, <2>7
    <3>2. LastPiece(c, e) = IF c[p + k] = <<"e">> THEN <<Replacement>> ELSE c[p + k]
      BY <3>1 DEF LastPiece
    <3>3. CASE c[p + k] = <<"e">>
      <4>1. CharAt(s, k) # <<"a">> /\ CharAt(s, k) # <<>>
        BY <2>4, <2>5, <3>3, CharsDiffer
      <4>2. CharAt(s, k) = <<Replacement>>
        BY <2>2, <3>1, <4>1 DEF Chars
      <4> QED
        BY <2>7, <3>2, <3>3, <4>2
    <3>4. CASE c[p + k] # <<"e">>
      BY <2>2, <2>3, <2>4, <2>5, <2>7, <3>1, <3>2, <3>4 DEF Chars
    <3> QED
      BY <3>3, <3>4
  <2> QED
    BY <2>6, <2>7
<1>7. [k \in DOMAIN s |-> CharAt(s, k)] = Pieces(c, p, e)
  BY <1>3, <1>6 DEF Pieces
<1>8. Decode(s) = FlattenSeq([k \in DOMAIN s |-> CharAt(s, k)])
  BY DEF Decode
<1>9. Decode(s) = SliceText(c, p, e)
  BY <1>7, <1>8 DEF SliceText
<1> QED
  BY <1>9 DEF s, c
-------------------------------------------------------------------------------
(* Texts of slices, from the prefixes of one flattened sequence.           *)
Marks == {"e", "a", Replacement}

LEMMA CharsInSequence ==
  \A x \in Chars : x \in Seq(Marks) /\ Len(x) = IF x = <<>> THEN 0 ELSE 1
<1>1. <<"e">> \in Seq(Marks) /\ Len(<<"e">>) = 1
  BY DEF Marks
<1>2. <<"a">> \in Seq(Marks) /\ Len(<<"a">>) = 1
  BY DEF Marks
<1>3. <<Replacement>> \in Seq(Marks) /\ Len(<<Replacement>>) = 1
  BY DEF Marks
<1>4. <<>> \in Seq(Marks) /\ Len(<<>>) = 0
  BY EmptySeq
<1> SUFFICES ASSUME NEW x \in Chars
             PROVE  x \in Seq(Marks) /\ Len(x) = IF x = <<>> THEN 0 ELSE 1
  OBVIOUS
<1>5. CASE x = <<>>
  BY <1>4, <1>5
<1>6. CASE x # <<>>
  <2>1. x \in Seq(Marks) /\ Len(x) = 1
    BY <1>1, <1>2, <1>3, <1>6 DEF Chars
  <2> QED
    BY <1>6, <2>1
<1> QED
  BY <1>5, <1>6

(* F[i] is the characters p + 1 to p + i, the last one as it is. *)
PrefixTexts(F, c, N, p) ==
  /\ F \in [0..N - p -> Seq(Marks)] /\ F[0] = <<>>
  /\ \A i \in 1..N - p : F[i] = F[i - 1] \o c[p + i]
  /\ \A e \in p + 1..N : SliceText(c, p, e) = F[e - p - 1] \o LastPiece(c, e)

LEMMA SliceTextAs ==
  ASSUME NEW N \in Nat, NEW c, Characters(c, N), NEW p \in 0..N, p < N
  PROVE  \E F : PrefixTexts(F, c, N, p)
<1> DEFINE n == N - p
           s == [k \in 1..n |-> c[p + k]]
<1>1. n \in Nat \ {0} /\ p \in Nat /\ \A i \in 1..n : p + i \in 1..N
  OBVIOUS
<1>2. \A k \in 1..N : c[k] \in Seq(Marks) /\ LastPiece(c, k) \in Seq(Marks)
  <2>1. \A x \in Chars : x \in Seq(Marks)
    BY CharsInSequence
  <2>2. <<Replacement>> \in Chars
    BY DEF Chars
  <2> QED
    BY <2>1, <2>2 DEF Characters, LastPiece
<1>3. Len(s) = n /\ \A i \in 1..n : s[i] = c[p + i] /\ s[i] \in Seq(Marks)
  BY <1>1, <1>2
<1>4. s \in Seq(Seq(Marks)) /\ s # <<>>
  <2>1. s = [k \in 1..n |-> s[k]]
    OBVIOUS
  <2>2. s \in Seq(Seq(Marks))
    <3> HIDE DEF s, n
    <3> QED
      BY <1>1, <1>3, <2>1
  <2> QED
    BY <1>1, <1>3, <2>2, EmptySeq
<1> HIDE DEF s
<1>5. PICK F : Flattened(F, s, Marks)
  BY <1>4, Flattens
<1>6. /\ F \in [0..n -> Seq(Marks)] /\ F[0] = <<>>
      /\ \A i \in 1..n : F[i] = F[i - 1] \o c[p + i]
  BY <1>3, <1>5 DEF Flattened
<1>7. ASSUME NEW e \in p + 1..N PROVE SliceText(c, p, e) = F[e - p - 1] \o LastPiece(c, e)
  <2> DEFINE m == e - p
             q == Pieces(c, p, e)
             g == [i \in 1..m |-> IF i = m THEN F[m - 1] \o LastPiece(c, e) ELSE F[i]]
  <2>1. m \in 1..n /\ m \in Nat \ {0} /\ m - 1 \in 0..n /\ e \in 1..N /\ m = e - p
    BY <1>1
  <2>2. Len(q) = m /\ \A i \in 1..m : q[i] = IF i = m THEN LastPiece(c, e) ELSE c[p + i]
    BY <2>1 DEF Pieces
  <2> HIDE DEF q
  <2> HIDE DEF m
  <2>3. ASSUME NEW i \in 1..m PROVE g[i] = IF i = 1 THEN q[i] ELSE g[i - 1] \o q[i]
    <3>1. i - 1 \in 0..n /\ i \in 1..n /\ i - 1 # m
      BY <2>1
    <3>2. F[i] = F[i - 1] \o c[p + i]
      BY <1>6, <3>1
    <3>3. g[i] = F[i - 1] \o q[i]
      BY <2>1, <2>2, <3>2
    <3>4. CASE i = 1
      <4>1. F[i - 1] = <<>>
        BY <1>6, <3>4
      <4>2. p + i \in 1..N
        BY <1>1, <3>1
      <4>3. q[i] \in Seq(Marks)
        BY <1>2, <2>1, <2>2, <4>2
      <4>4. <<>> \o q[i] = q[i]
        BY <4>3, ConcatEmptySeq
      <4> QED
        BY <3>3, <3>4, <4>1, <4>4
    <3>5. CASE i # 1
      <4>1. i - 1 \in 1..m
        BY <2>1, <3>5
      <4>2. g[i - 1] = F[i - 1]
        BY <3>1, <4>1
      <4> QED
        BY <3>3, <3>5, <4>2
    <3> QED
      BY <3>4, <3>5
  <2>4. g = [i \in 1..m |-> IF i = 1 THEN q[i] ELSE g[i - 1] \o q[i]]
    BY <2>3
  <2>5. g[m] = F[m - 1] \o LastPiece(c, e)
    BY <2>1
  <2> HIDE DEF g
  <2>6. FlattenSeq(q) = g[m]
    <3>1. Len(q) \in Nat \ {0} /\ g = [i \in 1..Len(q) |-> IF i = 1 THEN q[i] ELSE g[i - 1] \o q[i]]
      BY <2>1, <2>2, <2>4
    <3>2. FlattenSeq(q) = g[Len(q)]
      BY <3>1, FlattenAs
    <3> QED
      BY <2>2, <3>2
  <2> QED
    BY <2>1, <2>5, <2>6 DEF SliceText, q
<1>8. PrefixTexts(F, c, N, p)
  BY <1>6, <1>7 DEF PrefixTexts
<1> QED
  BY <1>8

(* How long the texts are, and how they end.                               *)
LEMMA SliceTexts ==
  ASSUME NEW N \in Nat, NEW c, Characters(c, N), NEW p \in 0..N, p < N, Starts(c, p)
  PROVE  /\ \A e \in p + 1..N : SliceText(c, p, e) \in Seq(Marks)
         /\ \A e \in p + 1..N - 1 :
              Len(SliceText(c, p, e + 1)) =
                Len(SliceText(c, p, e)) + IF c[e] = <<"e">> THEN 0 ELSE 1
         /\ \A e \in p + 1..N :
              Incomplete(SliceText(c, p, e)) <=> c[e] = <<"e">> \/ c[e] = <<Replacement>>
<1>1. PICK F : PrefixTexts(F, c, N, p)
  BY SliceTextAs
<1> DEFINE n == N - p
<1>2. /\ n \in Nat /\ p \in Nat
      /\ \A e \in p + 1..N : e - p \in 1..n /\ e - p - 1 \in 0..n /\ e \in 1..N
      /\ \A e \in p + 1..N : p + (e - p) = e
  OBVIOUS
<1>3. /\ \A i \in 0..n : F[i] \in Seq(Marks) /\ Len(F[i]) \in Nat
      /\ \A i \in 1..n : F[i] = F[i - 1] \o c[p + i]
      /\ \A e \in p + 1..N : SliceText(c, p, e) = F[e - p - 1] \o LastPiece(c, e)
  BY <1>1, LenProperties DEF PrefixTexts
<1>4. \A k \in 1..N : c[k] \in Seq(Marks) /\ Len(c[k]) = IF c[k] = <<>> THEN 0 ELSE 1
  <2>1. \A x \in Chars : x \in Seq(Marks) /\ Len(x) = IF x = <<>> THEN 0 ELSE 1
    BY CharsInSequence
  <2> QED
    BY <2>1 DEF Characters
<1>5. \A k \in 1..N : LastPiece(c, k) \in Seq(Marks) /\ Len(LastPiece(c, k)) = Len(c[k])
  <2>1. <<Replacement>> \in Seq(Marks) /\ Len(<<Replacement>>) = 1 /\ Len(<<"e">>) = 1
    BY DEF Marks
  <2> QED
    BY <1>4, <2>1 DEF LastPiece
<1> HIDE DEF n
<1>6. ASSUME NEW e \in p + 1..N
      PROVE  /\ SliceText(c, p, e) \in Seq(Marks)
             /\ Len(SliceText(c, p, e)) = Len(F[e - p - 1]) + Len(c[e])
             /\ Len(F[e - p]) = Len(F[e - p - 1]) + Len(c[e])
  <2>1. /\ F[e - p - 1] \in Seq(Marks) /\ e \in 1..N /\ c[e] \in Seq(Marks)
        /\ LastPiece(c, e) \in Seq(Marks)
        /\ Len(LastPiece(c, e)) = Len(c[e])
    BY <1>2, <1>3, <1>4, <1>5
  <2>2. SliceText(c, p, e) = F[e - p - 1] \o LastPiece(c, e) /\ F[e - p] = F[e - p - 1] \o c[e]
    BY <1>2, <1>3
  <2> DEFINE f == F[e - p - 1]
             x == LastPiece(c, e)
             y == c[e]
  <2>3. f \in Seq(Marks) /\ x \in Seq(Marks) /\ y \in Seq(Marks)
    BY <2>1
  <2> HIDE DEF f, x, y
  <2>4. f \o x \in Seq(Marks) /\ Len(f \o x) = Len(f) + Len(x) /\ Len(f \o y) = Len(f) + Len(y)
    BY <2>3, ConcatProperties
  <2> QED
    BY <2>1, <2>2, <2>4 DEF f, x, y
<1>7. ASSUME NEW e \in p + 1..N - 1
      PROVE  Len(SliceText(c, p, e + 1)) = Len(SliceText(c, p, e)) + IF c[e] = <<"e">> THEN 0 ELSE 1
  <2>1. e \in p + 1..N /\ e + 1 \in p + 1..N /\ (e + 1) - p - 1 = e - p /\ e + 1 \in 1..N
        /\ e + 1 > 1 /\ (e + 1) - 1 = e
    BY <1>2
  <2>2. c[e + 1] = <<>> <=> c[e] = <<"e">>
    BY <2>1 DEF Characters
  <2>3. Len(c[e + 1]) = IF c[e] = <<"e">> THEN 0 ELSE 1
    BY <1>4, <2>1, <2>2
  <2>4. Len(SliceText(c, p, e + 1)) = Len(F[e - p]) + Len(c[e + 1])
    BY <1>6, <2>1
  <2>5. Len(F[e - p]) = Len(SliceText(c, p, e))
    BY <1>6, <2>1
  <2> QED
    BY <2>3, <2>4, <2>5
<1>8. ASSUME NEW e \in p + 1..N
      PROVE  Incomplete(SliceText(c, p, e)) <=> c[e] = <<"e">> \/ c[e] = <<Replacement>>
  <2> DEFINE t == SliceText(c, p, e)
  <2>1. e \in 1..N /\ c[e] \in Chars
    BY <1>2 DEF Characters
  <2>2. /\ F[e - p - 1] \in Seq(Marks) /\ LastPiece(c, e) \in Seq(Marks) /\ c[e] \in Seq(Marks)
        /\ Len(LastPiece(c, e)) = Len(c[e]) /\ Len(F[e - p - 1]) \in Nat
    BY <1>2, <1>3, <1>4, <1>5
  <2>3. t = F[e - p - 1] \o LastPiece(c, e)
    BY <1>3
  <2> HIDE DEF t
  <2>4. CASE c[e] # <<>>
    <3>1. Len(LastPiece(c, e)) = 1
      BY <1>4, <2>1, <2>2, <2>4
    <3>2. t \in Seq(Marks) /\ Len(t) = Len(F[e - p - 1]) + 1
      <4> DEFINE f == F[e - p - 1]
                 x == LastPiece(c, e)
      <4>1. f \in Seq(Marks) /\ x \in Seq(Marks) /\ Len(x) = 1 /\ t = f \o x
        BY <2>2, <2>3, <3>1
      <4> HIDE DEF f, x
      <4>2. f \o x \in Seq(Marks) /\ Len(f \o x) = Len(f) + Len(x)
        BY <4>1, ConcatProperties
      <4> QED
        BY <4>1, <4>2 DEF f, x
    <3>3. t[Len(t)] = LastPiece(c, e)[1]
      <4>1. \A i \in 1..Len(F[e - p - 1]) + 1 :
              (F[e - p - 1] \o LastPiece(c, e))[i] =
                IF i <= Len(F[e - p - 1]) THEN F[e - p - 1][i]
                ELSE LastPiece(c, e)[i - Len(F[e - p - 1])]
        BY <2>2, <3>1, ConcatProperties
      <4>2. Len(t) \in 1..Len(F[e - p - 1]) + 1 /\ ~(Len(t) <= Len(F[e - p - 1]))
            /\ Len(t) - Len(F[e - p - 1]) = 1
        BY <2>2, <3>2
      <4> QED
        BY <2>3, <4>1, <4>2
    <3>4. Incomplete(t) <=> LastPiece(c, e)[1] = Replacement
      <4>1. t # <<>>
        BY <2>2, <3>2, EmptySeq
      <4> QED
        BY <3>3, <4>1 DEF Incomplete, Last
    <3>5. CASE c[e] = <<"e">>
      BY <3>4, <3>5 DEF LastPiece, t
    <3>6. CASE c[e] = <<Replacement>>
      BY <3>4, <3>6, CharsDiffer DEF LastPiece, t
    <3>7. CASE c[e] = <<"a">>
      <4>1. LastPiece(c, e)[1] = "a" /\ c[e] # <<"e">> /\ c[e] # <<Replacement>>
        BY <3>7, CharsDiffer DEF LastPiece
      <4> QED
        BY <3>4, <4>1 DEF Replacement, t
    <3> QED
      BY <2>1, <2>4, <3>5, <3>6, <3>7 DEF Chars
  <2>5. CASE c[e] = <<>>
    <3>1. e > 1 /\ c[e - 1] = <<"e">>
      BY <2>1, <2>5 DEF Characters
    <3>2. e # p + 1
      <4> SUFFICES ASSUME e = p + 1 PROVE FALSE
        OBVIOUS
      <4>1. p # 0 /\ e - 1 = p
        BY <3>1, <1>2
      <4> QED
        BY <3>1, <4>1 DEF Starts
    <3>3. /\ e - 1 \in p + 1..N /\ (e - 1) - p = e - p - 1
          /\ (e - 1) - p \in 1..n /\ (e - 1) - p - 1 \in 0..n
          /\ p + ((e - 1) - p) = e - 1
      BY <1>2, <3>2 DEF n
    <3> DEFINE h == F[(e - 1) - p - 1]
    <3>4. F[e - p - 1] = h \o <<"e">>
      BY <1>3, <3>1, <3>3
    <3>5. h \in Seq(Marks) /\ Len(h) \in Nat /\ <<"e">> \in Seq(Marks) /\ Len(<<"e">>) = 1
      BY <1>3, <3>3 DEF Marks
    <3> HIDE DEF h
    <3>6. LastPiece(c, e) = <<>>
      BY <2>5, CharsDiffer DEF LastPiece
    <3>7. t = h \o <<"e">>
      BY <2>2, <2>3, <3>4, <3>6, ConcatEmptySeq
    <3>8. Len(t) = Len(h) + 1 /\ t[Len(t)] = "e" /\ t # <<>>
      <4>1. /\ Len(h \o <<"e">>) = Len(h) + 1
            /\ \A i \in 1..Len(h) + 1 :
                 (h \o <<"e">>)[i] = IF i <= Len(h) THEN h[i] ELSE <<"e">>[i - Len(h)]
        BY <3>5, ConcatProperties
      <4>2. Len(h) + 1 \in 1..Len(h) + 1 /\ ~(Len(h) + 1 <= Len(h)) /\ (Len(h) + 1) - Len(h) = 1
        BY <3>5
      <4>3. (h \o <<"e">>)[Len(h) + 1] = "e"
        BY <4>1, <4>2
      <4> QED
        BY <3>5, <3>7, <4>1, <4>3, EmptySeq
    <3>9. ~Incomplete(t)
      BY <3>8 DEF Incomplete, Last, Replacement
    <3> QED
      BY <2>5, <3>9, CharsDiffer DEF t
  <2> QED
    BY <2>4, <2>5
<1> QED
  BY <1>6, <1>7, <1>8

(* Of two slices with one start, the shorter has the shorter text, unless  *)
(* only the second half of a character is between their ends.              *)
LEMMA LengthsTell ==
  ASSUME NEW N \in Nat, NEW c, Characters(c, N), NEW p \in 0..N, p < N, Starts(c, p),
         NEW e \in p + 1..N, NEW f \in p + 1..N, e < f
  PROVE  /\ Len(SliceText(c, p, e)) <= Len(SliceText(c, p, f))
         /\ Len(SliceText(c, p, e)) = Len(SliceText(c, p, f)) => f = e + 1 /\ c[e] = <<"e">>
<1> DEFINE L(k) == Len(SliceText(c, p, k))
           T == {m \in Nat : e + 1 + m <= N =>
                               /\ L(e) <= L(e + 1 + m)
                               /\ L(e) = L(e + 1 + m) => m = 0 /\ c[e] = <<"e">>}
<1>1. \A k \in p + 1..N : L(k) \in Nat
  <2>1. \A k \in p + 1..N : SliceText(c, p, k) \in Seq(Marks)
    BY SliceTexts
  <2> QED
    BY <2>1, LenProperties
<1>2. \A k \in p + 1..N - 1 : L(k + 1) = L(k) + IF c[k] = <<"e">> THEN 0 ELSE 1
  BY SliceTexts
<1> HIDE DEF L
<1>3. p \in Nat /\ e \in Nat /\ f \in Nat /\ f - e - 1 \in Nat /\ e + 1 + (f - e - 1) = f /\ f <= N
  OBVIOUS
<1>4. 0 \in T
  <2> SUFFICES ASSUME e + 1 <= N
               PROVE  L(e) <= L(e + 1) /\ (L(e) = L(e + 1) => c[e] = <<"e">>)
    BY <1>3
  <2>1. e \in p + 1..N - 1
    BY <1>3
  <2>2. L(e + 1) = L(e) + IF c[e] = <<"e">> THEN 0 ELSE 1
    BY <1>2, <2>1
  <2>3. L(e) \in Nat
    BY <1>1
  <2> QED
    BY <2>2, <2>3
<1>5. ASSUME NEW m \in Nat, m \in T PROVE m + 1 \in T
  <2> SUFFICES ASSUME e + 1 + (m + 1) <= N PROVE L(e) < L(e + 1 + (m + 1))
    <3>1. e \in p + 1..N /\ m + 1 \in Nat /\ m + 1 # 0
      OBVIOUS
    <3>2. e + 1 + (m + 1) <= N => e + 1 + (m + 1) \in p + 1..N
      BY <1>3
    <3>3. e + 1 + (m + 1) <= N => L(e + 1 + (m + 1)) \in Nat /\ L(e) \in Nat
      BY <1>1, <3>1, <3>2
    <3> QED
      BY <3>1, <3>3
  <2> DEFINE k == e + 1 + m
  <2>1. k \in p + 1..N - 1 /\ k + 1 = e + 1 + (m + 1) /\ k \in p + 1..N /\ k \in 1..N /\ k <= N
    BY <1>3
  <2>2. L(k + 1) = L(k) + IF c[k] = <<"e">> THEN 0 ELSE 1
    BY <1>2, <2>1
  <2>3. L(e) \in Nat /\ L(k) \in Nat
    BY <1>1, <2>1
  <2>4. L(e) <= L(k) /\ (L(e) = L(k) => m = 0 /\ c[e] = <<"e">>)
    BY <1>5, <2>1
  <2>5. CASE L(e) = L(k)
    <3>1. m = 0 /\ c[e] = <<"e">>
      BY <2>4, <2>5
    <3>2. k - 1 = e /\ k > 1
      BY <1>3, <3>1
    <3>3. c[k] = <<>>
      BY <2>1, <3>1, <3>2 DEF Characters
    <3>4. c[k] # <<"e">>
      BY <3>3, CharsDiffer
    <3> QED
      BY <2>1, <2>2, <2>3, <2>4, <3>4
  <2>6. CASE L(e) # L(k)
    BY <2>1, <2>2, <2>3, <2>4, <2>6
  <2> QED
    BY <2>5, <2>6
<1> DEFINE n == f - e - 1
<1>6. n \in T
  <2>1. n \in Nat /\ n \in 0..n
    BY <1>3
  <2> HIDE DEF T, n
  <2>2. \A k \in 0..n : k + 1 <= n /\ k \in T => k + 1 \in T
    BY <1>5, <2>1
  <2>3. \A k \in 0..n : k \in T
    BY <1>4, <2>1, <2>2, UpTo
  <2> QED
    BY <2>1, <2>3
<1>7. L(e) <= L(f) /\ (L(e) = L(f) => n = 0 /\ c[e] = <<"e">>)
  BY <1>3, <1>6
<1>8. L(e) = L(f) => f = e + 1
  BY <1>3, <1>7 DEF n
<1> QED
  BY <1>7, <1>8 DEF L

(* A text of whole characters tells where it ends.                         *)
LEMMA SameSliceText ==
  ASSUME NEW N \in Nat, NEW c, Characters(c, N), NEW p \in 0..N, p < N, Starts(c, p),
         NEW e \in p + 1..N, NEW f \in p + 1..N,
         SliceText(c, p, e) = SliceText(c, p, f), ~Incomplete(SliceText(c, p, e))
  PROVE  e = f
<1>1. c[e] # <<"e">> /\ c[f] # <<"e">>
  BY SliceTexts
<1>2. ~(e < f)
  BY <1>1, LengthsTell
<1>3. ~(f < e)
  BY <1>1, LengthsTell
<1> QED
  BY <1>2, <1>3

-------------------------------------------------------------------------------
(* The tokens from i to j are the bytes between two cuts.                  *)
LEMMA TokensBetween ==
  ASSUME NEW toks, NEW b, NEW ends, Cutting(toks, b, ends),
         NEW i \in 1..Len(toks), NEW j \in i..Len(toks)
  PROVE  FlattenSeq(SubSeq(toks, i, j)) = SubSeq(b, CutAt(ends, i - 1) + 1, CutAt(ends, j))
<1> DEFINE p == CutAt(ends, i - 1)
           n == j - i + 1
           s == SubSeq(toks, i, j)
           E(m) == CutAt(ends, i - 1 + m)
           g == [m \in 1..n |-> SubSeq(b, p + 1, E(m))]
<1>1. Len(b) \in Nat /\ Len(toks) \in Nat /\ b \in Seq(Bytes)
  BY CutsAre DEF Cutting
<1>2. /\ n \in Nat \ {0} /\ i \in Int /\ j \in Int /\ i \in Nat \ {0}
      /\ \A m \in 0..n : i - 1 + m \in 0..Len(toks)
      /\ \A m \in 1..n : /\ i - 1 + m \in 1..Len(toks) /\ i + m - 1 = i - 1 + m
                         /\ (i - 1 + m) - 1 = i - 1 + (m - 1) /\ m - 1 \in 0..n
                         /\ i - 1 + (m - 1) < i - 1 + m
  BY <1>1
<1>3. Len(s) = n /\ \A m \in 1..n : s[m] = toks[i - 1 + m]
  <2>1. toks \in Seq(Seq(Bytes))
    BY DEF Cutting
  <2>2. \A k \in i..j : toks[k] \in Seq(Bytes)
    BY <2>1, <1>1, ElementOfSeq
  <2>3. /\ Len(s) = IF i <= j THEN j - i + 1 ELSE 0
        /\ \A m \in 1..j - i + 1 : s[m] = toks[i + m - 1]
    BY <1>2, <2>2, SubSeqProperties
  <2> QED
    BY <1>2, <2>3
<1>4. /\ \A m \in 0..n : E(m) \in 0..Len(b)
      /\ \A m \in 1..n : E(m - 1) < E(m)
  <2>1. /\ \A k \in 0..Len(toks) : CutAt(ends, k) \in 0..Len(b)
        /\ \A k, l \in 0..Len(toks) : k < l => CutAt(ends, k) < CutAt(ends, l)
    BY CutsAre
  <2>2. \A m \in 0..n : E(m) \in 0..Len(b)
    BY <1>2, <2>1
  <2>3. ASSUME NEW m \in 1..n PROVE E(m - 1) < E(m)
    <3> DEFINE k == i - 1 + (m - 1)
               l == i - 1 + m
    <3>1. k \in 0..Len(toks) /\ l \in 0..Len(toks) /\ k < l
      BY <1>2
    <3> HIDE DEF k, l
    <3>2. CutAt(ends, k) < CutAt(ends, l)
      BY <2>1, <3>1
    <3> QED
      BY <3>2 DEF k, l
  <2> QED
    BY <2>2, <2>3
<1>5. E(0) = p
  BY <1>2
<1>6. \A m \in 1..n : s[m] = SubSeq(b, E(m - 1) + 1, E(m))
  <2> SUFFICES ASSUME NEW m \in 1..n PROVE s[m] = SubSeq(b, E(m - 1) + 1, E(m))
    OBVIOUS
  <2>1. i - 1 + m \in 1..Len(toks) /\ (i - 1 + m) - 1 = i - 1 + (m - 1)
    BY <1>2
  <2>2. toks[i - 1 + m] = SubSeq(b, CutAt(ends, (i - 1 + m) - 1) + 1, CutAt(ends, i - 1 + m))
    BY <2>1 DEF Cutting
  <2> QED
    BY <1>3, <2>1, <2>2
<1>7. \A m \in 0..n : p <= E(m)
  <2>1. \A m \in 0..n : m # 0 => p < E(m)
    <3> SUFFICES ASSUME NEW m \in 0..n, m # 0 PROVE p < E(m)
      OBVIOUS
    <3> DEFINE k == i - 1
               l == i - 1 + m
    <3>1. k \in 0..Len(toks) /\ l \in 0..Len(toks) /\ k < l
      BY <1>2, <1>1
    <3> HIDE DEF k, l
    <3>2. CutAt(ends, k) < CutAt(ends, l)
      BY <3>1, CutsAre
    <3> QED
      BY <3>2 DEF k, l
  <2>2. p \in Int
    <3>1. i - 1 \in 0..Len(toks)
      BY <1>1
    <3>2. p \in 0..Len(b)
      BY <3>1, CutsAre
    <3> QED
      BY <3>2
  <2> SUFFICES ASSUME NEW m \in 0..n PROVE p <= E(m)
    OBVIOUS
  <2>3. E(m) \in Int
    <3>1. E(m) \in 0..Len(b)
      BY <1>4
    <3> HIDE DEF E
    <3> QED
      BY <1>1, <3>1
  <2>4. m = 0 => E(m) = E(0)
    OBVIOUS
  <2>5. m # 0 => p < E(m)
    BY <2>1
  <2> HIDE DEF E, p, n
  <2> QED
    BY <1>5, <2>2, <2>3, <2>4, <2>5
<1> HIDE DEF s, E, p
<1>8. ASSUME NEW m \in 1..n PROVE g[m] = IF m = 1 THEN s[m] ELSE g[m - 1] \o s[m]
  <2>1. s[m] = SubSeq(b, E(m - 1) + 1, E(m)) /\ g[m] = SubSeq(b, p + 1, E(m))
    BY <1>6
  <2>2. CASE m = 1
    <3>1. m - 1 = 0
      BY <2>2
    <3>2. s[m] = SubSeq(b, p + 1, E(m))
      BY <1>5, <2>1, <3>1
    <3> QED
      BY <2>1, <2>2, <3>2
  <2>3. CASE m # 1
    <3>1. m - 1 \in 1..n /\ m - 1 \in 0..n /\ m \in 0..n
      BY <1>2, <2>3
    <3>2. g[m - 1] = SubSeq(b, p + 1, E(m - 1))
      BY <3>1
    <3> DEFINE x == E(m - 1)
               y == E(m)
    <3>3. p \in 0..Len(b) /\ x \in 0..Len(b) /\ y \in 0..Len(b) /\ p <= x /\ x < y
      <4>1. 0 \in 0..n
        BY <1>2
      <4> QED
        BY <1>4, <1>5, <1>7, <3>1, <4>1
    <3> HIDE DEF x, y
    <3>4. p + 1 \in 1..Len(b) + 1 /\ x \in (p + 1) - 1..Len(b) /\ y \in x..Len(b)
      BY <1>1, <3>3
    <3>5. SubSeq(b, p + 1, x) \o SubSeq(b, x + 1, y) = SubSeq(b, p + 1, y)
      BY <1>1, <3>4, ConcatAdjacentSubSeq
    <3> QED
      BY <2>1, <2>3, <3>2, <3>5 DEF x, y
  <2> QED
    BY <2>2, <2>3
<1>9. g = [m \in 1..n |-> IF m = 1 THEN s[m] ELSE g[m - 1] \o s[m]]
  BY <1>8
<1>10. g[n] = SubSeq(b, p + 1, E(n)) /\ i - 1 + n = j
  <2>1. n \in 1..n /\ i - 1 + n = j
    BY <1>2
  <2>2. \A m \in 1..n : g[m] = SubSeq(b, p + 1, E(m))
    OBVIOUS
  <2> HIDE DEF g, n
  <2> QED
    BY <2>1, <2>2
<1> HIDE DEF g, n
<1>11. FlattenSeq(s) = g[n]
  <2>1. Len(s) \in Nat \ {0} /\ g = [m \in 1..Len(s) |-> IF m = 1 THEN s[m] ELSE g[m - 1] \o s[m]]
    BY <1>2, <1>3, <1>9
  <2>2. FlattenSeq(s) = g[Len(s)]
    BY <2>1, FlattenAs
  <2> QED
    BY <1>3, <2>2
<1> QED
  BY <1>10, <1>11 DEF s, E, p

(* What is read of them depends on the characters and the two cuts only:   *)
(* it is the same for the bytes that the teacher is sent.                  *)
LEMMA TextOfCut ==
  ASSUME NEW toks, NEW b, NEW ends, Cutting(toks, b, ends),
         NEW i \in 1..Len(toks), NEW j \in i..Len(toks),
         Starts(CharsOf(b), CutAt(ends, i - 1))
  PROVE  /\ CutAt(ends, i - 1) \in 0..Len(b) /\ CutAt(ends, j) \in CutAt(ends, i - 1) + 1..Len(b)
         /\ Text(toks, i, j) = SliceText(CharsOf(b), CutAt(ends, i - 1), CutAt(ends, j))
<1> DEFINE p == CutAt(ends, i - 1)
           e == CutAt(ends, j)
<1>1. Len(b) \in Nat /\ Len(toks) \in Nat /\ b \in Seq(Bytes)
  BY CutsAre DEF Cutting
<1>2. i - 1 \in 0..Len(toks) /\ j \in 0..Len(toks) /\ i - 1 < j
  BY <1>1
<1>3. p \in 0..Len(b) /\ e \in 0..Len(b) /\ p < e
  BY <1>2, CutsAre
<1>4. Text(toks, i, j) = Decode(SubSeq(b, p + 1, e))
  <2>1. FlattenSeq(SubSeq(toks, i, j)) = SubSeq(b, p + 1, e)
    BY TokensBetween
  <2> HIDE DEF p, e
  <2> QED
    BY <2>1 DEF Text
<1> HIDE DEF p, e
<1>5. p \in Nat /\ e \in Nat /\ e <= Len(b) /\ e \in p + 1..Len(b)
  BY <1>1, <1>3
<1>6. Starts(CharsOf(b), p)
  BY DEF p
<1>7. Decode(SubSeq(b, p + 1, e)) = SliceText(CharsOf(b), p, e)
  BY <1>1, <1>3, <1>5, <1>6, SliceChars
<1> QED
  BY <1>3, <1>4, <1>5, <1>7 DEF p, e
-------------------------------------------------------------------------------
(* Both sides are cuts of one text; while a chunk grows, both of its ends  *)
(* have started where one character starts.                                *)
Together(b, es, et) ==
  /\ Cutting(student, b, es) /\ Cutting(teacher, Encode(b), et)
  /\ at = "growing" =>
       /\ s_ptr <= n_stu /\ t_ptr <= n_tec
       /\ CutAt(es, s_ptr - 1) = CutAt(et, t_ptr - 1)
       /\ Starts(CharsOf(b), CutAt(es, s_ptr - 1))
Readable(b) == \A k \in 1..Len(b) : CharsOf(b)[k] # <<Replacement>>

(* The search goes on within reach; the tokens behind it are in chunks, or *)
(* in ones too large.                                                      *)
InTooLarge(k) ==
  \E from \in 1..k, to \in k..s_ptr - 1, u \in 1..n_tec : \E v \in u..n_tec :
    /\ to - from >= LargeChunkThreshold \/ v - u >= LargeChunkThreshold
    /\ \A j \in from..to : chunk_ids[j] = -1
    /\ Text(student, from, to) = Text(teacher, u, v)
NeverStuck ==
  /\ at = "growing" => InReach
  /\ at # "growing" => s_ptr = n_stu + 1
  /\ \A k \in 1..s_ptr - 1 : chunk_ids[k] # -1 \/ InTooLarge(k)

CoverInv ==
  n_tec = n_full =>
    ~teacher_truncated /\ \E b, es, et : Together(b, es, et) /\ (Readable(b) => NeverStuck)

(* A chunk that grows: where it starts and ends on either side, and what   *)
(* is read of it.                                                          *)
Facing(c, N, p, e, f) ==
  /\ N \in Nat /\ Characters(c, N) /\ p \in 0..N /\ p < N /\ Starts(c, p)
  /\ e \in p + 1..N /\ f \in p + 1..N
  /\ S_text = SliceText(c, p, e) /\ T_text = SliceText(c, p, f)
  /\ s_end < n_stu <=> e < N
  /\ t_end < n_tec <=> f < N

LEMMA GrowingChunk ==
  ASSUME AlignTypes, NEW b, NEW es, NEW et, Together(b, es, et), at = "growing", InReach
  PROVE  Facing(CharsOf(b), Len(b), CutAt(es, s_ptr - 1), CutAt(es, s_end), CutAt(et, t_end))
<1> DEFINE c == CharsOf(b)
           N == Len(b)
           p == CutAt(es, s_ptr - 1)
           e == CutAt(es, s_end)
           f == CutAt(et, t_end)
           r == Encode(b)
<1>1. /\ Cutting(student, b, es) /\ Cutting(teacher, r, et)
      /\ CutAt(et, t_ptr - 1) = p /\ Starts(c, p)
  BY DEF Together
<1>2. b \in Seq(Bytes) /\ N \in Nat
  BY <1>1, CutsAre DEF Cutting
<1>3. Len(r) = N /\ CharsOf(r) = c /\ Characters(c, N)
  BY <1>2, EncodeSame, CharsAre
<1>4. /\ s_ptr \in 1..n_stu /\ s_end \in s_ptr..n_stu
      /\ t_ptr \in 1..n_tec /\ t_end \in t_ptr..n_tec
      /\ n_stu \in Nat /\ n_tec \in Nat
  BY DEF AlignTypes, Together, InReach
<1> HIDE DEF c, N, r
<1>5. p \in 0..N /\ e \in p + 1..N /\ S_text = SliceText(c, p, e)
  <2>1. /\ CutAt(es, s_ptr - 1) \in 0..Len(b)
        /\ CutAt(es, s_end) \in CutAt(es, s_ptr - 1) + 1..Len(b)
        /\ Text(student, s_ptr, s_end) =
             SliceText(CharsOf(b), CutAt(es, s_ptr - 1), CutAt(es, s_end))
    BY <1>1, <1>4, TextOfCut DEF n_stu, c
  <2> QED
    BY <2>1 DEF S_text, c, N
<1>6. f \in p + 1..N /\ T_text = SliceText(c, p, f)
  <2>1. Starts(CharsOf(r), CutAt(et, t_ptr - 1))
    BY <1>1, <1>3
  <2>2. /\ CutAt(et, t_ptr - 1) \in 0..Len(r)
        /\ CutAt(et, t_end) \in CutAt(et, t_ptr - 1) + 1..Len(r)
        /\ Text(teacher, t_ptr, t_end) =
             SliceText(CharsOf(r), CutAt(et, t_ptr - 1), CutAt(et, t_end))
    BY <1>1, <1>4, <2>1, TextOfCut DEF n_tec
  <2> QED
    BY <1>1, <1>3, <2>2 DEF T_text
<1>7. s_end < n_stu <=> e < N
  <2>1. CutAt(es, n_stu) = N /\ s_end \in 0..n_stu /\ n_stu \in 0..n_stu
    BY <1>1, <1>4, CutsAre DEF n_stu, N
  <2> QED
    BY <1>1, <2>1, CutsAre DEF n_stu
<1>8. t_end < n_tec <=> f < N
  <2>1. CutAt(et, n_tec) = N /\ t_end \in 0..n_tec /\ n_tec \in 0..n_tec
    BY <1>1, <1>3, <1>4, CutsAre DEF n_tec
  <2> QED
    BY <1>1, <2>1, CutsAre DEF n_tec
<1>9. p < N
  BY <1>2, <1>5
<1> QED
  BY <1>1, <1>2, <1>3, <1>5, <1>6, <1>7, <1>8, <1>9 DEF Facing, c, N

(* Texts that meet at a boundary are cut at one place.                     *)
LEMMA BoundaryMeets ==
  ASSUME NEW c, NEW N, NEW p, NEW e, NEW f, Facing(c, N, p, e, f), Boundary
  PROVE  e = f /\ c[e] # <<"e">> /\ (s_end < n_stu <=> t_end < n_tec)
<1>1. SliceText(c, p, e) = SliceText(c, p, f) /\ ~Incomplete(SliceText(c, p, e))
  BY DEF Boundary, Facing
<1>2. e = f
  BY <1>1, SameSliceText DEF Facing
<1>3. c[e] # <<"e">>
  BY <1>1, SliceTexts DEF Facing
<1> QED
  BY <1>2, <1>3 DEF Facing

(* Of readable texts that do not meet, the side that is behind grows, and  *)
(* has more to grow by.                                                    *)
LEMMA BehindGrows ==
  ASSUME NEW c, NEW N, NEW p, NEW e, NEW f, Facing(c, N, p, e, f), ~Boundary,
         \A k \in 1..N : c[k] # <<Replacement>>
  PROVE  \/ Grown = StudentGrows /\ s_end < n_stu
         \/ Grown = TeacherGrows /\ t_end < n_tec
         \/ Grown = <<s_end + 1, t_end + 1>> /\ s_end < n_stu /\ t_end < n_tec
<1> DEFINE s_more == s_end < n_stu
           t_more == t_end < n_tec
           s_first == IF s_more THEN StudentGrows
                      ELSE IF t_more THEN TeacherGrows ELSE <<s_end, t_end>>
           t_first == IF t_more THEN TeacherGrows
                      ELSE IF s_more THEN StudentGrows ELSE <<s_end, t_end>>
           both == <<IF s_more THEN s_end + 1 ELSE s_end, IF t_more THEN t_end + 1 ELSE t_end>>
           fewer == Len(S_text) < Len(T_text)
           more == Len(S_text) > Len(T_text)
           s_inc == Incomplete(S_text)
           t_inc == Incomplete(T_text)
<1>1. Grown = CASE fewer -> IF s_more THEN StudentGrows ELSE TeacherGrows
                [] more -> IF t_more THEN TeacherGrows ELSE StudentGrows
                [] OTHER -> CASE s_inc /\ ~t_inc -> s_first
                              [] t_inc /\ ~s_inc -> t_first
                              [] OTHER -> both
  BY DEF Grown
<1>2. /\ e \in 1..N /\ f \in 1..N /\ e \in Nat /\ f \in Nat /\ N \in Nat
      /\ s_more <=> e < N
      /\ t_more <=> f < N
  BY DEF Facing
<1>3. /\ S_text = SliceText(c, p, e) /\ T_text = SliceText(c, p, f)
      /\ Len(S_text) \in Nat /\ Len(T_text) \in Nat
  <2>1. SliceText(c, p, e) \in Seq(Marks) /\ SliceText(c, p, f) \in Seq(Marks)
    BY SliceTexts DEF Facing
  <2> QED
    BY <2>1, LenProperties DEF Facing
<1>4. (s_inc <=> c[e] = <<"e">>) /\ (t_inc <=> c[f] = <<"e">>)
  <2>1. /\ Incomplete(SliceText(c, p, e)) <=> c[e] = <<"e">> \/ c[e] = <<Replacement>>
        /\ Incomplete(SliceText(c, p, f)) <=> c[f] = <<"e">> \/ c[f] = <<Replacement>>
    BY SliceTexts DEF Facing
  <2> QED
    BY <1>2, <1>3, <2>1
<1>5. ASSUME e < f
      PROVE  Len(S_text) <= Len(T_text) /\ (Len(S_text) = Len(T_text) => s_inc /\ ~t_inc)
  <2>1. /\ Len(S_text) <= Len(T_text)
        /\ Len(S_text) = Len(T_text) => f = e + 1 /\ c[e] = <<"e">>
    BY <1>3, <1>5, LengthsTell DEF Facing
  <2>2. f = e + 1 /\ c[e] = <<"e">> => c[f] = <<>>
    <3>1. f = e + 1 => f > 1 /\ f - 1 = e
      BY <1>2
    <3> QED
      BY <1>2, <3>1 DEF Facing, Characters
  <2> QED
    BY <1>4, <2>1, <2>2, CharsDiffer
<1>6. ASSUME f < e
      PROVE  Len(T_text) <= Len(S_text) /\ (Len(S_text) = Len(T_text) => t_inc /\ ~s_inc)
  <2>1. /\ Len(T_text) <= Len(S_text)
        /\ Len(S_text) = Len(T_text) => e = f + 1 /\ c[f] = <<"e">>
    BY <1>3, <1>6, LengthsTell DEF Facing
  <2>2. e = f + 1 /\ c[f] = <<"e">> => c[e] = <<>>
    <3>1. e = f + 1 => e > 1 /\ e - 1 = f
      BY <1>2
    <3> QED
      BY <1>2, <3>1 DEF Facing, Characters
  <2> QED
    BY <1>4, <2>1, <2>2, CharsDiffer
<1>7. ASSUME e = f PROVE S_text = T_text /\ s_inc /\ t_inc /\ s_more /\ t_more
  <2>1. S_text = T_text /\ s_inc
    BY <1>3, <1>7 DEF Boundary
  <2>2. e < N
    BY <1>2, <1>4, <2>1 DEF Facing, Characters
  <2> QED
    BY <1>2, <1>7, <2>1, <2>2
<1> HIDE DEF s_inc, t_inc, s_more, t_more
<1>8. CASE e < f
  <2>1. s_more
    BY <1>2, <1>8 DEF Facing
  <2>2. (fewer /\ ~more) \/ (~fewer /\ ~more /\ s_inc /\ ~t_inc)
    BY <1>3, <1>5, <1>8
  <2> HIDE DEF fewer, more, both
  <2>3. Grown = StudentGrows
    BY <1>1, <2>1, <2>2
  <2> QED
    BY <2>1, <2>3 DEF s_more
<1>9. CASE f < e
  <2>1. t_more
    BY <1>2, <1>9 DEF Facing
  <2>2. (more /\ ~fewer) \/ (~fewer /\ ~more /\ t_inc /\ ~s_inc)
    BY <1>3, <1>6, <1>9
  <2> HIDE DEF fewer, more, both
  <2>3. Grown = TeacherGrows
    BY <1>1, <2>1, <2>2
  <2> QED
    BY <2>1, <2>3 DEF t_more
<1>10. CASE e = f
  <2>1. ~fewer /\ ~more /\ s_inc /\ t_inc /\ s_more /\ t_more
    BY <1>3, <1>7, <1>10
  <2>2. both = <<s_end + 1, t_end + 1>>
    BY <2>1
  <2> HIDE DEF fewer, more, both
  <2>3. Grown = both
    BY <1>1, <2>1
  <2> QED
    BY <2>1, <2>2, <2>3 DEF s_more, t_more
<1> QED
  BY <1>2, <1>8, <1>9, <1>10

LEMMA CoverInitial == AlignInit => CoverInv
<1> SUFFICES ASSUME AlignInit, n_tec = n_full
             PROVE  ~teacher_truncated
                    /\ \E b, es, et : Together(b, es, et) /\ (Readable(b) => NeverStuck)
  BY DEF CoverInv
<1>1. PICK b \in StudentBytes : \E full \in Tokenizations(Encode(b)) :
        /\ student \in Tokenizations(b) /\ n_full = Len(full)
        /\ \E n \in 0..Len(full) : teacher = SubSeq(full, 1, n)
  BY DEF AlignInit
<1>2. PICK full \in Tokenizations(Encode(b)) :
        /\ student \in Tokenizations(b) /\ n_full = Len(full)
        /\ \E n \in 0..Len(full) : teacher = SubSeq(full, 1, n)
  BY <1>1
<1>3. b \in Seq(Bytes)
  <2>1. b \in Seq({"a", "h", "l"})
    BY OpdAlignAssumption
  <2>2. \A k \in 1..Len(b) : b[k] \in Bytes
    BY <2>1, ElementOfSeq DEF Bytes
  <2>3. Len(b) \in Nat /\ b = [k \in 1..Len(b) |-> b[k]]
    BY <2>1
  <2> QED
    BY <2>2, <2>3
<1>4. Encode(b) \in Seq(Bytes) /\ Len(Encode(b)) = Len(b)
  BY <1>3, EncodeSame
<1>5. PICK es : Cutting(student, b, es)
  BY <1>2, <1>3, TokenizationCuts
<1>6. PICK et : Cutting(full, Encode(b), et)
  BY <1>2, <1>4, TokenizationCuts
<1>7. teacher = full
  <2>1. full \in Seq(Seq(Bytes)) /\ Len(full) \in Nat
    BY <1>6, CutsAre DEF Cutting
  <2>2. PICK n \in 0..Len(full) : teacher = SubSeq(full, 1, n)
    BY <1>2
  <2>3. Len(teacher) = n
    <3>1. \A i \in 1..n : full[i] \in Seq(Bytes)
      BY <2>1, ElementOfSeq
    <3>2. Len(teacher) = IF 1 <= n THEN n - 1 + 1 ELSE 0
      BY <2>1, <2>2, <3>1, SubSeqProperties
    <3> QED
      BY <2>1, <3>2
  <2>4. n = Len(full)
    BY <1>2, <2>3 DEF n_tec
  <2> QED
    BY <2>1, <2>2, <2>4, SubSeqFull
<1>8. /\ n_stu \in Nat /\ n_tec \in Nat /\ (n_stu = 0 <=> n_tec = 0)
      /\ CutAt(es, 0) = 0 /\ CutAt(et, 0) = 0
  BY <1>4, <1>5, <1>6, <1>7, CutsAre DEF n_stu, n_tec
<1> HIDE DEF n_stu, n_tec
<1>9. /\ s_ptr = 1 /\ t_ptr = 1 /\ s_end = 1 /\ t_end = 1 /\ teacher_truncated = FALSE
      /\ at = IF n_stu = 0 \/ n_tec = 0 THEN "ended" ELSE "growing"
  BY DEF AlignInit
<1>10. Together(b, es, et)
  <2>1. at = "growing" => s_ptr <= n_stu /\ t_ptr <= n_tec
    BY <1>8, <1>9
  <2>2. s_ptr - 1 = 0 /\ t_ptr - 1 = 0
    BY <1>9
  <2> QED
    BY <1>5, <1>6, <1>7, <1>8, <2>1, <2>2 DEF Together, Starts
<1>11. NeverStuck
  <2>1. at = "growing" => InReach
    BY <1>8, <1>9 DEF InReach
  <2>2. at # "growing" => s_ptr = n_stu + 1
    BY <1>8, <1>9
  <2>3. 1..s_ptr - 1 = {}
    BY <1>9
  <2> QED
    BY <2>1, <2>2, <2>3 DEF NeverStuck
<1> QED
  BY <1>9, <1>10, <1>11

(* A chunk that matches leaves none of its tokens out, unless it is too    *)
(* large.                                                                  *)
LEMMA MatchMarks ==
  ASSUME AlignInv, Match, \A k \in 1..s_ptr - 1 : chunk_ids[k] # -1 \/ InTooLarge(k)
  PROVE  \A k \in 1..s_ptr' - 1 : (chunk_ids[k] # -1 \/ InTooLarge(k))'
<1>1. /\ student' = student /\ teacher' = teacher /\ n_stu' = n_stu /\ n_tec' = n_tec
  BY DEF Match, input, n_stu, n_tec
<1>2. AlignTypes /\ ChunksMade
  BY DEF AlignInv
<1>3. /\ s_ptr \in 1..n_stu /\ s_end \in s_ptr..n_stu
      /\ t_ptr \in 1..n_tec /\ t_end \in t_ptr..n_tec
      /\ n_stu \in Nat /\ n_tec \in Nat /\ chunk_count \in Nat
  BY <1>2 DEF Match, AlignTypes, InReach, ChunksMade
<1>4. /\ s_ptr' = s_end + 1 /\ s_ptr' - 1 = s_end
      /\ chunk_ids' = IF IsLarge THEN chunk_ids
                      ELSE [k \in 1..n_stu |->
                              IF k \in s_ptr..s_end THEN chunk_count ELSE chunk_ids[k]]
  BY <1>3 DEF Match, NewChunk
<1>5. \A k \in 1..s_ptr - 1 : k \in 1..n_stu /\ chunk_ids'[k] = chunk_ids[k]
  BY <1>3, <1>4
<1> SUFFICES ASSUME NEW k \in 1..s_end PROVE (chunk_ids[k] # -1 \/ InTooLarge(k))'
  BY <1>4
<1>6. CASE k < s_ptr /\ chunk_ids[k] # -1
  BY <1>3, <1>5, <1>6
<1>7. CASE k < s_ptr /\ InTooLarge(k)
  <2>1. PICK from \in 1..k, to \in k..s_ptr - 1, u \in 1..n_tec : \E v \in u..n_tec :
          /\ to - from >= LargeChunkThreshold \/ v - u >= LargeChunkThreshold
          /\ \A j \in from..to : chunk_ids[j] = -1
          /\ Text(student, from, to) = Text(teacher, u, v)
    BY <1>7 DEF InTooLarge
  <2>2. PICK v \in u..n_tec :
          /\ to - from >= LargeChunkThreshold \/ v - u >= LargeChunkThreshold
          /\ \A j \in from..to : chunk_ids[j] = -1
          /\ Text(student, from, to) = Text(teacher, u, v)
    BY <2>1
  <2>3. to \in k..s_ptr' - 1 /\ \A j \in from..to : j \in 1..s_ptr - 1
    BY <1>3, <1>4
  <2>4. \A j \in from..to : chunk_ids'[j] = -1
    BY <1>5, <2>2, <2>3
  <2>5. InTooLarge(k)'
    BY <1>1, <2>2, <2>3, <2>4 DEF InTooLarge
  <2> QED
    BY <2>5
<1>8. CASE k >= s_ptr /\ IsLarge
  <2>1. /\ s_ptr \in 1..k /\ s_end \in k..s_ptr' - 1
    BY <1>3, <1>4, <1>8
  <2>2. s_end - s_ptr >= LargeChunkThreshold \/ t_end - t_ptr >= LargeChunkThreshold
    BY <1>3, <1>8, OpdAlignAssumption DEF IsLarge
  <2>3. \A j \in s_ptr..s_end : chunk_ids'[j] = -1
    <3> SUFFICES ASSUME NEW j \in s_ptr..s_end, chunk_ids[j] # -1 PROVE FALSE
      BY <1>4, <1>8
    <3>1. j \in 1..n_stu /\ ~(j < s_ptr)
      BY <1>3
    <3> QED
      BY <1>2, <3>1, MarkedBefore
  <2>4. Text(student, s_ptr, s_end) = Text(teacher, t_ptr, t_end)
    BY DEF Match, Boundary, S_text, T_text
  <2>5. InTooLarge(k)'
    <3> DEFINE a == s_ptr
               z == s_end
               u == t_ptr
               v == t_end
    <3>1. /\ a \in 1..k /\ z \in k..s_ptr' - 1 /\ u \in 1..n_tec' /\ v \in u..n_tec'
          /\ z - a >= LargeChunkThreshold \/ v - u >= LargeChunkThreshold
          /\ \A j \in a..z : chunk_ids'[j] = -1
          /\ Text(student', a, z) = Text(teacher', u, v)
      BY <1>1, <1>3, <2>1, <2>2, <2>3, <2>4
    <3> HIDE DEF a, z, u, v
    <3> QED
      BY <3>1 DEF InTooLarge
  <2> QED
    BY <2>5
<1>9. CASE k >= s_ptr /\ ~IsLarge
  <2>1. k \in 1..n_stu /\ k \in s_ptr..s_end
    BY <1>3, <1>9
  <2>2. chunk_ids'[k] = chunk_count
    BY <1>4, <1>9, <2>1
  <2>3. chunk_count # -1
    BY <1>3
  <2> QED
    BY <2>2, <2>3
<1>10. k < s_ptr => k \in 1..s_ptr - 1
  BY <1>3
<1> QED
  BY <1>3, <1>6, <1>7, <1>8, <1>9, <1>10

LEMMA MatchCovers == AlignInv /\ CoverInv /\ Match => CoverInv'
<1> SUFFICES ASSUME AlignInv, CoverInv, Match, n_tec' = n_full' PROVE CoverInv'
  BY DEF CoverInv
<1>1. /\ student' = student /\ teacher' = teacher /\ n_stu' = n_stu /\ n_tec' = n_tec
      /\ n_full' = n_full
  BY DEF Match, input, n_stu, n_tec
<1>2. ~teacher_truncated
      /\ \E b, es, et : Together(b, es, et) /\ (Readable(b) => NeverStuck)
  BY <1>1 DEF CoverInv
<1>3. PICK b, es, et : Together(b, es, et) /\ (Readable(b) => NeverStuck)
  BY <1>2
<1>4. at = "growing" /\ InReach /\ Boundary
  BY DEF Match
<1>5. AlignTypes /\ ChunksMade
  BY DEF AlignInv
<1>6. Facing(CharsOf(b), Len(b), CutAt(es, s_ptr - 1), CutAt(es, s_end), CutAt(et, t_end))
  BY <1>3, <1>4, <1>5, GrowingChunk
<1>7. /\ CutAt(es, s_end) = CutAt(et, t_end) /\ CharsOf(b)[CutAt(es, s_end)] # <<"e">>
      /\ (s_end < n_stu <=> t_end < n_tec)
  BY <1>4, <1>6, BoundaryMeets
<1>8. /\ s_ptr \in 1..n_stu /\ s_end \in s_ptr..n_stu
      /\ t_ptr \in 1..n_tec /\ t_end \in t_ptr..n_tec
      /\ n_stu \in Nat /\ n_tec \in Nat
  BY <1>4, <1>5 DEF AlignTypes, InReach
<1>9. /\ s_ptr' = s_end + 1 /\ t_ptr' = t_end + 1 /\ s_end' = s_end + 1 /\ t_end' = t_end + 1
      /\ s_ptr' - 1 = s_end /\ t_ptr' - 1 = t_end
  BY <1>8 DEF Match
<1>10. /\ at' = IF s_end < n_stu THEN "growing" ELSE "ended"
       /\ ~teacher_truncated'
  <2>1. CASE s_end < n_stu
    <3>1. UNCHANGED <<at, teacher_truncated>>
      BY <1>7, <2>1 DEF Match
    <3> QED
      BY <1>2, <1>4, <2>1, <3>1
  <2>2. CASE ~(s_end < n_stu)
    <3>1. at' = "ended" /\ (teacher_truncated' <=> s_end < n_stu)
      BY <1>7, <2>2 DEF Match
    <3> QED
      BY <2>2, <3>1
  <2> QED
    BY <2>1, <2>2
<1>11. Together(b, es, et)'
  <2>1. Cutting(student', b, es) /\ Cutting(teacher', Encode(b), et)
    BY <1>1, <1>3 DEF Together
  <2>2. ASSUME at' = "growing"
        PROVE  /\ s_ptr' <= n_stu' /\ t_ptr' <= n_tec'
               /\ CutAt(es, s_ptr' - 1) = CutAt(et, t_ptr' - 1)
               /\ Starts(CharsOf(b), CutAt(es, s_ptr' - 1))
    <3>1. s_end < n_stu /\ t_end < n_tec
      BY <1>7, <1>10, <2>2
    <3>2. s_ptr' <= n_stu' /\ t_ptr' <= n_tec'
      BY <1>1, <1>8, <1>9, <3>1
    <3>3. CutAt(es, s_ptr' - 1) = CutAt(es, s_end) /\ CutAt(et, t_ptr' - 1) = CutAt(et, t_end)
      BY <1>9
    <3> QED
      BY <1>7, <3>2, <3>3 DEF Starts
  <2> QED
    BY <2>1, <2>2 DEF Together
<1>12. NeverStuck => NeverStuck'
  <2> SUFFICES ASSUME NeverStuck PROVE NeverStuck'
    OBVIOUS
  <2>1. at' = "growing" => InReach'
    BY <1>1, <1>7, <1>8, <1>9, <1>10 DEF InReach
  <2>2. at' # "growing" => s_ptr' = n_stu' + 1
    BY <1>1, <1>8, <1>9, <1>10
  <2>3. \A k \in 1..s_ptr' - 1 : (chunk_ids[k] # -1 \/ InTooLarge(k))'
    BY MatchMarks DEF NeverStuck
  <2> QED
    BY <2>1, <2>2, <2>3 DEF NeverStuck
<1>13. Together(b, es, et)' /\ (Readable(b) => NeverStuck')
  BY <1>3, <1>11, <1>12
<1>14. ~teacher_truncated'
  BY <1>10
<1> QED
  BY <1>13, <1>14 DEF CoverInv

(* What only has the two sides stay as they are.                           *)
LEMMA TogetherStays ==
  ASSUME NEW b, NEW es, NEW et, Together(b, es, et), UNCHANGED input,
         at' = "growing" => at = "growing" /\ UNCHANGED <<s_ptr, t_ptr>>
  PROVE  Together(b, es, et)'
<1>1. student' = student /\ teacher' = teacher /\ n_stu' = n_stu /\ n_tec' = n_tec
  BY DEF input, n_stu, n_tec
<1> QED
  BY <1>1 DEF Together

LEMMA GrowCovers == AlignInv /\ CoverInv /\ Grow => CoverInv'
<1> SUFFICES ASSUME AlignInv, CoverInv, Grow, n_tec' = n_full' PROVE CoverInv'
  BY DEF CoverInv
<1>1. /\ UNCHANGED <<input, s_ptr, t_ptr, chunk_ids, teacher_truncated, at>>
      /\ student' = student /\ teacher' = teacher /\ n_stu' = n_stu /\ n_tec' = n_tec
      /\ n_full' = n_full
  BY DEF Grow, input, n_stu, n_tec
<1>2. ~teacher_truncated
      /\ \E b, es, et : Together(b, es, et) /\ (Readable(b) => NeverStuck)
  BY <1>1 DEF CoverInv
<1>3. PICK b, es, et : Together(b, es, et) /\ (Readable(b) => NeverStuck)
  BY <1>2
<1>4. at = "growing" /\ InReach /\ ~Boundary /\ s_end' = Grown[1] /\ t_end' = Grown[2]
  BY DEF Grow
<1>5. AlignTypes
  BY DEF AlignInv
<1>6. Together(b, es, et)'
  BY <1>1, <1>3, TogetherStays
<1>7. ASSUME Readable(b), NeverStuck PROVE NeverStuck'
  <2>1. Facing(CharsOf(b), Len(b), CutAt(es, s_ptr - 1), CutAt(es, s_end), CutAt(et, t_end))
    BY <1>3, <1>4, <1>5, GrowingChunk
  <2>2. \/ Grown = StudentGrows /\ s_end < n_stu
        \/ Grown = TeacherGrows /\ t_end < n_tec
        \/ Grown = <<s_end + 1, t_end + 1>> /\ s_end < n_stu /\ t_end < n_tec
    BY <1>4, <1>7, <2>1, BehindGrows DEF Readable
  <2>3. InReach'
    BY <1>1, <1>4, <1>5, <2>2 DEF InReach, AlignTypes, StudentGrows, TeacherGrows
  <2>4. \A k \in 1..s_ptr - 1 : InTooLarge(k) => InTooLarge(k)'
    BY <1>1 DEF InTooLarge
  <2> QED
    BY <1>1, <1>4, <1>7, <2>3, <2>4 DEF NeverStuck
<1> QED
  BY <1>1, <1>2, <1>3, <1>6, <1>7 DEF CoverInv

LEMMA FallbackCovers == AlignInv /\ CoverInv /\ Fallback => CoverInv'
<1> SUFFICES ASSUME AlignInv, CoverInv, Fallback, n_tec' = n_full' PROVE CoverInv'
  BY DEF CoverInv
<1>1. /\ UNCHANGED <<input, teacher_truncated>> /\ at' = "ended" /\ at = "growing"
      /\ n_tec' = n_tec /\ n_full' = n_full
  BY DEF Fallback, input, n_tec
<1>2. ~teacher_truncated
      /\ \E b, es, et : Together(b, es, et) /\ (Readable(b) => NeverStuck)
  BY <1>1 DEF CoverInv
<1>3. PICK b, es, et : Together(b, es, et) /\ (Readable(b) => NeverStuck)
  BY <1>2
<1>4. AlignTypes
  BY DEF AlignInv
<1>5. Together(b, es, et)'
  BY <1>1, <1>3, TogetherStays
<1>6. ASSUME Readable(b), NeverStuck PROVE FALSE
  <2>1. InReach /\ ~Boundary /\ Grown = <<s_end, t_end>>
    BY <1>1, <1>6 DEF NeverStuck, Fallback
  <2>2. Facing(CharsOf(b), Len(b), CutAt(es, s_ptr - 1), CutAt(es, s_end), CutAt(et, t_end))
    BY <1>1, <1>3, <1>4, <2>1, GrowingChunk
  <2>3. \/ Grown = StudentGrows /\ s_end < n_stu
        \/ Grown = TeacherGrows /\ t_end < n_tec
        \/ Grown = <<s_end + 1, t_end + 1>> /\ s_end < n_stu /\ t_end < n_tec
    BY <1>6, <2>1, <2>2, BehindGrows DEF Readable
  <2>4. s_end \in Nat /\ t_end \in Nat
    BY <1>4 DEF AlignTypes
  <2>5. Grown[1] = s_end /\ Grown[2] = t_end
    BY <2>1
  <2>6. Grown[1] = s_end + 1 \/ Grown[2] = t_end + 1
    BY <2>3 DEF StudentGrows, TeacherGrows
  <2> QED
    BY <2>4, <2>5, <2>6
<1> QED
  BY <1>1, <1>2, <1>3, <1>5, <1>6 DEF CoverInv

LEMMA FillCovers == AlignInv /\ CoverInv /\ Fill => CoverInv'
<1> SUFFICES ASSUME AlignInv, CoverInv, Fill, n_tec' = n_full' PROVE CoverInv'
  BY DEF CoverInv
<1>1. /\ UNCHANGED <<input, s_ptr, chunk_ids, teacher_truncated>> /\ at' = "filled" /\ at = "ended"
      /\ student' = student /\ teacher' = teacher /\ n_stu' = n_stu /\ n_tec' = n_tec
      /\ n_full' = n_full
  BY DEF Fill, input, n_stu, n_tec
<1>2. ~teacher_truncated
      /\ \E b, es, et : Together(b, es, et) /\ (Readable(b) => NeverStuck)
  BY <1>1 DEF CoverInv
<1>3. PICK b, es, et : Together(b, es, et) /\ (Readable(b) => NeverStuck)
  BY <1>2
<1>4. Together(b, es, et)'
  BY <1>1, <1>3, TogetherStays
<1>5. NeverStuck => NeverStuck'
  <2>1. \A k \in 1..s_ptr - 1 : InTooLarge(k) => InTooLarge(k)'
    BY <1>1 DEF InTooLarge
  <2> QED
    BY <1>1, <2>1 DEF NeverStuck
<1> QED
  BY <1>1, <1>2, <1>3, <1>4, <1>5 DEF CoverInv


-------------------------------------------------------------------------------
(* Every replacement character among the characters is in the text.        *)
LEMMA ConcatKeeps ==
  ASSUME NEW V, NEW f \in Seq(V), NEW g \in Seq(V), NEW x, x \in ToSet(f) \/ x \in ToSet(g)
  PROVE  x \in ToSet(f \o g)
<1>1. /\ Len(f) \in Nat /\ Len(g) \in Nat /\ DOMAIN f = 1..Len(f) /\ DOMAIN g = 1..Len(g)
      /\ f \o g \in Seq(V) /\ Len(f \o g) = Len(f) + Len(g)
      /\ \A i \in 1..Len(f) + Len(g) :
           (f \o g)[i] = IF i <= Len(f) THEN f[i] ELSE g[i - Len(f)]
  BY LenProperties, ConcatProperties
<1>2. DOMAIN (f \o g) = 1..Len(f) + Len(g)
  BY <1>1, LenProperties
<1>3. CASE x \in ToSet(f)
  <2>1. PICK i \in 1..Len(f) : x = f[i]
    BY <1>1, <1>3 DEF ToSet
  <2>2. i \in 1..Len(f) + Len(g) /\ i <= Len(f)
    BY <1>1
  <2>3. x = (f \o g)[i]
    BY <1>1, <2>1, <2>2
  <2> QED
    BY <1>2, <2>2, <2>3 DEF ToSet
<1>4. CASE x \in ToSet(g)
  <2>1. PICK i \in 1..Len(g) : x = g[i]
    BY <1>1, <1>4 DEF ToSet
  <2>2. Len(f) + i \in 1..Len(f) + Len(g) /\ ~(Len(f) + i <= Len(f)) /\ (Len(f) + i) - Len(f) = i
    BY <1>1
  <2>3. x = (f \o g)[Len(f) + i]
    BY <1>1, <2>1, <2>2
  <2> QED
    BY <1>2, <2>2, <2>3 DEF ToSet
<1> QED
  BY <1>3, <1>4

LEMMA SliceTextShows ==
  ASSUME NEW N \in Nat, NEW c, Characters(c, N), NEW k \in 1..N, c[k] = <<Replacement>>
  PROVE  Replacement \in ToSet(SliceText(c, 0, N))
<1>1. 0 \in 0..N /\ 0 < N
  OBVIOUS
<1>2. PICK F : PrefixTexts(F, c, N, 0)
  BY <1>1, SliceTextAs
<1>3. /\ \A i \in 0..N : F[i] \in Seq(Marks)
      /\ \A i \in 1..N : F[i] = F[i - 1] \o c[i]
      /\ SliceText(c, 0, N) = F[N - 1] \o LastPiece(c, N)
  <2>1. /\ F \in [0..N - 0 -> Seq(Marks)]
        /\ \A i \in 1..N - 0 : F[i] = F[i - 1] \o c[0 + i]
        /\ \A e \in 0 + 1..N : SliceText(c, 0, e) = F[e - 0 - 1] \o LastPiece(c, e)
    BY <1>2 DEF PrefixTexts
  <2>2. N - 0 = N /\ N \in 0 + 1..N /\ N - 0 - 1 = N - 1
    BY <1>1
  <2>3. SliceText(c, 0, N) = F[N - 0 - 1] \o LastPiece(c, N)
    BY <2>1, <2>2
  <2>4. \A i \in 1..N : 0 + i = i
    OBVIOUS
  <2>5. \A i \in 1..N : F[i] = F[i - 1] \o c[i]
    BY <2>1, <2>2, <2>4
  <2> QED
    BY <2>1, <2>2, <2>3, <2>5
<1>4. \A i \in 1..N : c[i] \in Seq(Marks)
  BY CharsInSequence DEF Characters
<1>5. SliceText(c, 0, N) = F[N]
  <2>1. N \in 1..N
    OBVIOUS
  <2>2. c[N] # <<"e">>
    BY <2>1 DEF Characters
  <2> QED
    BY <1>3, <2>1, <2>2 DEF LastPiece
<1> DEFINE T == {m \in Nat : m < k \/ Replacement \in ToSet(F[m])}
<1>6. 0 \in T
  OBVIOUS
<1>7. ASSUME NEW m \in 0..N, m + 1 <= N, m \in T PROVE m + 1 \in T
  <2>1. m + 1 \in 1..N /\ (m + 1) - 1 = m /\ m + 1 \in Nat
    BY <1>7
  <2>2. F[m + 1] = F[m] \o c[m + 1] /\ F[m] \in Seq(Marks) /\ c[m + 1] \in Seq(Marks)
    BY <1>3, <1>4, <2>1
  <2>3. CASE m + 1 < k
    BY <2>1, <2>3
  <2>4. CASE m + 1 = k
    <3>1. c[m + 1] = <<Replacement>>
      BY <2>4
    <3>2. Replacement \in ToSet(<<Replacement>>)
      BY DEF ToSet
    <3>3. Replacement \in ToSet(F[m] \o c[m + 1])
      BY <2>2, <3>1, <3>2, ConcatKeeps
    <3> QED
      BY <2>1, <2>2, <3>3
  <2>5. CASE k < m + 1
    <3>1. Replacement \in ToSet(F[m])
      BY <1>7, <2>5
    <3>2. Replacement \in ToSet(F[m] \o c[m + 1])
      BY <2>2, <3>1, ConcatKeeps
    <3> QED
      BY <2>1, <2>2, <3>2
  <2> QED
    BY <2>1, <2>3, <2>4, <2>5
<1>8. N \in T
  <2>1. N \in 0..N
    OBVIOUS
  <2> HIDE DEF T
  <2>2. \A m \in 0..N : m + 1 <= N /\ m \in T => m + 1 \in T
    BY <1>7
  <2>3. \A m \in 0..N : m \in T
    BY <1>6, <2>2, UpTo
  <2> QED
    BY <2>1, <2>3
<1>9. Replacement \in ToSet(F[N])
  BY <1>8
<1> QED
  BY <1>5, <1>9

LEMMA ReadableText ==
  ASSUME NEW b, NEW es, Cutting(student, b, es), n_stu # 0,
         Replacement \notin ToSet(Text(student, 1, n_stu))
  PROVE  Readable(b)
<1>1. n_stu \in Nat /\ Len(b) \in Nat /\ CutAt(es, 0) = 0 /\ CutAt(es, n_stu) = Len(b)
  BY CutsAre DEF n_stu
<1>2. 1 \in 1..n_stu /\ n_stu \in 1..n_stu /\ 1 - 1 = 0 /\ Starts(CharsOf(b), CutAt(es, 1 - 1))
  BY <1>1 DEF Starts
<1>3. Text(student, 1, n_stu) = SliceText(CharsOf(b), CutAt(es, 1 - 1), CutAt(es, n_stu))
  BY <1>2, TextOfCut DEF n_stu
<1>4. Text(student, 1, n_stu) = SliceText(CharsOf(b), 0, Len(b))
  BY <1>1, <1>2, <1>3
<1>5. Characters(CharsOf(b), Len(b))
  BY CharsAre DEF Cutting
<1> SUFFICES ASSUME NEW k \in 1..Len(b), CharsOf(b)[k] = <<Replacement>> PROVE FALSE
  BY DEF Readable
<1>6. Replacement \in ToSet(SliceText(CharsOf(b), 0, Len(b)))
  BY <1>1, <1>5, SliceTextShows
<1> QED
  BY <1>4, <1>6

LEMMA CoverIsAll == AlignInv /\ CoverInv => AllCredited
<1> SUFFICES ASSUME AlignInv, CoverInv, at = "filled", n_tec = n_full PROVE AllCredited
  BY DEF AllCredited, WhollyAligned, EndCredited
<1>1. ~teacher_truncated
      /\ \E b, es, et : Together(b, es, et) /\ (Readable(b) => NeverStuck)
  BY DEF CoverInv
<1>2. PICK b, es, et : Together(b, es, et) /\ (Readable(b) => NeverStuck)
  BY <1>1
<1>3. DOMAIN row = 1..n_stu + n_special /\ n_stu \in Nat /\ n_special \in Nat /\ n_tec \in Nat
  BY <1>1, TrainedPositions
<1>4. WhollyAligned
  <2> SUFFICES ASSUME Replacement \notin ToSet(Text(student, 1, n_stu)),
                      NEW k \in 1..n_stu, Sentinel(k)
               PROVE  \E from \in 1..k, to \in k..n_stu, u \in 1..n_tec : \E v \in u..n_tec :
                        /\ to - from >= LargeChunkThreshold \/ v - u >= LargeChunkThreshold
                        /\ \A j \in from..to : Sentinel(j)
                        /\ Text(student, from, to) = Text(teacher, u, v)
    BY DEF WhollyAligned
  <2>1. \A j \in 1..n_stu : Sentinel(j) <=> chunk_ids[j] = -1
    <3> SUFFICES ASSUME NEW j \in 1..n_stu PROVE Sentinel(j) <=> chunk_ids[j] = -1
      OBVIOUS
    <3>1. j \in DOMAIN row /\ j <= n_stu
      BY <1>3
    <3>2. j \in Trained <=> chunk_ids[j] # -1
      BY <1>1, <3>1, TrainedPositions
    <3> QED
      BY <3>1, <3>2 DEF Trained
  <2>2. Readable(b)
    <3>1. n_stu # 0 /\ Cutting(student, b, es)
      BY <1>2, <1>3 DEF Together
    <3> QED
      BY <3>1, ReadableText
  <2>3. NeverStuck /\ s_ptr = n_stu + 1
    BY <1>2, <2>2 DEF NeverStuck
  <2>4. k \in 1..s_ptr - 1 /\ s_ptr - 1 = n_stu
    BY <1>3, <2>3
  <2>5. InTooLarge(k)
    BY <2>1, <2>3, <2>4 DEF NeverStuck
  <2>6. PICK from \in 1..k, to \in k..n_stu, u \in 1..n_tec : \E v \in u..n_tec :
          /\ to - from >= LargeChunkThreshold \/ v - u >= LargeChunkThreshold
          /\ \A j \in from..to : chunk_ids[j] = -1
          /\ Text(student, from, to) = Text(teacher, u, v)
    BY <2>4, <2>5 DEF InTooLarge
  <2>7. \A j \in from..to : j \in 1..n_stu
    BY <1>3
  <2>8. (\A j \in from..to : chunk_ids[j] = -1) => \A j \in from..to : Sentinel(j)
    BY <2>1, <2>7
  <2> QED
    BY <2>6, <2>8
<1>5. EndCredited
  <2> SUFFICES ASSUME n_special > 0
               PROVE  /\ n_stu + 1 \in Trained /\ row[n_stu + 1].logp.sum = {n_full + 1}
                      /\ \A k \in n_stu + 2..n_stu + n_special : Sentinel(k)
    BY DEF EndCredited
  <2>1. n_stu + 1 \in DOMAIN row /\ n_stu + 1 > n_stu
    BY <1>3
  <2>2. n_stu + 1 \in Trained /\ row[n_stu + 1].logp = EndOfTeacher
    BY <1>1, <2>1, TrainedPositions
  <2>3. row[n_stu + 1].logp.sum = {n_full + 1}
    BY <2>2 DEF EndOfTeacher
  <2>4. ASSUME NEW k \in n_stu + 2..n_stu + n_special PROVE Sentinel(k)
    <3>1. k \in DOMAIN row /\ k > n_stu /\ k # n_stu + 1
      BY <1>3
    <3>2. k \notin Trained
      BY <1>1, <3>1, TrainedPositions
    <3> QED
      BY <3>1, <3>2 DEF Trained
  <2> QED
    BY <2>2, <2>3, <2>4
<1> QED
  BY <1>4, <1>5 DEF AllCredited

(* AllCredited: of a response of whole characters, and a teacher that was  *)
(* not cut, every token is in a chunk that is trained on or in one too     *)
(* large, whatever the two tokenizations; the first end token is credited  *)
(* with the teacher's end.                                                 *)
THEOREM NothingLeftOut == AlignSpec => []AllCredited
<1>1. AlignInv /\ CoverInv /\ UNCHANGED alignVars => CoverInv'
  <2> SUFFICES ASSUME CoverInv, UNCHANGED alignVars PROVE CoverInv'
    OBVIOUS
  <2>1. /\ UNCHANGED <<s_ptr, t_ptr, s_end, t_end, chunk_ids, teacher_truncated, at>>
        /\ student' = student /\ teacher' = teacher /\ n_full' = n_full
        /\ n_stu' = n_stu /\ n_tec' = n_tec /\ UNCHANGED input
    BY DEF alignVars, input, n_stu, n_tec
  <2>2. InReach' <=> InReach
    BY <2>1 DEF InReach
  <2>3. \A k : InTooLarge(k)' <=> InTooLarge(k)
    BY <2>1 DEF InTooLarge
  <2>4. NeverStuck => NeverStuck'
    BY <2>1, <2>2, <2>3 DEF NeverStuck
  <2>5. \A b, es, et : Together(b, es, et) => Together(b, es, et)'
    BY <2>1 DEF Together
  <2> QED
    BY <2>1, <2>4, <2>5 DEF CoverInv
<1>2. AlignInv /\ CoverInv /\ [AlignNext]_alignVars => CoverInv'
  BY <1>1, MatchCovers, GrowCovers, FallbackCovers, FillCovers
  DEF AlignNext, AlignSteps, AlignFinished
<1> QED
  BY <1>2, AlignmentsKept, CoverInitial, CoverIsAll, PTL DEF AlignSpec

-------------------------------------------------------------------------------
(* Folding over a finite set.                                              *)
(* The function a fold recurses by exists: it does on the subsets of at    *)
(* most n elements for every n, since it does for n - 1 (FoldsOnSmall);    *)
(* and two functions that agree step by step agree on the whole set.       *)
FirstOf(s) == CHOOSE x \in s : TRUE
Upto(S, n) == {s \in SUBSET S : Cardinality(s) <= n}
Folded(h, b, g, s) == g[s] = IF s = {} THEN b ELSE h[<<FirstOf(s), g[s \ {FirstOf(s)}]>>]

LEMMA WithoutOne ==
  ASSUME NEW S, IsFiniteSet(S), NEW s \in SUBSET S, s # {}
  PROVE  /\ FirstOf(s) \in s /\ FirstOf(s) \in S /\ s \ {FirstOf(s)} \in SUBSET S
         /\ Cardinality(s) \in Nat /\ Cardinality(s \ {FirstOf(s)}) = Cardinality(s) - 1
         /\ Cardinality(s) - 1 \in Nat
<1>1. IsFiniteSet(s)
  BY FS_Subset
<1>2. FirstOf(s) \in s
  BY DEF FirstOf
<1>3. Cardinality(s) \in Nat
  BY <1>1, FS_CardinalityType
<1>4. Cardinality(s \ {FirstOf(s)}) = Cardinality(s) - 1
  BY <1>1, <1>2, FS_RemoveElement
<1>5. Cardinality(s \ {FirstOf(s)}) \in Nat
  <2>1. IsFiniteSet(s \ {FirstOf(s)})
    BY <1>1, FS_RemoveElement
  <2> QED
    BY <2>1, FS_CardinalityType
<1> QED
  BY <1>2, <1>3, <1>4, <1>5

LEMMA FoldsOnSmall ==
  ASSUME NEW S, IsFiniteSet(S), NEW V, NEW b \in V, NEW h \in [S \X V -> V], NEW n \in Nat
  PROVE  \E g \in [Upto(S, n) -> V] : \A s \in Upto(S, n) : Folded(h, b, g, s)
<1> DEFINE Folds(m) == \E g \in [Upto(S, m) -> V] : \A s \in Upto(S, m) : Folded(h, b, g, s)
           Without == {m \in Nat : ~Folds(m)}
<1> SUFFICES ASSUME Without # {} PROVE FALSE
  OBVIOUS
<1>1. PICK m \in Without : \A k \in Without : m <= k
  <2>1. Without \in SUBSET Nat /\ Without # {}
    OBVIOUS
  <2> HIDE DEF Without
  <2> QED
    BY <2>1, LeastNumber
<1>2. CASE m = 0
  <2>1. \A s \in Upto(S, 0) : s = {}
    <3> SUFFICES ASSUME NEW s \in SUBSET S, Cardinality(s) <= 0, s # {} PROVE FALSE
      BY DEF Upto
    <3>1. Cardinality(s) \in Nat /\ Cardinality(s) - 1 \in Nat
      BY WithoutOne
    <3> QED
      BY <3>1
  <2> DEFINE g == [s \in Upto(S, 0) |-> b]
  <2>2. g \in [Upto(S, 0) -> V] /\ \A s \in Upto(S, 0) : Folded(h, b, g, s)
    BY <2>1 DEF Folded
  <2> QED
    BY <1>1, <1>2, <2>2
<1>3. CASE m # 0
  <2>1. m - 1 \in Nat /\ m - 1 \notin Without
    BY <1>1, <1>3
  <2>2. PICK old \in [Upto(S, m - 1) -> V] : \A s \in Upto(S, m - 1) : Folded(h, b, old, s)
    BY <2>1
  <2> DEFINE g == [s \in Upto(S, m) |->
                     IF s = {} THEN b ELSE h[<<FirstOf(s), old[s \ {FirstOf(s)}]>>]]
  <2>3. ASSUME NEW s \in Upto(S, m), s # {}
        PROVE  /\ s \ {FirstOf(s)} \in Upto(S, m - 1) /\ s \ {FirstOf(s)} \in Upto(S, m)
               /\ FirstOf(s) \in S
    BY <1>1, <2>3, WithoutOne DEF Upto
  <2>4. g \in [Upto(S, m) -> V]
    BY <2>3
  <2>5. \A s \in Upto(S, m - 1) : s \in Upto(S, m) /\ g[s] = old[s]
    <3> SUFFICES ASSUME NEW s \in Upto(S, m - 1) PROVE s \in Upto(S, m) /\ g[s] = old[s]
      OBVIOUS
    <3>1. s \in Upto(S, m)
      <4>1. IsFiniteSet(s) /\ Cardinality(s) \in Nat
        BY FS_Subset, FS_CardinalityType DEF Upto
      <4> QED
        BY <1>1, <4>1 DEF Upto
    <3>2. g[s] = IF s = {} THEN b ELSE h[<<FirstOf(s), old[s \ {FirstOf(s)}]>>]
      BY <3>1
    <3> QED
      BY <2>2, <3>1, <3>2 DEF Folded
  <2>6. \A s \in Upto(S, m) : Folded(h, b, g, s)
    <3> SUFFICES ASSUME NEW s \in Upto(S, m) PROVE Folded(h, b, g, s)
      OBVIOUS
    <3>1. g[s] = IF s = {} THEN b ELSE h[<<FirstOf(s), old[s \ {FirstOf(s)}]>>]
      OBVIOUS
    <3>2. s # {} => g[s \ {FirstOf(s)}] = old[s \ {FirstOf(s)}]
      BY <2>3, <2>5
    <3> HIDE DEF g
    <3> QED
      BY <3>1, <3>2 DEF Folded
  <2> QED
    BY <1>1, <2>4, <2>6
<1> QED
  BY <1>2, <1>3

LEMMA FoldExists ==
  ASSUME NEW S, IsFiniteSet(S), NEW V, NEW b \in V, NEW h \in [S \X V -> V]
  PROVE  \E g \in [SUBSET S -> V] : \A s \in SUBSET S : Folded(h, b, g, s)
<1>1. Cardinality(S) \in Nat /\ Upto(S, Cardinality(S)) = SUBSET S
  <2>1. Cardinality(S) \in Nat
    BY FS_CardinalityType
  <2>2. ASSUME NEW s \in SUBSET S PROVE Cardinality(s) <= Cardinality(S)
    BY FS_Subset
  <2> QED
    BY <2>1, <2>2 DEF Upto
<1> QED
  BY <1>1, FoldsOnSmall

(* Two functions that go by what they are for one element less agree.      *)
LEMMA FoldsAgree ==
  ASSUME NEW S, IsFiniteSet(S), NEW f, NEW g, f[{}] = g[{}],
         \A s \in SUBSET S : s # {} /\ f[s \ {FirstOf(s)}] = g[s \ {FirstOf(s)}] => f[s] = g[s]
  PROVE  f[S] = g[S]
<1> DEFINE Differ == {n \in Nat : \E s \in SUBSET S : Cardinality(s) = n /\ f[s] # g[s]}
<1>1. Differ = {}
  <2> SUFFICES ASSUME Differ # {} PROVE FALSE
    OBVIOUS
  <2>1. PICK n \in Differ : \A k \in Differ : n <= k
    <3>1. Differ \in SUBSET Nat /\ Differ # {}
      OBVIOUS
    <3> HIDE DEF Differ
    <3> QED
      BY <3>1, LeastNumber
  <2>2. PICK s \in SUBSET S : Cardinality(s) = n /\ f[s] # g[s]
    BY <2>1
  <2>3. s # {}
    BY <2>2
  <2>4. s \ {FirstOf(s)} \in SUBSET S /\ Cardinality(s \ {FirstOf(s)}) = n - 1 /\ n - 1 \in Nat
    BY <2>2, <2>3, WithoutOne
  <2>5. f[s \ {FirstOf(s)}] = g[s \ {FirstOf(s)}]
    <3>1. n - 1 \notin Differ
      BY <2>1, <2>4
    <3> QED
      BY <2>4, <3>1
  <2> QED
    BY <2>2, <2>3, <2>5
<1>2. Cardinality(S) \in Nat
  BY FS_CardinalityType
<1> QED
  BY <1>1, <1>2

-------------------------------------------------------------------------------
(* How far an update moves the policy.                                     *)
(* The controller never sees the motion of the loss as it is: it divides   *)
(* the factor out of the norm of the gradient again.  What it averages is  *)
(* therefore short of the motion by the rounding of each step, which an    *)
(* average does not add up (AverageWithin).                                *)

(* A product grows with its factor.                                        *)
LEMMA ProductGrows ==
  ASSUME NEW c \in Nat, NEW x \in Nat, NEW y \in Nat, x <= y
  PROVE  c * x <= c * y
<1> DEFINE d == y - x
<1>1. d \in Nat /\ y = x + d
  OBVIOUS
<1> HIDE DEF d
<1>2. c * y = c * x + c * d
  BY <1>1
<1>3. c * d \in Nat /\ c * x \in Nat
  BY <1>1
<1> QED
  BY <1>2, <1>3

(* Division rounds down.                                                   *)
LEMMA RoundedDown ==
  ASSUME NEW n \in Nat, NEW d \in Nat \ {0}
  PROVE  n \div d \in Nat /\ (n \div d) * d <= n /\ n < (n \div d) * d + d
<1> DEFINE x == n \div d
           y == n % d
<1>1. n = d * x + y /\ x \in Nat /\ y \in 0..(d - 1)
  OBVIOUS
<1> HIDE DEF x, y
<1>2. d * x = x * d
  BY <1>1
<1> QED
  BY <1>1, <1>2 DEF x

LEMMA QuotientAtLeast ==
  ASSUME NEW n \in Nat, NEW d \in Nat \ {0}, NEW q \in Int, q * d <= n
  PROVE  q <= n \div d
<1> DEFINE x == n \div d
<1>1. x \in Nat /\ n < x * d + d
  BY RoundedDown
<1> HIDE DEF x
<1>2. CASE q >= x + 1
  <2>1. (x + 1) * d <= q * d
    BY <1>1, <1>2
  <2>2. (x + 1) * d = x * d + d
    BY <1>1
  <2> QED
    BY <1>1, <2>1, <2>2
<1> QED
  BY <1>1, <1>2 DEF x

(* An average of two that are both within Eps is within Eps, rounded down. *)
LEMMA AverageWithin ==
  ASSUME NEW a \in Nat, NEW b \in Nat, NEW x \in Nat, NEW y \in Nat, a <= b + Eps, x <= y + Eps
  PROVE  /\ Ema(a, x) \in Nat /\ Ema(b, y) \in Nat
         /\ Ema(a, x) <= Ema(b, y) + Eps
<1> DEFINE p == Beta * a + (Unit - Beta) * x
           q == Beta * b + (Unit - Beta) * y
<1>1. Unit \in Nat \ {0} /\ Eps \in Nat /\ Beta \in Nat /\ Unit - Beta \in Nat
  BY OpdControllersAssumption
<1>2. Ema(a, x) = p \div Unit /\ Ema(b, y) = q \div Unit
  BY DEF Ema, None
<1>3. p \in Nat /\ q \in Nat
  BY <1>1
<1>4. p <= q + Eps * Unit
  <2>1. Beta * a <= Beta * b + Beta * Eps
    <3>1. Beta * a <= Beta * (b + Eps)
      BY <1>1
    <3>2. Beta * (b + Eps) = Beta * b + Beta * Eps
      BY <1>1
    <3> QED
      BY <3>1, <3>2
  <2> DEFINE w == Unit - Beta
  <2>2. w * x <= w * y + w * Eps
    <3> HIDE DEF w
    <3>1. w * x <= w * (y + Eps)
      BY <1>1 DEF w
    <3>2. w * (y + Eps) = w * y + w * Eps
      BY <1>1 DEF w
    <3> QED
      BY <3>1, <3>2
  <2>3. Beta * Eps + w * Eps = Eps * Unit
    BY <1>1
  <2>4. Beta * a \in Int /\ Beta * b \in Int /\ Beta * Eps \in Int /\ w * x \in Int /\ w * y \in Int
        /\ w * Eps \in Int
    BY <1>1
  <2>5. p = Beta * a + w * x /\ q = Beta * b + w * y
    OBVIOUS
  <2> HIDE DEF p, q, w
  <2> QED
    BY <2>1, <2>2, <2>3, <2>4, <2>5
<1> HIDE DEF p, q
<1> DEFINE P == p \div Unit
           Q == q \div Unit
<1>5. P \in Nat /\ P * Unit <= p /\ Q \in Nat
  BY <1>1, <1>3, RoundedDown
<1> HIDE DEF P, Q
<1>6. (P - Eps) * Unit <= q
  <2>1. (P - Eps) * Unit = P * Unit - Eps * Unit /\ P * Unit \in Int /\ Eps * Unit \in Int
    BY <1>1, <1>5
  <2> QED
    BY <1>3, <1>4, <1>5, <2>1
<1>7. P - Eps <= Q
  BY <1>1, <1>3, <1>5, <1>6, QuotientAtLeast DEF Q
<1> QED
  BY <1>1, <1>2, <1>5, <1>7 DEF P, Q

LEMMA EmaIsNumber ==
  ASSUME NEW a, a = None \/ a \in Nat, NEW x \in Nat
  PROVE  Ema(a, x) \in Nat
<1>1. CASE a = None
  BY <1>1 DEF Ema
<1>2. CASE a \in Nat
  <2>1. a <= a + Eps /\ x <= x + Eps
    BY <1>2, OpdControllersAssumption
  <2> QED
    BY <1>2, <2>1, AverageWithin
<1> QED
  BY <1>1, <1>2

LEMMA MotionIsNumber ==
  ASSUME NEW rate \in Nat, NEW norm \in Nat
  PROVE  Motion(rate, norm) \in Nat
<1> DEFINE s == (norm * norm) \div Unit
<1>1. Unit \in Nat \ {0} /\ 2 * Unit \in Nat \ {0} /\ norm * norm \in Nat
  BY OpdControllersAssumption
<1>2. s \in Nat
  BY <1>1, RoundedDown
<1> HIDE DEF s
<1>3. rate * s \in Nat
  BY <1>2
<1> QED
  BY <1>1, <1>3, RoundedDown DEF Motion, s

LEMMA ScalingIsNumber ==
  ASSUME NEW norm \in Nat, NEW c \in Nat
  PROVE  Scaled(norm, c) \in Nat /\ Unscaled(norm, c) \in Nat
<1>1. Unit \in Nat \ {0} /\ MaxOf(c, Eps) \in Nat \ {0} /\ norm * c \in Nat /\ norm * Unit \in Nat
  BY OpdControllersAssumption DEF MaxOf
<1> QED
  BY <1>1, RoundedDown DEF Scaled, Unscaled

(* A sum over the ranks is a number.                                       *)
LEMMA SumIsNumber ==
  ASSUME NEW f \in [Ranks -> Nat]
  PROVE  OverRanks(f) \in Nat
<1> DEFINE Body(i) == [s \in SUBSET Ranks |->
                         IF s = {} THEN 0 ELSE f[FirstOf(s)] + i[s \ {FirstOf(s)}]]
           iter == CHOOSE i : i = Body(i)
           h == [p \in Ranks \X Nat |-> f[p[1]] + p[2]]
<1>1. OverRanks(f) = iter[Ranks]
  BY DEF OverRanks, MapThenSumSet, MapThenFoldSet, FirstOf
<1>2. h \in [Ranks \X Nat -> Nat]
  <2>1. \A p \in Ranks \X Nat : f[p[1]] + p[2] \in Nat
    OBVIOUS
  <2> QED
    BY <2>1
<1>3. IsFiniteSet(Ranks)
  BY OpdControllersAssumption
<1>4. \A r \in Ranks, n \in Nat : h[<<r, n>>] = f[r] + n
  OBVIOUS
<1> HIDE DEF h
<1>5. PICK g \in [SUBSET Ranks -> Nat] : \A s \in SUBSET Ranks : Folded(h, 0, g, s)
  BY <1>2, <1>3, FoldExists
<1>6. ASSUME NEW s \in SUBSET Ranks
      PROVE  g[s] = IF s = {} THEN 0 ELSE f[FirstOf(s)] + g[s \ {FirstOf(s)}]
  <2>1. Folded(h, 0, g, s)
    BY <1>5
  <2>2. s # {} => /\ FirstOf(s) \in Ranks /\ s \ {FirstOf(s)} \in SUBSET Ranks
                  /\ g[s \ {FirstOf(s)}] \in Nat
    <3> SUFFICES ASSUME s # {}
                 PROVE  /\ FirstOf(s) \in Ranks /\ s \ {FirstOf(s)} \in SUBSET Ranks
                        /\ g[s \ {FirstOf(s)}] \in Nat
      OBVIOUS
    <3>1. FirstOf(s) \in Ranks /\ s \ {FirstOf(s)} \in SUBSET Ranks
      BY <1>3, WithoutOne
    <3> QED
      BY <3>1
  <2> QED
    BY <1>4, <2>1, <2>2 DEF Folded
<1>7. g = Body(g)
  BY <1>6
<1>8. iter = Body(iter)
  <2> HIDE DEF Body
  <2> QED
    BY <1>7
<1>9. ASSUME NEW s \in SUBSET Ranks
      PROVE  iter[s] = IF s = {} THEN 0 ELSE f[FirstOf(s)] + iter[s \ {FirstOf(s)}]
  <2> HIDE DEF iter
  <2> QED
    BY <1>8
<1> HIDE DEF iter
<1>10. iter[{}] = g[{}]
  BY <1>6, <1>9
<1>11. \A s \in SUBSET Ranks :
        s # {} /\ iter[s \ {FirstOf(s)}] = g[s \ {FirstOf(s)}] => iter[s] = g[s]
  BY <1>6, <1>9
<1>12. iter[Ranks] = g[Ranks]
  BY <1>10, <1>11, <1>3, FoldsAgree
<1> QED
  BY <1>1, <1>12

(* The copy of the controller on a rank: nothing was measured before the   *)
(* first step; after it the averages are numbers, and the factor keeps the *)
(* averaged motion within the averaged discrepancy.                        *)
Bounded(c) == c \in IF mode = "dctv" THEN 0..MaxOf(CCap, Unit) ELSE CMin..Unit
CopyKept(s) ==
  /\ s.step \in Nat /\ Bounded(s.c)
  /\ s.step = 0 => s.c = Unit /\ s.D_ema = None /\ s.M_ema = None /\ s.D_ref = None
  /\ s.step # 0 => s.D_ema \in Nat
  /\ s.step # 0 /\ mode = "dctv" => s.M_ema \in Nat /\ s.c * (s.M_ema + Eps) <= s.D_ema * Unit
  /\ s.step # 0 /\ mode # "dctv" => s.D_ref \in Nat /\ (s.step = 1 => s.c = Unit)
CtlNumbers ==
  /\ mode \in Modes /\ call \in 1..Len(Schedule) + 1 /\ mini_batch \in 1..MiniBatches
  /\ \A r \in Ranks : local[r].sum \in Nat /\ local[r].count \in Nat /\ CopyKept(ctl[r])
  /\ ctl_at = "control" /\ Taken => grad_norm.value \in Nat

LEMMA BoundedIsNumber == ASSUME NEW c, Bounded(c) PROVE c \in Nat
  BY OpdControllersAssumption DEF Bounded, MaxOf

(* The motion is what the copies make of it, but for the rounding; the     *)
(* last update is seen by the motion a step before it is by the copies.    *)
MotionFollowed ==
  mode = "dctv" /\ ~sunk =>
    IF ctl_at = "control" /\ Taken
    THEN motion \in Nat /\ \A r \in Ranks : motion <= Ema(ctl[r].M_ema, MHat(r)) + Eps
    ELSE \A r \in Ranks : IF ctl[r].step = 0 THEN motion = None
                          ELSE motion \in Nat /\ motion <= ctl[r].M_ema + Eps
MotionInv == ControllersInv /\ CtlNumbers /\ MotionFollowed

LEMMA ScheduleRates ==
  /\ Len(Schedule) \in Nat \ {0} /\ Calls = 1..Len(Schedule) /\ \A n \in Calls : Schedule[n] \in Nat
  /\ Cardinality(Calls) = Len(Schedule)
<1>1. Len(Schedule) \in Nat \ {0} /\ Calls = 1..Len(Schedule) /\ \A n \in Calls : Schedule[n] \in Nat
  BY OpdControllersAssumption, EmptySeq DEF Calls
<1>2. Cardinality(1..Len(Schedule)) = Len(Schedule)
  BY <1>1, FS_Interval
<1> QED
  BY <1>1, <1>2

LEMMA MeasuresAreNumbers ==
  ASSUME ControllersInv, CtlNumbers, ctl_at = "control", Taken, NEW r \in Ranks
  PROVE  DHat(r) \in Nat /\ MHat(r) \in Nat
<1>1. DHat(r) \in Nat
  <2> DEFINE sum == OverRanks([q \in Ranks |-> local[q].sum])
             count == OverRanks([q \in Ranks |-> local[q].count])
  <2>1. sum \in Nat /\ count \in Nat
    <3>1. /\ [q \in Ranks |-> local[q].sum] \in [Ranks -> Nat]
          /\ [q \in Ranks |-> local[q].count] \in [Ranks -> Nat]
      BY DEF CtlNumbers
    <3> QED
      BY <3>1, SumIsNumber
  <2>2. DHat(r) = (sum * Unit) \div MaxOf(count, 1)
    BY DEF DHat
  <2> HIDE DEF sum, count
  <2> DEFINE x == sum * Unit
             y == MaxOf(count, 1)
  <2>3. x \in Nat /\ y \in Nat \ {0} /\ DHat(r) = x \div y
    BY <2>1, <2>2, OpdControllersAssumption DEF MaxOf
  <2> HIDE DEF x, y
  <2>4. x \div y \in Nat
    BY <2>3, RoundedDown
  <2> QED
    BY <2>3, <2>4
<1>2. MHat(r) \in Nat
  <2>1. lr[r] \in Nat
    BY ScheduleRates DEF ControllersInv, Running
  <2>2. ctl[r].c \in Nat /\ grad_norm.value \in Nat
    <3>1. CopyKept(ctl[r]) /\ grad_norm.value \in Nat
      BY DEF CtlNumbers
    <3>2. Bounded(ctl[r].c)
      BY <3>1 DEF CopyKept
    <3> QED
      BY <3>1, <3>2, BoundedIsNumber
  <2>3. Unscaled(grad_norm.value, ctl[r].c) \in Nat
    BY <2>2, ScalingIsNumber
  <2> QED
    BY <2>1, <2>3, MotionIsNumber DEF MHat
<1> QED
  BY <1>1, <1>2

LEMMA DctvKeeps ==
  ASSUME ControllersInv, CtlNumbers, ctl_at = "control", Taken, mode = "dctv", NEW r \in Ranks
  PROVE  CopyKept(Dctv(r)) /\ Dctv(r).M_ema = Ema(ctl[r].M_ema, MHat(r)) /\ Dctv(r).step # 0
<1> DEFINE D == Ema(ctl[r].D_ema, DHat(r))
           M == Ema(ctl[r].M_ema, MHat(r))
           q == (D * Unit) \div (M + Eps)
           c == MinOf(CCap, q)
<1>1. ctl[r].step \in Nat /\ (ctl[r].D_ema = None \/ ctl[r].D_ema \in Nat)
      /\ (ctl[r].M_ema = None \/ ctl[r].M_ema \in Nat)
  <2>1. CopyKept(ctl[r])
    BY DEF CtlNumbers
  <2>2. CASE ctl[r].step = 0
    BY <2>1, <2>2 DEF CopyKept
  <2>3. CASE ctl[r].step # 0
    BY <2>1, <2>3 DEF CopyKept
  <2> QED
    BY <2>1, <2>2, <2>3 DEF CopyKept
<1>2. D \in Nat /\ M \in Nat
  BY <1>1, MeasuresAreNumbers, EmaIsNumber
<1>3. Dctv(r) = [c |-> c, D_ema |-> D, M_ema |-> M, D_ref |-> ctl[r].D_ref,
                 step |-> ctl[r].step + 1]
  BY DEF Dctv
<1> HIDE DEF D, M
<1>4. D * Unit \in Nat /\ M + Eps \in Nat \ {0} /\ CCap \in Nat /\ Unit \in Nat
  BY <1>2, OpdControllersAssumption
<1>5. q \in Nat /\ q * (M + Eps) <= D * Unit
  BY <1>4, RoundedDown
<1> HIDE DEF q
<1>6. c \in Nat /\ c <= q /\ c <= CCap
  BY <1>4, <1>5 DEF MinOf
<1> HIDE DEF c
<1>7. c * (M + Eps) <= q * (M + Eps) /\ c * (M + Eps) \in Int /\ q * (M + Eps) \in Int
  BY <1>4, <1>5, <1>6
<1>8. c * (M + Eps) <= D * Unit
  BY <1>4, <1>5, <1>7
<1>9. Bounded(c)
  BY <1>4, <1>6 DEF Bounded, MaxOf
<1>10. ctl[r].step + 1 \in Nat /\ ctl[r].step + 1 # 0
  BY <1>1
<1>11. Dctv(r).c = c /\ Dctv(r).D_ema = D /\ Dctv(r).M_ema = M /\ Dctv(r).step = ctl[r].step + 1
  BY <1>3
<1> HIDE <1>3
<1>12. CopyKept(Dctv(r))
  BY <1>2, <1>8, <1>9, <1>10, <1>11 DEF CopyKept
<1> QED
  BY <1>10, <1>11, <1>12 DEF M

LEMMA TvSchedKeeps ==
  ASSUME ControllersInv, CtlNumbers, ctl_at = "control", Taken, mode # "dctv", NEW r \in Ranks
  PROVE  CopyKept(TvSched(r)) /\ TvSched(r).step # 0
<1> DEFINE D == Ema(ctl[r].D_ema, DHat(r))
           R == Ref(r, D)
           n == (D + Eps) * Unit
           c == Clipped(n \div (R + Eps))
<1>1. ctl[r].step \in Nat /\ (ctl[r].D_ema = None \/ ctl[r].D_ema \in Nat)
      /\ (ctl[r].step = 0 => ctl[r].D_ref = None) /\ (ctl[r].step # 0 => ctl[r].D_ref \in Nat)
  <2>1. CopyKept(ctl[r])
    BY DEF CtlNumbers
  <2>2. CASE ctl[r].step = 0
    BY <2>1, <2>2 DEF CopyKept
  <2>3. CASE ctl[r].step # 0
    BY <2>1, <2>3 DEF CopyKept
  <2> QED
    BY <2>1, <2>2, <2>3 DEF CopyKept
<1>2. D \in Nat
  BY <1>1, MeasuresAreNumbers, EmaIsNumber
<1>3. TvSched(r) = [c |-> c, D_ema |-> D, M_ema |-> ctl[r].M_ema, D_ref |-> R,
                    step |-> ctl[r].step + 1]
  BY DEF TvSched
<1> HIDE DEF D
<1>4. R \in Nat /\ (ctl[r].step = 0 => R = D)
  BY <1>1, <1>2 DEF Ref, None
<1> HIDE DEF R
<1>5. /\ n \in Nat /\ R + Eps \in Nat \ {0}
      /\ D + Eps \in Nat \ {0} /\ Unit \in Nat \ {0} /\ CMin \in 0..Unit
  BY <1>2, <1>4, OpdControllersAssumption
<1>6. n \div (R + Eps) \in Nat
  BY <1>5, RoundedDown
<1>7. c \in CMin..Unit
  BY <1>5, <1>6 DEF Clipped, MinOf, MaxOf
<1>8. ctl[r].step = 0 => c = Unit
  <2> SUFFICES ASSUME ctl[r].step = 0 PROVE c = Unit
    OBVIOUS
  <2>1. Unit * (R + Eps) <= n
    BY <1>4, <1>5
  <2>2. Unit <= n \div (R + Eps)
    BY <1>5, <2>1, QuotientAtLeast
  <2> QED
    BY <1>5, <1>6, <2>2 DEF Clipped, MinOf, MaxOf
<1> HIDE DEF c
<1>9. Bounded(c)
  BY <1>7 DEF Bounded
<1>10. ctl[r].step + 1 \in Nat /\ ctl[r].step + 1 # 0 /\ (ctl[r].step + 1 = 1 => ctl[r].step = 0)
  BY <1>1
<1>11. /\ TvSched(r).c = c /\ TvSched(r).D_ema = D
       /\ TvSched(r).D_ref = R /\ TvSched(r).step = ctl[r].step + 1
  BY <1>3
<1> HIDE <1>3
<1> QED
  BY <1>2, <1>4, <1>8, <1>9, <1>10, <1>11 DEF CopyKept

LEMMA FreshIsKept == CopyKept(Fresh)
BY OpdControllersAssumption DEF CopyKept, Fresh, Bounded, MaxOf, None

LEMMA MotionInitially == CtlInit => MotionInv
<1> SUFFICES ASSUME CtlInit PROVE MotionInv
  OBVIOUS
<1>1. ControllersInv
  BY ControllersInitially
<1>2. /\ mode \in Modes /\ call = 1 /\ mini_batch = 1 /\ ctl_at = "loss" /\ motion = None
      /\ \A r \in Ranks : ctl[r] = Fresh /\ local[r].sum = 0 /\ local[r].count = 0
  BY DEF CtlInit
<1>3. CtlNumbers
  <2>1. CopyKept(Fresh)
    BY FreshIsKept
  <2>2. 1 \in 1..Len(Schedule) + 1 /\ 1 \in 1..MiniBatches
    BY ScheduleRates, OpdControllersAssumption
  <2> QED
    BY <1>2, <2>1, <2>2 DEF CtlNumbers
<1>4. MotionFollowed
  BY <1>2 DEF MotionFollowed, Fresh
<1> QED
  BY <1>1, <1>3, <1>4 DEF MotionInv

LEMMA LossesKeep == MotionInv /\ Losses => CtlNumbers' /\ MotionFollowed'
<1> SUFFICES ASSUME MotionInv, Losses PROVE CtlNumbers' /\ MotionFollowed'
  OBVIOUS
<1>1. PICK s \in Samples :
        local' = [r \in Ranks |-> [sum |-> s[r].sum, count |-> s[r].count, c |-> ctl[r].c]]
  BY DEF Losses
<1>2. /\ ctl_at = "loss" /\ ctl_at' = "step"
      /\ UNCHANGED <<mode, call, mini_batch, ctl, lr, grad_norm, applied, resumes, last_lr, motion,
                     sunk>>
  BY DEF Losses
<1>3. \A r \in Ranks : local'[r].sum \in Nat /\ local'[r].count \in Nat
  BY <1>1, OpdControllersAssumption
<1>4. \A r \in Ranks : CopyKept(ctl[r])'
  BY <1>2 DEF MotionInv, CtlNumbers, CopyKept, Bounded
<1>5. CtlNumbers'
  BY <1>2, <1>3, <1>4 DEF MotionInv, CtlNumbers
<1>6. MotionFollowed'
  BY <1>2 DEF MotionInv, MotionFollowed
<1> QED
  BY <1>5, <1>6

LEMMA OptimizerKeeps == MotionInv /\ OptimizerStep => CtlNumbers' /\ MotionFollowed'
<1> SUFFICES ASSUME MotionInv, OptimizerStep PROVE CtlNumbers' /\ MotionFollowed'
  OBVIOUS
<1> DEFINE first == CHOOSE r \in Ranks : TRUE
<1>1. PICK norm \in Norms \cup {Infinite} :
        /\ grad_norm' = [finite |-> norm # Infinite,
                         value |-> IF mode = "lr" THEN norm ELSE Scaled(norm, C)]
        /\ motion' = IF norm = Infinite THEN motion ELSE Ema(motion, Motion(lr[first], norm))
        /\ sunk' = (sunk \/ (norm # Infinite /\ C < Eps))
  BY DEF OptimizerStep
<1>2. /\ ctl_at = "step" /\ ctl_at' = "control" /\ lr' = [r \in Ranks |-> lr[r]]
      /\ UNCHANGED <<mode, call, mini_batch, ctl, local, resumes>>
  BY DEF OptimizerStep, RateAfter
<1>3. /\ first \in Ranks /\ C = ctl[first].c
      /\ \A r \in Ranks : ctl[r] = ctl[first] /\ lr[r] = Schedule[call]
      /\ call \in Calls /\ Schedule[call] \in Nat
  <2>1. call \in Calls
    BY <1>2 DEF MotionInv, ControllersInv, Running
  <2>2. first \in Ranks /\ C = ctl[first].c
    BY ARank DEF C
  <2>3. \A r \in Ranks : ctl[r] = ctl[first] /\ lr[r] = Schedule[call]
    BY <1>2, <2>1, <2>2 DEF MotionInv, ControllersInv, Running
  <2>4. Schedule[call] \in Nat
    BY <2>1, ScheduleRates
  <2> QED
    BY <2>1, <2>2, <2>3, <2>4
<1>4. C \in Nat /\ Bounded(C)
  <2>1. CopyKept(ctl[first])
    BY <1>3 DEF MotionInv, CtlNumbers
  <2>2. Bounded(ctl[first].c)
    BY <2>1 DEF CopyKept
  <2> QED
    BY <1>3, <2>2, BoundedIsNumber
<1>5. norm # Infinite => norm \in Nat
  BY OpdControllersAssumption
<1>6. Taken' <=> norm # Infinite
  BY <1>1 DEF Taken
<1>7. CtlNumbers'
  <2>1. Taken' => grad_norm'.value \in Nat
    BY <1>1, <1>4, <1>5, <1>6, ScalingIsNumber
  <2>2. \A r \in Ranks : CopyKept(ctl[r])'
    BY <1>2 DEF MotionInv, CtlNumbers, CopyKept, Bounded
  <2> QED
    BY <1>2, <2>1, <2>2 DEF MotionInv, CtlNumbers
<1>8. MotionFollowed'
  <2> SUFFICES ASSUME mode = "dctv", ~sunk'
               PROVE  IF Taken'
                      THEN motion' \in Nat
                           /\ \A r \in Ranks : motion' <= Ema(ctl[r].M_ema, MHat(r)') + Eps
                      ELSE \A r \in Ranks : IF ctl[r].step = 0 THEN motion' = None
                                            ELSE motion' \in Nat /\ motion' <= ctl[r].M_ema + Eps
    BY <1>2 DEF MotionFollowed
  <2>1. ~sunk
    BY <1>1
  <2>2. \A r \in Ranks : IF ctl[r].step = 0 THEN motion = None
                         ELSE motion \in Nat /\ motion <= ctl[r].M_ema + Eps
    BY <1>2, <2>1 DEF MotionInv, MotionFollowed
  <2>3. CASE norm = Infinite
    BY <1>1, <1>6, <2>2, <2>3
  <2>4. CASE norm # Infinite
    <3> DEFINE x == Motion(Schedule[call], norm)
               y == Motion(Schedule[call], Unscaled(Scaled(norm, C), C))
    <3>1. C \in Eps..MaxOf(CCap, Unit)
      <4>1. C \in 0..MaxOf(CCap, Unit) /\ ~(C < Eps)
        BY <1>1, <1>4, <2>4 DEF Bounded
      <4>2. MaxOf(CCap, Unit) \in Nat /\ Eps \in Nat
        BY OpdControllersAssumption DEF MaxOf
      <4> QED
        BY <4>1, <4>2
    <3>2. x <= y + Eps
      BY <1>1, <1>3, <2>4, <3>1, PrecisionAssumption DEF Calls
    <3>3. x \in Nat /\ y \in Nat
      BY <1>3, <1>4, <1>5, <2>4, ScalingIsNumber, MotionIsNumber
    <3>4. \A r \in Ranks : MHat(r)' = y
      BY <1>1, <1>2, <1>3 DEF MHat
    <3>5. motion' = Ema(motion, x)
      BY <1>1, <1>3, <2>4
    <3> HIDE DEF x, y
    <3> SUFFICES ASSUME NEW r \in Ranks
                 PROVE  motion' \in Nat /\ motion' <= Ema(ctl[r].M_ema, y) + Eps
      <4>1. Taken'
        BY <1>6, <2>4
      <4>2. \A r \in Ranks : Ema(ctl[r].M_ema, MHat(r)') = Ema(ctl[r].M_ema, y)
        BY <3>4
      <4> QED
        BY <1>3, <4>1, <4>2
    <3>6. CopyKept(ctl[r])
      BY DEF MotionInv, CtlNumbers
    <3>7. CASE ctl[r].step = 0
      <4>1. motion = None /\ ctl[r].M_ema = None
        BY <2>2, <3>6, <3>7 DEF CopyKept
      <4> QED
        BY <3>2, <3>3, <3>5, <4>1 DEF Ema
    <3>8. CASE ctl[r].step # 0
      <4>1. motion \in Nat /\ ctl[r].M_ema \in Nat /\ motion <= ctl[r].M_ema + Eps
        BY <2>2, <3>6, <3>8 DEF CopyKept
      <4> QED
        BY <3>2, <3>3, <3>5, <4>1, AverageWithin
    <3> QED
      BY <3>7, <3>8
  <2> QED
    BY <2>3, <2>4
<1> QED
  BY <1>7, <1>8

LEMMA ControllerKeeps == MotionInv /\ ControllerStep => CtlNumbers' /\ MotionFollowed'
<1> SUFFICES ASSUME MotionInv, ControllerStep PROVE CtlNumbers' /\ MotionFollowed'
  OBVIOUS
<1>1. /\ ctl_at = "control" /\ ctl_at' = "loss"
      /\ UNCHANGED <<mode, local, grad_norm, applied, resumes, last_lr, motion, sunk>>
      /\ \A r \in Ranks : ctl'[r] = IF ~Taken THEN ctl[r]
                                    ELSE IF mode = "dctv" THEN Dctv(r) ELSE TvSched(r)
  BY DEF ControllerStep
<1>2. ControllersInv /\ CtlNumbers /\ MotionFollowed
  BY DEF MotionInv
<1>3. \A r \in Ranks : CopyKept(ctl'[r])
  <2> SUFFICES ASSUME NEW r \in Ranks PROVE CopyKept(ctl'[r])
    OBVIOUS
  <2>1. CASE ~Taken
    BY <1>1, <1>2, <2>1 DEF CtlNumbers
  <2>2. CASE Taken /\ mode = "dctv"
    BY <1>1, <1>2, <2>2, DctvKeeps
  <2>3. CASE Taken /\ mode # "dctv"
    BY <1>1, <1>2, <2>3, TvSchedKeeps
  <2> QED
    BY <2>1, <2>2, <2>3
<1>4. call' \in 1..Len(Schedule) + 1 /\ mini_batch' \in 1..MiniBatches
  <2>1. call \in 1..Len(Schedule)
    BY <1>1, <1>2, ScheduleRates DEF ControllersInv, Running
  <2>2. CASE mini_batch < MiniBatches
    BY <1>2, <2>2, OpdControllersAssumption DEF ControllerStep, CtlNumbers
  <2>3. CASE ~(mini_batch < MiniBatches)
    <3>1. mini_batch' = 1 /\ call' = call + 1
      BY <2>3 DEF ControllerStep
    <3> QED
      BY <2>1, <3>1, OpdControllersAssumption, ScheduleRates
  <2> QED
    BY <2>2, <2>3
<1>5. CtlNumbers'
  <2>1. \A r \in Ranks : CopyKept(ctl[r])'
    BY <1>1, <1>3 DEF CopyKept, Bounded
  <2> QED
    BY <1>1, <1>2, <1>4, <2>1 DEF CtlNumbers
<1>6. MotionFollowed'
  <2> SUFFICES ASSUME mode = "dctv", ~sunk, NEW r \in Ranks
               PROVE  IF ctl'[r].step = 0 THEN motion = None
                      ELSE motion \in Nat /\ motion <= ctl'[r].M_ema + Eps
    BY <1>1 DEF MotionFollowed
  <2>1. CASE ~Taken
    BY <1>1, <1>2, <2>1 DEF MotionFollowed
  <2>2. CASE Taken
    <3>1. motion \in Nat /\ motion <= Ema(ctl[r].M_ema, MHat(r)) + Eps
      BY <1>1, <1>2, <2>2 DEF MotionFollowed
    <3>2. ctl'[r] = Dctv(r)
      BY <1>1, <2>2
    <3>3. Dctv(r).M_ema = Ema(ctl[r].M_ema, MHat(r)) /\ Dctv(r).step # 0
      BY <1>1, <1>2, <2>2, DctvKeeps
    <3> QED
      BY <3>1, <3>2, <3>3
  <2> QED
    BY <2>1, <2>2
<1> QED
  BY <1>5, <1>6

LEMMA ResumingKeeps == MotionInv /\ ResumeTraining => CtlNumbers' /\ MotionFollowed'
<1> SUFFICES ASSUME MotionInv, ResumeTraining PROVE CtlNumbers' /\ MotionFollowed'
  OBVIOUS
<1>1. /\ ctl_at = "loss" /\ motion' = None
      /\ UNCHANGED <<mode, call, mini_batch, ctl_at, local, lr, grad_norm, last_lr>>
      /\ \A r \in Ranks : ctl'[r] = Fresh
  BY DEF ResumeTraining
<1>2. \A r \in Ranks : CopyKept(ctl[r])'
  <2>1. CopyKept(Fresh)
    BY FreshIsKept
  <2> QED
    BY <1>1, <2>1 DEF CopyKept, Bounded
<1>3. CtlNumbers'
  BY <1>1, <1>2 DEF MotionInv, CtlNumbers
<1>4. MotionFollowed'
  BY <1>1 DEF MotionFollowed, Fresh
<1> QED
  BY <1>3, <1>4

LEMMA MotionPreserved == MotionInv /\ [CtlNext]_ctlVars => MotionInv'
<1> SUFFICES ASSUME MotionInv, [CtlNext]_ctlVars PROVE MotionInv'
  OBVIOUS
<1>1. ControllersInv'
  BY ControllersPreserved DEF MotionInv
<1>2. CASE UNCHANGED ctlVars
  <2>1. UNCHANGED <<mode, call, mini_batch, ctl_at, ctl, local, lr, grad_norm, motion, sunk>>
    BY <1>2 DEF ctlVars
  <2>2. CtlNumbers'
    <3>1. \A r \in Ranks : CopyKept(ctl[r])'
      BY <2>1 DEF MotionInv, CtlNumbers, CopyKept, Bounded
    <3> QED
      BY <2>1, <3>1 DEF MotionInv, CtlNumbers, Taken
  <2>3. \A r \in Ranks : MHat(r)' = MHat(r)
    BY <2>1 DEF MHat
  <2>4. MotionFollowed'
    BY <2>1, <2>3 DEF MotionInv, MotionFollowed, Taken
  <2> QED
    BY <1>1, <2>2, <2>4 DEF MotionInv
<1>3. CASE CtlNext
  BY <1>1, <1>2, <1>3, LossesKeep, OptimizerKeeps, ControllerKeeps, ResumingKeeps
     DEF CtlNext, CtlFinished, MotionInv
<1> QED
  BY <1>2, <1>3

LEMMA MotionImplied == MotionInv => MotionBounded
<1> SUFFICES ASSUME MotionInv PROVE MotionBounded
  OBVIOUS
<1>1. ControllersInv /\ CtlNumbers /\ MotionFollowed
  BY DEF MotionInv
<1>2. \A r \in Ranks : CopyKept(ctl[r])
  BY <1>1 DEF CtlNumbers
<1>3. CtlTypeOK
  <2>1. mode \in Modes /\ call \in 1..Cardinality(Calls) + 1 /\ mini_batch \in 1..MiniBatches
        /\ ctl_at \in {"loss", "step", "control"}
    BY <1>1, ScheduleRates DEF CtlNumbers, ControllersInv
  <2>2. ASSUME NEW r \in Ranks
        PROVE  /\ ctl[r].c \in IF mode = "dctv" THEN 0..MaxOf(CCap, Unit) ELSE CMin..Unit
               /\ (ctl[r].D_ema = None) = (ctl[r].step = 0)
               /\ ctl[r].step = 0 \/ (mode # "dctv" /\ ctl[r].step = 1) => ctl[r].c = Unit
    BY <1>2 DEF CopyKept, Bounded, None
  <2> QED
    BY <2>1, <2>2 DEF CtlTypeOK
<1>4. ASSUME mode = "dctv", ctl_at = "loss", ~sunk, NEW r \in Ranks, ctl[r].step > 0
      PROVE  ctl[r].c * motion <= ctl[r].D_ema * Unit
  <2>1. ctl[r].step # 0 /\ CopyKept(ctl[r])
    BY <1>2, <1>4 DEF CopyKept
  <2>2. motion \in Nat /\ motion <= ctl[r].M_ema + Eps
    BY <1>1, <1>4, <2>1 DEF MotionFollowed
  <2> DEFINE c == ctl[r].c
             D == ctl[r].D_ema
             M == ctl[r].M_ema + Eps
  <2>3. c \in Nat /\ M \in Nat /\ D \in Nat /\ Unit \in Nat /\ c * M <= D * Unit
    <3>1. /\ Bounded(ctl[r].c) /\ ctl[r].D_ema \in Nat /\ ctl[r].M_ema \in Nat
          /\ ctl[r].c * (ctl[r].M_ema + Eps) <= ctl[r].D_ema * Unit
      BY <1>4, <2>1 DEF CopyKept
    <3>2. ctl[r].c \in Nat /\ Eps \in Nat /\ Unit \in Nat
      BY <3>1, BoundedIsNumber, OpdControllersAssumption
    <3> QED
      BY <3>1, <3>2
  <2>4. motion <= M
    BY <2>2
  <2> HIDE DEF c, D, M
  <2>5. c * motion <= c * M /\ c * motion \in Int /\ c * M \in Int /\ D * Unit \in Int
    BY <2>2, <2>3, <2>4, ProductGrows
  <2>6. c * motion <= D * Unit
    BY <2>3, <2>5
  <2> QED
    BY <2>6 DEF c, D
<1> QED
  BY <1>3, <1>4 DEF MotionBounded

(* MotionBounded: the predicted motion of the scaled update is within the  *)
(* discrepancy, for any ranks, samples, gradients and schedule, although   *)
(* the controller only sees the norms of gradients that were scaled.       *)
THEOREM MotionStaysBounded == CtlSpec => []MotionBounded
<1>1. CtlSpec => []MotionInv
  BY MotionInitially, MotionPreserved, PTL DEF CtlSpec
<1> QED
  BY <1>1, MotionImplied, PTL

-------------------------------------------------------------------------------
(* The loss of the policy (OpdLoss).                                       *)
(* Everything in it is made of sums, products and quotients of fractions   *)
(* in lowest terms.  First the arithmetic: by Euclid a number is only one  *)
(* fraction in lowest terms (SameValue), so that adding and multiplying    *)
(* obey the laws of numbers (PlusLaws, TimesLaws, OverLaws); then sums,    *)
(* which may be taken in any order; then the two invariants: LossInv, of   *)
(* signs and of what is not zero, and CreditInv, of values.                *)

(* Division without remainder.                                             *)
LEMMA Divided ==
  ASSUME NEW n \in Int, NEW d \in Nat \ {0}, n % d = 0
  PROVE  n \div d \in Int /\ n = (n \div d) * d
<1> DEFINE x == n \div d
           y == n % d
<1>1. n = d * x + y /\ x \in Int
  OBVIOUS
<1> HIDE DEF x
<1>2. d * x = x * d /\ y = 0
  BY <1>1
<1> QED
  BY <1>1, <1>2 DEF x

(* Lowest terms.                                                           *)
Multiple(n, d) == \E q \in Int : n = q * d
Coprime(a, b) == \A k \in Nat \ {0} : Multiple(a, k) /\ Multiple(b, k) => k = 1

(* A remainder is a difference.                                            *)
LEMMA Remainder ==
  ASSUME NEW n \in Int, NEW d \in Nat \ {0}
  PROVE  \E q \in Int, r \in 0..(d - 1) : n = q * d + r
<1> DEFINE x == n \div d
           y == n % d
<1>1. n = d * x + y /\ x \in Int /\ y \in 0..(d - 1)
  OBVIOUS
<1> HIDE DEF x, y
<1>2. n = x * d + y
  BY <1>1
<1> QED
  BY <1>1, <1>2

LEMMA Cancelled ==
  ASSUME NEW a \in Int, NEW b \in Int, NEW c \in Nat \ {0}, a * c = b * c
  PROVE  a = b
<1>1. (a - b) * c = 0
  <2>1. (a - b) * c = a * c - b * c
    OBVIOUS
  <2>2. a * c \in Int
    OBVIOUS
  <2> QED
    BY <2>1, <2>2
<1>2. a - b \in Int /\ (a - b > 0 => (a - b) * c > 0) /\ (a - b < 0 => (a - b) * c < 0)
  <2> DEFINE z == a - b
  <2>1. z \in Int
    OBVIOUS
  <2> HIDE DEF z
  <2>2. (z > 0 => z * c > 0) /\ (z < 0 => z * c < 0)
    BY <2>1
  <2> QED
    BY <2>1, <2>2 DEF z
<1> QED
  BY <1>1, <1>2

(* The multiples of a number are closed under sums and differences.        *)
LEMMA MultiplesOf ==
  ASSUME NEW d \in Nat \ {0}, NEW n \in Int, NEW m \in Int, NEW k \in Int,
         Multiple(n, d), Multiple(m, d)
  PROVE  Multiple(n - k * m, d) /\ Multiple(n - m, d)
<1>1. PICK u \in Int : n = u * d
  BY DEF Multiple
<1>2. PICK v \in Int : m = v * d
  BY DEF Multiple
<1>3. n - k * m = (u - k * v) * d
  <2>1. k * (v * d) = (k * v) * d /\ k * v \in Int
    BY <1>2
  <2> DEFINE w == k * v
  <2>2. (u - w) * d = u * d - w * d
    BY <2>1
  <2> QED
    BY <1>1, <1>2, <2>1, <2>2
<1>4. n - m = (u - v) * d
  BY <1>1, <1>2
<1>5. u - k * v \in Int /\ u - v \in Int
  BY <1>1, <1>2
<1> QED
  BY <1>3, <1>4, <1>5 DEF Multiple

(* Euclid: what divides a product and has nothing in common with one       *)
(* factor divides the other.                                               *)
LEMMA DividesOther ==
  ASSUME NEW a \in Int, NEW b \in Nat \ {0}, NEW c \in Int, Coprime(a, b), Multiple(a * c, b)
  PROVE  Multiple(c, b)
<1> DEFINE K == {k \in Nat \ {0} : Multiple(k * c, b)}
<1>1. b \in K
  <2>1. b * c = c * b
    OBVIOUS
  <2> QED
    BY <2>1 DEF Multiple
<1>2. PICK m \in K : \A k \in K : m <= k
  <2>1. K \in SUBSET Nat /\ K # {}
    BY <1>1
  <2> HIDE DEF K
  <2> QED
    BY <2>1, LeastNumber
<1>3. ASSUME NEW k \in Int, Multiple(k * c, b) PROVE Multiple(k, m)
  <2>1. m \in Nat \ {0} /\ Multiple(m * c, b)
    BY <1>2
  <2>2. PICK q \in Int, r \in 0..(m - 1) : k = q * m + r
    BY <2>1, Remainder
  <2>3. r * c = k * c - q * (m * c)
    <3>1. k * c = (q * m) * c + r * c
      BY <2>1, <2>2
    <3>2. (q * m) * c = q * (m * c) /\ (q * m) * c \in Int /\ r * c \in Int /\ k * c \in Int
      BY <2>1, <2>2
    <3> QED
      BY <3>1, <3>2
  <2>4. Multiple(r * c, b)
    <3>1. k * c \in Int /\ m * c \in Int
      BY <2>1
    <3>2. Multiple(k * c - q * (m * c), b)
      BY <1>3, <2>1, <3>1, MultiplesOf
    <3> QED
      BY <2>3, <3>2
  <2>5. r = 0
    <3> SUFFICES ASSUME r # 0 PROVE FALSE
      OBVIOUS
    <3>1. r \in K
      BY <2>1, <2>4
    <3> QED
      BY <1>2, <2>1, <3>1
  <2> QED
    BY <2>1, <2>2, <2>5 DEF Multiple
<1>4. Multiple(a, m) /\ Multiple(b, m)
  <2>1. Multiple(b * c, b)
    BY <1>1
  <2> QED
    BY <1>3, <2>1
<1>5. m = 1
  BY <1>2, <1>4 DEF Coprime
<1>6. Multiple(1 * c, b)
  BY <1>2, <1>5
<1> QED
  BY <1>6

LEMMA FactorOf ==
  ASSUME NEW b \in Nat \ {0}, NEW c \in Nat \ {0}, Multiple(c, b)
  PROVE  b <= c
<1>1. PICK q \in Int : c = q * b
  BY DEF Multiple
<1>2. q >= 1
  <2>1. q <= 0 => q * b <= 0
    BY <1>1
  <2> QED
    BY <1>1, <2>1
<1>3. (q - 1) * b >= 0
  <2> DEFINE z == q - 1
  <2>1. z \in Nat
    BY <1>1, <1>2
  <2> HIDE DEF z
  <2>2. z * b >= 0
    BY <2>1
  <2> QED
    BY <2>2 DEF z
<1>4. (q - 1) * b = q * b - b
  BY <1>1
<1> QED
  BY <1>1, <1>3, <1>4

(* A number is one fraction in lowest terms.                               *)
LEMMA OneFraction ==
  ASSUME NEW a \in Int, NEW b \in Nat \ {0}, NEW x \in Int, NEW y \in Nat \ {0},
         Coprime(a, b), Coprime(x, y), a * y = x * b
  PROVE  a = x /\ b = y
<1>1. Multiple(a * y, b) /\ Multiple(x * b, y)
  BY DEF Multiple
<1>2. Multiple(y, b) /\ Multiple(b, y)
  BY <1>1, DividesOther
<1>3. b = y
  BY <1>2, FactorOf
<1> QED
  BY <1>3, Cancelled

LEMMA DivisibleIs ==
  ASSUME NEW n \in Int, NEW d \in Nat \ {0}
  PROVE  Multiple(n, d) <=> n % d = 0
<1>1. ASSUME Multiple(n, d) PROVE n % d = 0
  <2>1. PICK q \in Int : n = q * d
    BY <1>1 DEF Multiple
  <2> DEFINE x == n \div d
             y == n % d
  <2>2. n = d * x + y /\ x \in Int /\ y \in 0..(d - 1)
    OBVIOUS
  <2> HIDE DEF x, y
  <2>3. (q - x) * d = y
    <3>1. (q - x) * d = q * d - x * d /\ x * d = d * x /\ x * d \in Int
      BY <2>1, <2>2
    <3> QED
      BY <2>1, <2>2, <3>1
  <2> DEFINE z == q - x
  <2>4. z \in Int
    BY <2>1, <2>2
  <2>5. z * d = y
    BY <2>3
  <2> HIDE DEF z
  <2>6. z = 0
    <3>1. CASE z >= 1
      <4>1. (z - 1) * d = z * d - d
        BY <2>4
      <4>2. (z - 1) * d >= 0
        <5> DEFINE w == z - 1
        <5>1. w \in Nat
          BY <2>4, <3>1
        <5> HIDE DEF w
        <5>2. w * d >= 0
          BY <5>1
        <5> QED
          BY <5>2 DEF w
      <4> QED
        BY <2>2, <2>4, <2>5, <4>1, <4>2
    <3>2. CASE z <= -1
      <4>1. z * d < 0
        BY <2>4, <3>2
      <4> QED
        BY <2>2, <2>5, <4>1
    <3> QED
      BY <2>4, <3>1, <3>2
  <2> QED
    BY <2>5, <2>6 DEF y
<1>2. ASSUME n % d = 0 PROVE Multiple(n, d)
  BY <1>2, Divided DEF Multiple
<1> QED
  BY <1>1, <1>2

(* Reducing divides by the greatest common divisor.                        *)
LEMMA GreatestDivisor ==
  ASSUME NEW n \in Int, NEW d \in Nat \ {0}
  PROVE  \E g \in Nat \ {0}, a \in Int, b \in Nat \ {0} :
           /\ Reduced(n, d) = <<a, b>> /\ n = a * g /\ d = b * g
           /\ \A k \in Nat \ {0} : Multiple(n, k) /\ Multiple(d, k) => k <= g
<1> DEFINE Divisors == {k \in 1..d : n % k = 0 /\ d % k = 0}
           g == Max(Divisors)
<1>1. 1 \in Divisors
  OBVIOUS
<1>2. g \in Divisors /\ \A k \in Divisors : k <= g
  <2>1. Divisors \in SUBSET Int /\ Divisors # {} /\ \A k \in Divisors : 1 <= k /\ k <= d
    BY <1>1
  <2> HIDE DEF Divisors
  <2> QED
    <3> DEFINE low == 1
               high == d
    <3>1. low \in Int /\ high \in Int /\ \A k \in Divisors : low <= k /\ k <= high
      BY <2>1
    <3> HIDE DEF low, high
    <3>2. Max(Divisors) \in Divisors /\ \A k \in Divisors : k <= Max(Divisors)
      BY <2>1, <3>1, LargestOfBounded
    <3> QED
      BY <3>2
<1>3. g \in Nat \ {0} /\ g <= d /\ n % g = 0 /\ d % g = 0
  BY <1>2
<1>4. Reduced(n, d) = <<n \div g, d \div g>>
  BY DEF Reduced
<1>5. ASSUME NEW k \in Nat \ {0}, Multiple(n, k), Multiple(d, k) PROVE k <= g
  <2>1. n % k = 0 /\ d % k = 0
    BY <1>5, DivisibleIs
  <2>2. k <= d
    BY <1>5, FactorOf
  <2> QED
    BY <1>2, <2>1, <2>2
<1> HIDE DEF g, Divisors
<1> DEFINE a == n \div g
           b == d \div g
<1>6. a \in Int /\ n = a * g /\ b \in Int /\ d = b * g
  BY <1>3, Divided
<1>7. Reduced(n, d) = <<a, b>>
  BY <1>4
<1> HIDE DEF a, b
<1>8. b > 0
  <2> SUFFICES ASSUME b <= 0 PROVE FALSE
    BY <1>6
  <2>1. b * g <= 0
    BY <1>3, <1>6
  <2> QED
    BY <1>6, <2>1
<1> QED
  BY <1>3, <1>5, <1>6, <1>7, <1>8

(* A product with a positive number keeps the sign.                        *)
LEMMA SignKept ==
  ASSUME NEW a \in Int, NEW g \in Nat \ {0}
  PROVE  (a > 0 => a * g > 0) /\ (a < 0 => a * g < 0) /\ (a = 0 => a * g = 0)
<1>1. ASSUME NEW x \in Nat, x > 0 PROVE x * g > 0
  <2>1. g * 1 <= g * x
    BY <1>1, ProductGrows
  <2>2. g * 1 = g /\ g * x = x * g /\ g * x \in Nat
    OBVIOUS
  <2> QED
    BY <2>1, <2>2
<1>2. ASSUME a < 0 PROVE a * g < 0
  <2> DEFINE x == 0 - a
  <2>1. x \in Nat /\ x > 0 /\ a = 0 - x
    BY <1>2
  <2> HIDE DEF x
  <2>2. x * g > 0 /\ x * g \in Nat
    BY <1>1, <2>1
  <2>3. (0 - x) * g = 0 * g - x * g
    BY <2>1, Distributes
  <2> QED
    BY <2>1, <2>2, <2>3
<1> QED
  BY <1>1, <1>2

(* Reduced takes a common divisor out of both; nothing is <<0, 1>>.        *)
ReducedFrom(n, d) ==
  \E g \in Nat \ {0}, a \in Int, b \in Nat \ {0} :
    Reduced(n, d) = <<a, b>> /\ n = a * g /\ d = b * g /\ (n = 0 => a = 0 /\ b = 1)
LEMMA Reduction ==
  ASSUME NEW n \in Int, NEW d \in Nat \ {0}
  PROVE  ReducedFrom(n, d)
<1>1. PICK g \in Nat \ {0}, a \in Int, b \in Nat \ {0} :
        /\ Reduced(n, d) = <<a, b>> /\ n = a * g /\ d = b * g
        /\ \A k \in Nat \ {0} : Multiple(n, k) /\ Multiple(d, k) => k <= g
  BY GreatestDivisor
<1>2. ASSUME n = 0 PROVE a = 0 /\ b = 1
  <2>1. a = 0
    BY <1>1, <1>2
  <2>2. d <= g
    <3>1. 0 = 0 * d /\ d = 1 * d
      OBVIOUS
    <3>2. Multiple(n, d) /\ Multiple(d, d)
      BY <1>2, <3>1 DEF Multiple
    <3> QED
      BY <1>1, <3>2
  <2>3. b * g = (b - 1) * g + g /\ (b - 1) * g \in Int
    BY <1>1
  <2>4. b - 1 > 0 => (b - 1) * g > 0
    <3> DEFINE z == b - 1
    <3>1. z \in Int
      OBVIOUS
    <3> HIDE DEF z
    <3>2. z > 0 => z * g > 0
      BY <3>1, SignKept
    <3> QED
      BY <3>2 DEF z
  <2> QED
    BY <1>1, <2>1, <2>2, <2>3, <2>4
<1> QED
  BY <1>1, <1>2 DEF ReducedFrom

(* A fraction keeps its sign when it is reduced.                           *)
LEMMA ReducedIs ==
  ASSUME NEW n \in Int, NEW d \in Nat \ {0}
  PROVE  /\ Reduced(n, d) \in Fractions
         /\ n = 0 => Reduced(n, d) = Zero
         /\ n > 0 <=> Reduced(n, d)[1] > 0
         /\ n < 0 <=> Reduced(n, d)[1] < 0
<1>1. PICK g \in Nat \ {0}, a \in Int, b \in Nat \ {0} :
        Reduced(n, d) = <<a, b>> /\ n = a * g /\ d = b * g /\ (n = 0 => a = 0 /\ b = 1)
  BY Reduction DEF ReducedFrom
<1>2. (a > 0 => a * g > 0) /\ (a < 0 => a * g < 0) /\ (a = 0 => a * g = 0)
  BY SignKept
<1>3. n = 0 \/ n > 0 \/ n < 0
  OBVIOUS
<1> DEFINE z == a * g
<1>4. z = n /\ (a > 0 => z > 0) /\ (a < 0 => z < 0) /\ (a = 0 => z = 0)
  BY <1>1, <1>2
<1> HIDE DEF z
<1>5. (n > 0 <=> a > 0) /\ (n < 0 <=> a < 0)
  BY <1>4
<1>6. Reduced(n, d) = <<a, b>> /\ (n = 0 => a = 0 /\ b = 1)
  BY <1>1
<1> QED
  BY <1>5, <1>6 DEF Fractions, Zero

LEMMA Parts == ASSUME NEW q \in Fractions PROVE q[1] \in Int /\ q[2] \in Nat \ {0} /\ q = <<q[1], q[2]>>
BY DEF Fractions

LEMMA ZeroIs == Zero \in Fractions /\ One \in Fractions /\ Zero[1] = 0 /\ Zero[2] = 1 /\ One[1] = 1
BY DEF Fractions, Zero, One

LEMMA PlusIs ==
  ASSUME NEW p \in Fractions, NEW q \in Fractions
  PROVE  /\ Plus(p, q) \in Fractions /\ (Plus(p, q)[1] = 0 => Plus(p, q) = Zero)
         /\ p[1] >= 0 /\ q[1] >= 0 => Plus(p, q)[1] >= 0
         /\ p[1] > 0 /\ q[1] >= 0 => Plus(p, q)[1] > 0
         /\ p[1] <= 0 /\ q[1] <= 0 => Plus(p, q)[1] <= 0
         /\ (p[1] < 0 /\ q[1] <= 0) \/ (p[1] <= 0 /\ q[1] < 0) => Plus(p, q)[1] < 0
<1> DEFINE u == p[1] * q[2]
           v == q[1] * p[2]
           d == p[2] * q[2]
<1>1. p[1] \in Int /\ p[2] \in Nat \ {0} /\ q[1] \in Int /\ q[2] \in Nat \ {0}
  BY Parts
<1>2. u \in Int /\ v \in Int /\ d \in Nat \ {0}
  BY <1>1
<1>3. /\ p[1] > 0 => u > 0
      /\ p[1] = 0 => u = 0
      /\ p[1] < 0 => u < 0
  BY <1>1
<1>4. /\ q[1] > 0 => v > 0
      /\ q[1] = 0 => v = 0
      /\ q[1] < 0 => v < 0
  BY <1>1
<1>5. Plus(p, q) = Reduced(u + v, d)
  BY DEF Plus
<1> HIDE DEF u, v, d
<1>6. /\ Plus(p, q) \in Fractions
      /\ u + v = 0 => Plus(p, q) = Zero
      /\ u + v > 0 <=> Plus(p, q)[1] > 0
      /\ u + v < 0 <=> Plus(p, q)[1] < 0
  BY <1>2, <1>5, ReducedIs
<1>7. Plus(p, q)[1] \in Int
  BY <1>6, Parts
<1> HIDE <1>5
<1> QED
  BY <1>1, <1>2, <1>3, <1>4, <1>6, <1>7

LEMMA TimesIs ==
  ASSUME NEW p \in Fractions, NEW q \in Fractions
  PROVE  /\ Times(p, q) \in Fractions
         /\ p[1] >= 0 /\ q[1] >= 0 => Times(p, q)[1] >= 0
         /\ p[1] > 0 /\ q[1] > 0 => Times(p, q)[1] > 0
<1> DEFINE u == p[1] * q[1]
           d == p[2] * q[2]
<1>1. p[1] \in Int /\ p[2] \in Nat \ {0} /\ q[1] \in Int /\ q[2] \in Nat \ {0}
  BY Parts
<1>2. u \in Int /\ d \in Nat \ {0}
  BY <1>1
<1>3. /\ p[1] > 0 /\ q[1] > 0 => u > 0
      /\ p[1] >= 0 /\ q[1] >= 0 => u >= 0
  BY <1>1
<1>4. Times(p, q) = Reduced(u, d)
  BY DEF Times
<1> HIDE DEF u, d
<1>5. /\ Times(p, q) \in Fractions
      /\ u > 0 <=> Times(p, q)[1] > 0
      /\ u < 0 <=> Times(p, q)[1] < 0
  BY <1>2, <1>4, ReducedIs
<1>6. Times(p, q)[1] \in Int
  BY <1>5, Parts
<1> HIDE <1>4
<1> QED
  BY <1>1, <1>2, <1>3, <1>5, <1>6

LEMMA OverIs ==
  ASSUME NEW p \in Fractions, NEW q \in Fractions, q[1] # 0
  PROVE  /\ Over(p, q) \in Fractions
         /\ p[1] >= 0 /\ q[1] > 0 => Over(p, q)[1] >= 0
         /\ p[1] > 0 /\ q[1] > 0 => Over(p, q)[1] > 0
<1>1. q[1] \in Int /\ q[2] \in Nat \ {0}
  BY Parts
<1>2. CASE q[1] > 0
  <2>1. Over(p, q) = Times(p, <<q[2], q[1]>>)
    BY <1>2 DEF Over
  <2>2. <<q[2], q[1]>> \in Fractions /\ <<q[2], q[1]>>[1] > 0
    BY <1>1, <1>2 DEF Fractions
  <2> QED
    BY <1>1, <2>1, <2>2, TimesIs
<1>3. CASE q[1] < 0
  <2>1. Over(p, q) = Times(p, <<-q[2], -q[1]>>)
    BY <1>1, <1>3 DEF Over
  <2>2. <<-q[2], -q[1]>> \in Fractions
    BY <1>1, <1>3 DEF Fractions
  <2> QED
    BY <1>1, <1>3, <2>1, <2>2, TimesIs
<1> QED
  BY <1>1, <1>2, <1>3

LEMMA MinusIs ==
  ASSUME NEW p \in Fractions, NEW q \in Fractions
  PROVE  Minus(p, q) \in Fractions /\ Minus(p, p) = Zero
<1>1. p[1] \in Int /\ p[2] \in Nat \ {0} /\ q[1] \in Int /\ q[2] \in Nat \ {0}
  BY Parts
<1>2. Minus(p, q) \in Fractions
  <2>1. <<-q[1], q[2]>> \in Fractions
    BY <1>1 DEF Fractions
  <2> QED
    BY <2>1, PlusIs DEF Minus
<1>3. Minus(p, p) = Zero
  <2> DEFINE x == p[1]
             y == p[2]
  <2>1. Minus(p, p) = Reduced(x * y + (-x) * y, y * y)
    BY DEF Minus, Plus
  <2>2. x \in Int /\ y \in Nat \ {0}
    BY <1>1
  <2> HIDE DEF x, y
  <2>3. x * y + (-x) * y = 0 /\ y * y \in Nat \ {0}
    BY <2>2
  <2>4. Reduced(0, y * y) = Zero
    BY <2>3, ReducedIs
  <2> QED
    BY <2>1, <2>3, <2>4
<1> QED
  BY <1>2, <1>3

LEMMA AbsIs ==
  ASSUME NEW q \in Fractions
  PROVE  Abs(q) \in Fractions /\ Abs(q)[1] >= 0 /\ (q[1] # 0 => Abs(q)[1] > 0)
<1>1. q[1] \in Int /\ q[2] \in Nat \ {0}
  BY Parts
<1> QED
  BY <1>1 DEF Abs, Fractions

LEMMA PowerIs ==
  ASSUME NEW q \in Fractions, q[1] >= 0, NEW a \in 0..2
  PROVE  Power(q, a) \in Fractions /\ Power(q, a)[1] >= 0 /\ (q[1] > 0 => Power(q, a)[1] > 0)
<1>1. CASE a = 0
  BY <1>1, ZeroIs DEF Power
<1>2. CASE a = 1
  BY <1>2 DEF Power
<1>3. CASE a = 2
  BY <1>3, TimesIs DEF Power
<1> QED
  BY <1>1, <1>2, <1>3

(* The fractions in lowest terms; Value(q, n, d): that q is n / d.          *)
Lowest == {q \in Fractions : Coprime(q[1], q[2])}
Value(q, n, d) == q \in Lowest /\ q[1] * d = n * q[2]

LEMMA ReducedValue ==
  ASSUME NEW n \in Int, NEW d \in Nat \ {0}
  PROVE  Value(Reduced(n, d), n, d)
<1>1. PICK g \in Nat \ {0}, a \in Int, b \in Nat \ {0} :
        /\ Reduced(n, d) = <<a, b>> /\ n = a * g /\ d = b * g
        /\ \A k \in Nat \ {0} : Multiple(n, k) /\ Multiple(d, k) => k <= g
  BY GreatestDivisor
<1>2. Coprime(a, b)
  <2> SUFFICES ASSUME NEW k \in Nat \ {0}, Multiple(a, k), Multiple(b, k) PROVE k = 1
    BY DEF Coprime
  <2>1. PICK u \in Int : a = u * k
    BY DEF Multiple
  <2>2. PICK v \in Int : b = v * k
    BY DEF Multiple
  <2>3. n = u * (k * g) /\ d = v * (k * g) /\ k * g \in Nat \ {0}
    BY <1>1, <2>1, <2>2
  <2>4. k * g <= g
    <3> DEFINE c == k * g
    <3>1. c \in Nat \ {0} /\ Multiple(n, c) /\ Multiple(d, c)
      BY <2>3 DEF Multiple
    <3> HIDE DEF c
    <3>2. c <= g
      BY <1>1, <3>1
    <3> QED
      BY <3>2 DEF c
  <2>5. k * g = (k - 1) * g + g
    BY <1>1
  <2>6. k - 1 >= 1 => (k - 1) * g > 0
    <3> DEFINE w == k - 1
    <3>1. w \in Nat
      OBVIOUS
    <3> HIDE DEF w
    <3>2. w >= 1 => w * g > 0
      BY <1>1, <3>1
    <3> QED
      BY <3>2 DEF w
  <2>7. (k - 1) * g \in Int
    BY <1>1
  <2> QED
    BY <1>1, <2>4, <2>5, <2>6, <2>7
<1>3. a * d = n * b
  <2>1. a * (b * g) = (a * g) * b
    BY <1>1
  <2> QED
    BY <1>1, <2>1
<1> QED
  BY <1>1, <1>2, <1>3 DEF Value, Lowest, Fractions

LEMMA LowestParts == ASSUME NEW q \in Lowest
                     PROVE  q[1] \in Int /\ q[2] \in Nat \ {0} /\ q \in Fractions /\ q = <<q[1], q[2]>>
BY Parts DEF Lowest

(* What has the same value is the same.                                    *)
LEMMA SameValue ==
  ASSUME NEW p, NEW q, NEW n \in Int, NEW d \in Nat \ {0}, NEW m \in Int, NEW e \in Nat \ {0},
         Value(p, n, d), Value(q, m, e), n * e = m * d
  PROVE  p = q
<1> DEFINE a == p[1]
           b == p[2]
           x == q[1]
           y == q[2]
<1>1. p \in Lowest /\ q \in Lowest /\ a * d = n * b /\ x * e = m * y
  BY DEF Value
<1>2. /\ a \in Int /\ b \in Nat \ {0} /\ x \in Int /\ y \in Nat \ {0}
      /\ Coprime(a, b) /\ Coprime(x, y) /\ p = <<a, b>> /\ q = <<x, y>>
  BY <1>1, LowestParts DEF Lowest
<1> HIDE DEF a, b, x, y
<1>3. (a * y) * (d * e) = (x * b) * (d * e)
  <2>1. (a * y) * (d * e) = (a * d) * (y * e)
    BY <1>2
  <2>2. (n * b) * (y * e) = (n * e) * (y * b)
    BY <1>2
  <2>3. (m * d) * (y * b) = (m * y) * (b * d)
    BY <1>2
  <2>4. (x * e) * (b * d) = (x * b) * (d * e)
    BY <1>2
  <2> QED
    BY <1>1, <2>1, <2>2, <2>3, <2>4
<1>4. a * y = x * b
  <2> DEFINE u == a * y
             v == x * b
             w == d * e
  <2>1. u \in Int /\ v \in Int /\ w \in Nat \ {0} /\ u * w = v * w
    BY <1>2, <1>3
  <2> HIDE DEF u, v, w
  <2>2. u = v
    BY <2>1, Cancelled
  <2> QED
    BY <2>2 DEF u, v
<1>5. a = x /\ b = y
  BY <1>2, <1>4, OneFraction
<1> QED
  BY <1>2, <1>5

LEMMA ValueOf == ASSUME NEW q \in Lowest PROVE Value(q, q[1], q[2])
BY LowestParts DEF Value

(* A value can be written with another denominator.                        *)
LEMMA ValueMoves ==
  ASSUME NEW r, NEW s \in Int, NEW c \in Nat \ {0}, NEW w \in Int, NEW f \in Nat \ {0},
         Value(r, s, c), s * f = w * c
  PROVE  Value(r, w, f)
<1> DEFINE u == r[1]
           v == r[2]
<1>1. r \in Lowest /\ u * c = s * v /\ u \in Int /\ v \in Nat \ {0}
  BY LowestParts DEF Value
<1> HIDE DEF u, v
<1>2. (u * f) * c = (w * v) * c
  <2>1. (u * f) * c = (u * c) * f
    BY <1>1
  <2>2. (s * v) * f = (s * f) * v
    BY <1>1
  <2>3. (w * c) * v = (w * v) * c
    BY <1>1
  <2> QED
    BY <1>1, <2>1, <2>2, <2>3
<1>3. u * f = w * v
  <2> DEFINE h == u * f
             k == w * v
  <2>1. h \in Int /\ k \in Int /\ h * c = k * c
    BY <1>1, <1>2
  <2> HIDE DEF h, k
  <2>2. h = k
    BY <2>1, Cancelled
  <2> QED
    BY <2>2 DEF h, k
<1> QED
  BY <1>1, <1>3 DEF Value, u, v

(* What Plus and Times compute, as quotients of integers.                  *)
LEMMA PlusValue ==
  ASSUME NEW p, NEW q, NEW n \in Int, NEW d \in Nat \ {0}, NEW m \in Int, NEW e \in Nat \ {0},
         Value(p, n, d), Value(q, m, e)
  PROVE  Value(Plus(p, q), n * e + m * d, d * e)
<1> DEFINE a == p[1]
           b == p[2]
           x == q[1]
           y == q[2]
           s == a * y + x * b
           c == b * y
           w == n * e + m * d
           f == d * e
<1>1. /\ a \in Int /\ b \in Nat \ {0} /\ x \in Int /\ y \in Nat \ {0}
      /\ a * d = n * b /\ x * e = m * y
  BY LowestParts DEF Value
<1>2. Plus(p, q) = Reduced(s, c)
  BY DEF Plus
<1> HIDE DEF a, b, x, y
<1>3. s * f = w * c
  <2>1. s * f = (a * d) * (y * e) + (x * e) * (b * d)
    BY <1>1
  <2>2. (n * b) * (y * e) + (m * y) * (b * d) = w * c
    BY <1>1
  <2> QED
    BY <1>1, <2>1, <2>2
<1>4. s \in Int /\ c \in Nat \ {0} /\ w \in Int /\ f \in Nat \ {0}
  BY <1>1
<1> HIDE DEF s, c, w, f
<1>5. Value(Plus(p, q), w, f)
  BY <1>2, <1>3, <1>4, ReducedValue, ValueMoves
<1> QED
  BY <1>5 DEF w, f

LEMMA TimesValue ==
  ASSUME NEW p, NEW q, NEW n \in Int, NEW d \in Nat \ {0}, NEW m \in Int, NEW e \in Nat \ {0},
         Value(p, n, d), Value(q, m, e)
  PROVE  Value(Times(p, q), n * m, d * e)
<1> DEFINE a == p[1]
           b == p[2]
           x == q[1]
           y == q[2]
           s == a * x
           c == b * y
           w == n * m
           f == d * e
<1>1. /\ a \in Int /\ b \in Nat \ {0} /\ x \in Int /\ y \in Nat \ {0}
      /\ a * d = n * b /\ x * e = m * y
  BY LowestParts DEF Value
<1>2. Times(p, q) = Reduced(s, c)
  BY DEF Times
<1> HIDE DEF a, b, x, y
<1>3. s * f = w * c
  <2>1. s * f = (a * d) * (x * e)
    BY <1>1
  <2>2. (n * b) * (m * y) = w * c
    BY <1>1
  <2> QED
    BY <1>1, <2>1, <2>2
<1>4. s \in Int /\ c \in Nat \ {0} /\ w \in Int /\ f \in Nat \ {0}
  BY <1>1
<1> HIDE DEF s, c, w, f
<1>5. Value(Times(p, q), w, f)
  BY <1>2, <1>3, <1>4, ReducedValue, ValueMoves
<1> QED
  BY <1>5 DEF w, f

(* Adding and multiplying are what they are of numbers.                    *)
LEMMA PlusLaws ==
  ASSUME NEW p \in Lowest, NEW q \in Lowest, NEW r \in Lowest
  PROVE  /\ Plus(p, q) \in Lowest /\ Plus(p, q) = Plus(q, p) /\ Plus(Zero, p) = p
         /\ Plus(Plus(p, q), r) = Plus(p, Plus(q, r))
<1> DEFINE a == p[1]
           b == p[2]
           x == q[1]
           y == q[2]
           i == r[1]
           j == r[2]
<1>1. /\ a \in Int /\ b \in Nat \ {0} /\ x \in Int /\ y \in Nat \ {0} /\ i \in Int /\ j \in Nat \ {0}
      /\ Value(p, a, b) /\ Value(q, x, y) /\ Value(r, i, j)
  BY LowestParts, ValueOf
<1> HIDE DEF a, b, x, y, i, j
<1>2. Value(Zero, 0, 1)
  <2>1. Coprime(0, 1)
    <3> SUFFICES ASSUME NEW k \in Nat \ {0}, Multiple(1, k) PROVE k = 1
      BY DEF Coprime
    <3>1. k <= 1
      BY FactorOf
    <3> QED
      BY <3>1
  <2> QED
    BY <2>1, ZeroIs DEF Value, Lowest
<1>3. a * y + x * b \in Int /\ b * y \in Nat \ {0} /\ x * j + i * y \in Int /\ y * j \in Nat \ {0}
  BY <1>1
<1>4. Value(Plus(p, q), a * y + x * b, b * y)
  BY <1>1, PlusValue
<1>5. Plus(p, q) \in Lowest
  BY <1>4 DEF Value
<1>6. Plus(p, q) = Plus(q, p)
  <2>1. Value(Plus(q, p), x * b + a * y, y * b)
    BY <1>1, PlusValue
  <2>2. x * b + a * y = a * y + x * b /\ y * b = b * y
    BY <1>1
  <2> DEFINE s == a * y + x * b
             c == b * y
  <2>3. s \in Int /\ c \in Nat \ {0} /\ Value(Plus(p, q), s, c) /\ Value(Plus(q, p), s, c)
    BY <1>3, <1>4, <2>1, <2>2
  <2> HIDE DEF s, c
  <2> QED
    BY <2>3, SameValue
<1>7. Plus(Zero, p) = p
  <2>1. Value(Plus(Zero, p), 0 * b + a * 1, 1 * b)
    BY <1>1, <1>2, PlusValue
  <2>2. 0 * b + a * 1 = a /\ 1 * b = b
    BY <1>1
  <2> QED
    BY <1>1, <2>1, <2>2, SameValue
<1>8. Plus(Plus(p, q), r) = Plus(p, Plus(q, r))
  <2> DEFINE s == a * y + x * b
             c == b * y
             w == x * j + i * y
             f == y * j
             n == s * j + i * c
             d == c * j
             m == a * f + w * b
             e == b * f
  <2>1. Value(Plus(p, q), s, c) /\ Value(Plus(q, r), w, f)
    BY <1>1, <1>4, PlusValue
  <2>2. n = m /\ d = e
    BY <1>1
  <2>3. s \in Int /\ c \in Nat \ {0} /\ w \in Int /\ f \in Nat \ {0}
    BY <1>3
  <2> HIDE DEF s, c, w, f
  <2>4. Value(Plus(Plus(p, q), r), n, d) /\ Value(Plus(p, Plus(q, r)), m, e)
    BY <1>1, <2>1, <2>3, PlusValue
  <2>5. n \in Int /\ d \in Nat \ {0}
    BY <1>1, <2>3
  <2> HIDE DEF n, d, m, e
  <2> QED
    BY <2>2, <2>4, <2>5, SameValue
<1> QED
  BY <1>5, <1>6, <1>7, <1>8

(* Multiplication does, too, and distributes over addition.                *)
LEMMA TimesLaws ==
  ASSUME NEW p \in Lowest, NEW q \in Lowest, NEW r \in Lowest
  PROVE  /\ Times(p, q) \in Lowest /\ Times(p, q) = Times(q, p)
         /\ Times(One, p) = p /\ Times(Zero, p) = Zero
         /\ Times(Times(p, q), r) = Times(p, Times(q, r))
         /\ Times(p, Plus(q, r)) = Plus(Times(p, q), Times(p, r))
<1> DEFINE a == p[1]
           b == p[2]
           x == q[1]
           y == q[2]
           i == r[1]
           j == r[2]
<1>1. /\ a \in Int /\ b \in Nat \ {0} /\ x \in Int /\ y \in Nat \ {0} /\ i \in Int /\ j \in Nat \ {0}
      /\ Value(p, a, b) /\ Value(q, x, y) /\ Value(r, i, j)
  BY LowestParts, ValueOf
<1> HIDE DEF a, b, x, y, i, j
<1>2. Value(Zero, 0, 1) /\ Value(One, 1, 1)
  <2>1. Coprime(0, 1) /\ Coprime(1, 1)
    <3> SUFFICES ASSUME NEW k \in Nat \ {0}, Multiple(1, k) PROVE k = 1
      BY DEF Coprime
    <3>1. k <= 1
      BY FactorOf
    <3> QED
      BY <3>1
  <2> QED
    BY <2>1, ZeroIs DEF Value, Lowest, One
<1>3. a * x \in Int /\ b * y \in Nat \ {0} /\ x * i \in Int /\ y * j \in Nat \ {0}
  BY <1>1
<1>4. Value(Times(p, q), a * x, b * y)
  BY <1>1, TimesValue
<1>5. Times(p, q) \in Lowest
  BY <1>4 DEF Value
<1>6. Times(p, q) = Times(q, p)
  <2>1. Value(Times(q, p), x * a, y * b)
    BY <1>1, TimesValue
  <2>2. x * a = a * x /\ y * b = b * y
    BY <1>1
  <2> DEFINE s == a * x
             c == b * y
  <2>3. s \in Int /\ c \in Nat \ {0} /\ Value(Times(p, q), s, c) /\ Value(Times(q, p), s, c)
    BY <1>3, <1>4, <2>1, <2>2
  <2> HIDE DEF s, c
  <2> QED
    BY <2>3, SameValue
<1>7. Times(One, p) = p
  <2>1. Value(Times(One, p), 1 * a, 1 * b)
    BY <1>1, <1>2, TimesValue
  <2>2. 1 * a = a /\ 1 * b = b
    BY <1>1
  <2> QED
    BY <1>1, <2>1, <2>2, SameValue
<1>8. Times(Zero, p) = Zero
  <2>1. Value(Times(Zero, p), 0 * a, 1 * b)
    BY <1>1, <1>2, TimesValue
  <2>2. 0 * a = 0 /\ 1 * b = b /\ 0 * 1 = 0 * b
    BY <1>1
  <2> QED
    BY <1>1, <1>2, <2>1, <2>2, SameValue
<1>9. Times(Times(p, q), r) = Times(p, Times(q, r))
  <2> DEFINE s == a * x
             c == b * y
             w == x * i
             f == y * j
             n == s * i
             d == c * j
             m == a * w
             e == b * f
  <2>1. Value(Times(p, q), s, c) /\ Value(Times(q, r), w, f)
    BY <1>1, <1>4, TimesValue
  <2>2. n = m /\ d = e
    BY <1>1
  <2>3. s \in Int /\ c \in Nat \ {0} /\ w \in Int /\ f \in Nat \ {0}
    BY <1>3
  <2> HIDE DEF s, c, w, f
  <2>4. Value(Times(Times(p, q), r), n, d) /\ Value(Times(p, Times(q, r)), m, e)
    BY <1>1, <2>1, <2>3, TimesValue
  <2>5. n \in Int /\ d \in Nat \ {0}
    BY <1>1, <2>3
  <2> HIDE DEF n, d, m, e
  <2> QED
    BY <2>2, <2>4, <2>5, SameValue
<1>10. Times(p, Plus(q, r)) = Plus(Times(p, q), Times(p, r))
  <2> DEFINE s == a * x
             c == b * y
             w == a * i
             f == b * j
             n == x * j + i * y
             d == y * j
             m == a * n
             e == b * d
             u == s * f + w * c
             v == c * f
  <2>1. Value(Times(p, q), s, c) /\ Value(Times(p, r), w, f) /\ Value(Plus(q, r), n, d)
    BY <1>1, <1>4, TimesValue, PlusValue
  <2>2. m * v = u * e
    <3>1. u = (a * b) * n /\ v = b * e /\ n \in Int /\ e \in Int
      BY <1>1
    <3>2. m = a * n
      OBVIOUS
    <3> HIDE DEF e, u, v, m, n
    <3>3. (a * n) * (b * e) = ((a * b) * n) * e
      BY <1>1, <3>1
    <3> QED
      BY <3>1, <3>2, <3>3
  <2>3. s \in Int /\ c \in Nat \ {0} /\ w \in Int /\ f \in Nat \ {0} /\ n \in Int /\ d \in Nat \ {0}
    BY <1>1
  <2> HIDE DEF s, c, w, f, n, d
  <2>4. Value(Times(p, Plus(q, r)), m, e) /\ Value(Plus(Times(p, q), Times(p, r)), u, v)
    BY <1>1, <2>1, <2>3, PlusValue, TimesValue
  <2>5. m \in Int /\ e \in Nat \ {0} /\ u \in Int /\ v \in Nat \ {0}
    BY <1>1, <2>3
  <2> HIDE DEF m, e, u, v
  <2> QED
    BY <2>2, <2>4, <2>5, SameValue
<1> QED
  BY <1>5, <1>6, <1>7, <1>8, <1>9, <1>10

-------------------------------------------------------------------------------
(* Sums of fractions.                                                      *)
(* What is closed under addition has the sums of its elements.  Summed(g)  *)
(* says that g has the sums over all subsets of S.                         *)
Closed(V) == Zero \in V /\ \A p, q \in V : Plus(p, q) \in V
Within(f, S, V) == \A x \in S : f[x] \in V
Summed(g, f, S) ==
  /\ Sum(f, S) = g[S] /\ g[{}] = Zero
  /\ \A s \in SUBSET S : s # {} => g[s] = Plus(f[FirstOf(s)], g[s \ {FirstOf(s)}])

(* A sum takes its elements one after the other.                           *)
LEMMA SumSteps ==
  ASSUME NEW S, IsFiniteSet(S), NEW V, Closed(V), NEW f, Within(f, S, V)
  PROVE  \E g \in [SUBSET S -> V] : Summed(g, f, S)
<1> USE DEF Closed, Within
<1> DEFINE Body(i) == [s \in SUBSET S |->
                         IF s = {} THEN Zero ELSE Plus(f[FirstOf(s)], i[s \ {FirstOf(s)}])]
           iter == CHOOSE i : i = Body(i)
           h == [p \in S \X V |-> Plus(f[p[1]], p[2])]
<1>1. Sum(f, S) = iter[S]
  BY DEF Sum, MapThenFoldSet, FirstOf
<1>2. h \in [S \X V -> V]
  OBVIOUS
<1>3. \A x \in S, v \in V : h[<<x, v>>] = Plus(f[x], v)
  OBVIOUS
<1> HIDE DEF h
<1>4. PICK g \in [SUBSET S -> V] : \A s \in SUBSET S : Folded(h, Zero, g, s)
  BY <1>2, FoldExists
<1>5. \A s \in SUBSET S : g[s] = IF s = {} THEN Zero ELSE Plus(f[FirstOf(s)], g[s \ {FirstOf(s)}])
  <2> SUFFICES ASSUME NEW s \in SUBSET S
               PROVE  g[s] = IF s = {} THEN Zero ELSE Plus(f[FirstOf(s)], g[s \ {FirstOf(s)}])
    OBVIOUS
  <2>1. Folded(h, Zero, g, s)
    BY <1>4
  <2>2. CASE s = {}
    BY <2>1, <2>2 DEF Folded
  <2>3. CASE s # {}
    <3>1. FirstOf(s) \in S /\ s \ {FirstOf(s)} \in SUBSET S
      BY <2>3, WithoutOne
    <3>2. g[s \ {FirstOf(s)}] \in V
      BY <3>1
    <3> QED
      BY <1>3, <2>1, <2>3, <3>1, <3>2 DEF Folded
  <2> QED
    BY <2>2, <2>3
<1>6. g = Body(g)
  BY <1>5
<1>7. iter = Body(iter)
  <2> HIDE DEF Body
  <2> QED
    BY <1>6
<1>8. \A s \in SUBSET S :
        iter[s] = IF s = {} THEN Zero ELSE Plus(f[FirstOf(s)], iter[s \ {FirstOf(s)}])
  <2> HIDE DEF iter
  <2> QED
    BY <1>7
<1> HIDE DEF iter
<1>9. iter[{}] = g[{}]
  BY <1>5, <1>8
<1>10. \A s \in SUBSET S :
         s # {} /\ iter[s \ {FirstOf(s)}] = g[s \ {FirstOf(s)}] => iter[s] = g[s]
  BY <1>5, <1>8
<1>11. iter[S] = g[S]
  BY <1>9, <1>10, FoldsAgree
<1> QED
  BY <1>1, <1>5, <1>11 DEF Summed

LEMMA SumIs ==
  ASSUME NEW S, IsFiniteSet(S), NEW f, \A x \in S : f[x] \in Fractions
  PROVE  /\ Sum(f, S) \in Fractions /\ (Sum(f, S)[1] = 0 => Sum(f, S) = Zero)
         /\ (\A x \in S : f[x][1] >= 0) => Sum(f, S)[1] >= 0
         /\ (\A x \in S : f[x][1] > 0) /\ S # {} => Sum(f, S)[1] > 0
<1>1. Sum(f, S) \in Fractions /\ (Sum(f, S)[1] = 0 => Sum(f, S) = Zero)
  <2>1. PICK g \in [SUBSET S -> Fractions] : Summed(g, f, S)
    <3>1. Closed(Fractions) /\ Within(f, S, Fractions)
      BY ZeroIs, PlusIs DEF Closed, Within
    <3> QED
      BY <3>1, SumSteps
  <2>2. CASE S = {}
    BY <2>1, <2>2 DEF Summed
  <2>3. CASE S # {}
    <3>1. FirstOf(S) \in S /\ S \ {FirstOf(S)} \in SUBSET S
      BY <2>3, WithoutOne
    <3>2. f[FirstOf(S)] \in Fractions /\ g[S \ {FirstOf(S)}] \in Fractions
      BY <3>1
    <3>3. Sum(f, S) = Plus(f[FirstOf(S)], g[S \ {FirstOf(S)}])
      BY <2>1, <2>3 DEF Summed
    <3> QED
      BY <3>2, <3>3, PlusIs
  <2> QED
    BY <2>2, <2>3
<1>2. ASSUME \A x \in S : f[x][1] >= 0 PROVE Sum(f, S)[1] >= 0 /\ ((\A x \in S : f[x][1] > 0) /\ S # {} => Sum(f, S)[1] > 0)
  <2> DEFINE V == {q \in Fractions : q[1] >= 0}
  <2>1. Closed(V) /\ Within(f, S, V)
    BY <1>2, ZeroIs, PlusIs DEF Closed, Within
  <2> HIDE DEF V
  <2>2. PICK g \in [SUBSET S -> V] : Summed(g, f, S)
    BY <2>1, SumSteps
  <2>3. Sum(f, S)[1] >= 0
    BY <2>2 DEF V, Summed
  <2>4. ASSUME \A x \in S : f[x][1] > 0, S # {} PROVE Sum(f, S)[1] > 0
    <3>1. FirstOf(S) \in S /\ S \ {FirstOf(S)} \in SUBSET S
      BY <2>4, WithoutOne
    <3>2. f[FirstOf(S)] \in Fractions /\ g[S \ {FirstOf(S)}] \in V /\ f[FirstOf(S)][1] > 0
      BY <2>4, <3>1
    <3>3. Sum(f, S) = Plus(f[FirstOf(S)], g[S \ {FirstOf(S)}])
      BY <2>2, <2>4 DEF Summed
    <3> QED
      BY <3>2, <3>3, PlusIs DEF V
  <2> QED
    BY <2>3, <2>4
<1>3. (\A x \in S : f[x][1] > 0) => \A x \in S : f[x][1] >= 0
  <2> SUFFICES ASSUME \A x \in S : f[x][1] > 0, NEW x \in S PROVE f[x][1] >= 0
    OBVIOUS
  <2>1. f[x][1] \in Int /\ f[x][1] > 0
    BY Parts
  <2> QED
    BY <2>1
<1> QED
  BY <1>1, <1>2, <1>3

(* A sum of log-probabilities is zero only if each of them is.             *)
LEMMA SumOfLogProbs ==
  ASSUME NEW S, IsFiniteSet(S), NEW f, \A x \in S : f[x] \in LogProbs, Sum(f, S)[1] = 0
  PROVE  \A x \in S : f[x][1] = 0
<1> DEFINE V == {q \in Fractions : q[1] <= 0}
<1>1. Closed(V) /\ Within(f, S, V)
  BY ZeroIs, PlusIs DEF LogProbs, Numbers, Closed, Within
<1>2. PICK g \in [SUBSET S -> V] : Summed(g, f, S)
  <2> HIDE DEF V
  <2> QED
    BY <1>1, SumSteps
<1> DEFINE Odd == {n \in Nat : \E s \in SUBSET S :
                     Cardinality(s) = n /\ g[s][1] = 0 /\ \E x \in s : f[x][1] # 0}
<1>3. Odd = {}
  <2> SUFFICES ASSUME Odd # {} PROVE FALSE
    OBVIOUS
  <2>1. PICK n \in Odd : \A k \in Odd : n <= k
    <3>1. Odd \in SUBSET Nat /\ Odd # {}
      OBVIOUS
    <3> HIDE DEF Odd
    <3> QED
      BY <3>1, LeastNumber
  <2>2. PICK s \in SUBSET S : Cardinality(s) = n /\ g[s][1] = 0 /\ \E x \in s : f[x][1] # 0
    BY <2>1
  <2> DEFINE e == FirstOf(s)
             r == s \ {FirstOf(s)}
  <2>3. /\ e \in S /\ e \in s /\ r \in SUBSET S
        /\ Cardinality(r) = n - 1 /\ n - 1 \in Nat /\ g[s] = Plus(f[e], g[r])
    BY <1>2, <2>2, WithoutOne DEF Summed
  <2>4. f[e] \in Fractions /\ f[e][1] <= 0 /\ g[r] \in Fractions /\ g[r][1] <= 0
    BY <2>3 DEF LogProbs, Numbers
  <2>5. f[e][1] \in Int /\ g[r][1] \in Int
    BY <2>4, Parts
  <2>6. f[e][1] = 0 /\ g[r][1] = 0
    <3>1. ~(f[e][1] < 0 \/ g[r][1] < 0)
      BY <2>2, <2>3, <2>4, PlusIs
    <3> QED
      BY <2>4, <2>5, <3>1
  <2>7. \E x \in r : f[x][1] # 0
    BY <2>2, <2>6
  <2>8. n - 1 \in Odd
    BY <2>3, <2>6, <2>7
  <2> QED
    BY <2>1, <2>3, <2>8
<1>4. Cardinality(S) \in Nat
  BY FS_CardinalityType
<1> QED
  BY <1>2, <1>3, <1>4 DEF Summed

(* Sums of fractions in lowest terms.                                      *)
Summable(f, S) == IsFiniteSet(S) /\ \A x \in S : f[x] \in Lowest

LEMMA ZeroLowest == Zero \in Lowest /\ One \in Lowest
<1>1. Coprime(0, 1) /\ Coprime(1, 1)
  <2> SUFFICES ASSUME NEW k \in Nat \ {0}, Multiple(1, k) PROVE k = 1
    BY DEF Coprime
  <2>1. k <= 1
    BY FactorOf
  <2> QED
    BY <2>1
<1> QED
  BY <1>1, ZeroIs DEF Lowest, Zero, One

LEMMA SubsetSummable ==
  ASSUME NEW f, NEW S, Summable(f, S), NEW s \in SUBSET S
  PROVE  Summable(f, s)
BY FS_Subset DEF Summable

(* A sum is its first element and the sum of the others.                   *)
LEMMA SumRecurs ==
  ASSUME NEW f, NEW S, Summable(f, S)
  PROVE  /\ Sum(f, {}) = Zero /\ Sum(f, S) \in Lowest
         /\ S # {} => /\ FirstOf(S) \in S /\ S \ {FirstOf(S)} \in SUBSET S
                      /\ Sum(f, S) = Plus(f[FirstOf(S)], Sum(f, S \ {FirstOf(S)}))
<1>1. ASSUME NEW T \in SUBSET S PROVE \E g \in [SUBSET T -> Lowest] : Summed(g, f, T)
  <2>1. IsFiniteSet(T) /\ Within(f, T, Lowest)
    BY <1>1, SubsetSummable DEF Summable, Within
  <2>2. Closed(Lowest)
    BY ZeroLowest, PlusLaws DEF Closed
  <2> QED
    BY <2>1, <2>2, SumSteps
<1>2. PICK g \in [SUBSET S -> Lowest] : Summed(g, f, S)
  BY <1>1
<1>3. Sum(f, {}) = Zero
  <2>1. PICK h \in [SUBSET {} -> Lowest] : Summed(h, f, {})
    BY <1>1
  <2> QED
    BY <2>1 DEF Summed
<1>4. Sum(f, S) \in Lowest
  BY <1>2 DEF Summed
<1>5. ASSUME S # {}
      PROVE  /\ FirstOf(S) \in S /\ S \ {FirstOf(S)} \in SUBSET S
             /\ Sum(f, S) = Plus(f[FirstOf(S)], Sum(f, S \ {FirstOf(S)}))
  <2> DEFINE T == S \ {FirstOf(S)}
  <2>1. FirstOf(S) \in S /\ T \in SUBSET S /\ IsFiniteSet(T)
    BY <1>5, FS_Subset DEF FirstOf, Summable
  <2>2. PICK h \in [SUBSET T -> Lowest] : Summed(h, f, T)
    BY <1>1, <2>1
  <2>3. g[T] = h[T]
    <3>1. g[{}] = h[{}]
      BY <1>2, <2>2 DEF Summed
    <3>2. \A s \in SUBSET T :
            s # {} /\ g[s \ {FirstOf(s)}] = h[s \ {FirstOf(s)}] => g[s] = h[s]
      BY <1>2, <2>1, <2>2 DEF Summed
    <3> HIDE DEF T
    <3> QED
      BY <2>1, <3>1, <3>2, FoldsAgree
  <2>4. Sum(f, S) = Plus(f[FirstOf(S)], g[T])
    BY <1>2, <1>5 DEF Summed
  <2>5. Sum(f, T) = h[T]
    BY <2>2 DEF Summed
  <2> QED
    BY <2>1, <2>3, <2>4, <2>5
<1> QED
  BY <1>3, <1>4, <1>5

(* Sums that agree element by element agree.                               *)
LEMMA SumsAgree ==
  ASSUME NEW f, NEW S, Summable(f, S), NEW G,
         G[{}] = Zero,
         \A s \in SUBSET S : s # {} /\ FirstOf(s) \in s /\ G[s \ {FirstOf(s)}] = Sum(f, s \ {FirstOf(s)})
                               => G[s] = Plus(f[FirstOf(s)], G[s \ {FirstOf(s)}])
  PROVE  Sum(f, S) = G[S]
<1> DEFINE F == [s \in SUBSET S |-> Sum(f, s)]
<1>1. F[{}] = G[{}]
  BY SumRecurs
<1>2. ASSUME NEW s \in SUBSET S, s # {}, F[s \ {FirstOf(s)}] = G[s \ {FirstOf(s)}]
      PROVE  F[s] = G[s]
  <2>1. Summable(f, s)
    BY SubsetSummable
  <2>2. FirstOf(s) \in s /\ s \ {FirstOf(s)} \in SUBSET s
        /\ Sum(f, s) = Plus(f[FirstOf(s)], Sum(f, s \ {FirstOf(s)}))
    BY <1>2, <2>1, SumRecurs
  <2>3. F[s \ {FirstOf(s)}] = Sum(f, s \ {FirstOf(s)}) /\ F[s] = Sum(f, s)
    BY <2>2
  <2> QED
    BY <1>2, <2>2, <2>3
<1>3. IsFiniteSet(S) /\ F[S] = Sum(f, S)
  BY DEF Summable
<1> HIDE DEF F
<1>4. F[S] = G[S]
  BY <1>1, <1>2, <1>3, FoldsAgree
<1> QED
  BY <1>3, <1>4

(* A sum depends on what it adds only.                                     *)
LEMMA SumAlike ==
  ASSUME NEW f, NEW S, Summable(f, S), NEW h, \A x \in S : h[x] = f[x]
  PROVE  Sum(h, S) = Sum(f, S) /\ Summable(h, S)
<1>1. Summable(h, S)
  BY DEF Summable
<1> DEFINE G == [s \in SUBSET S |-> Sum(f, s)]
<1>2. G[{}] = Zero
  BY SumRecurs
<1>3. \A s \in SUBSET S : s # {} /\ FirstOf(s) \in s /\ G[s \ {FirstOf(s)}] = Sum(h, s \ {FirstOf(s)})
                            => G[s] = Plus(h[FirstOf(s)], G[s \ {FirstOf(s)}])
  <2> SUFFICES ASSUME NEW s \in SUBSET S, s # {}
               PROVE  G[s] = Plus(h[FirstOf(s)], G[s \ {FirstOf(s)}])
    OBVIOUS
  <2>1. Summable(f, s)
    BY SubsetSummable
  <2> QED
    BY <2>1, SumRecurs
<1>4. G[S] = Sum(f, S)
  OBVIOUS
<1> HIDE DEF G
<1> QED
  BY <1>1, <1>2, <1>3, <1>4, SumsAgree

(* A common factor can be taken out of a sum.                              *)
LEMMA SumScaled ==
  ASSUME NEW f, NEW S, Summable(f, S), NEW c \in Lowest, NEW h, \A x \in S : h[x] = Times(c, f[x])
  PROVE  Sum(h, S) = Times(c, Sum(f, S)) /\ Summable(h, S)
<1>1. Summable(h, S)
  <2>1. \A x \in S : Times(c, f[x]) \in Lowest
    BY TimesLaws, SMTT(30) DEF Summable
  <2> QED
    BY <2>1 DEF Summable
<1> DEFINE G == [s \in SUBSET S |-> Times(c, Sum(f, s))]
<1>2. G[{}] = Zero
  <2>1. Times(c, Zero) = Zero
    BY ZeroLowest, TimesLaws
  <2> QED
    BY <2>1, SumRecurs
<1>3. \A s \in SUBSET S : s # {} /\ FirstOf(s) \in s /\ G[s \ {FirstOf(s)}] = Sum(h, s \ {FirstOf(s)})
                            => G[s] = Plus(h[FirstOf(s)], G[s \ {FirstOf(s)}])
  <2> SUFFICES ASSUME NEW s \in SUBSET S, s # {}
               PROVE  G[s] = Plus(h[FirstOf(s)], G[s \ {FirstOf(s)}])
    OBVIOUS
  <2> DEFINE x == FirstOf(s)
             r == s \ {x}
  <2>1. Summable(f, s)
    BY SubsetSummable
  <2>2. x \in s /\ r \in SUBSET s /\ Sum(f, s) = Plus(f[x], Sum(f, r))
    BY <2>1, SumRecurs
  <2>3. f[x] \in Lowest /\ Sum(f, r) \in Lowest /\ h[x] = Times(c, f[x])
    <3>1. Summable(f, r)
      BY <2>1, <2>2, SubsetSummable
    <3>2. Sum(f, r) \in Lowest
      BY <3>1, SumRecurs
    <3>3. x \in S
      BY <2>2
    <3> HIDE DEF x, r
    <3> QED
      BY <3>2, <3>3 DEF Summable
  <2> DEFINE y == f[x]
             z == Sum(f, r)
  <2>6. y \in Lowest /\ z \in Lowest
    BY <2>3
  <2> HIDE DEF y, z
  <2>7. Times(c, Plus(y, z)) = Plus(Times(c, y), Times(c, z))
    BY <2>6, TimesLaws
  <2>4. Times(c, Plus(f[x], Sum(f, r))) = Plus(Times(c, f[x]), Times(c, Sum(f, r)))
    BY <2>7 DEF y, z
  <2>5. G[s] = Times(c, Sum(f, s)) /\ G[r] = Times(c, Sum(f, r))
    BY <2>2
  <2> HIDE DEF G
  <2> QED
    BY <2>2, <2>3, <2>4, <2>5 DEF x, r
<1>4. G[S] = Times(c, Sum(f, S))
  OBVIOUS
<1> HIDE DEF G
<1> QED
  BY <1>1, <1>2, <1>3, <1>4, SumsAgree

LEMMA CountLowest ==
  ASSUME NEW n \in Nat
  PROVE  <<n, 1>> \in Lowest /\ Value(<<n, 1>>, n, 1)
<1>1. Coprime(n, 1)
  <2> SUFFICES ASSUME NEW k \in Nat \ {0}, Multiple(1, k) PROVE k = 1
    BY DEF Coprime
  <2>1. k <= 1
    BY FactorOf
  <2> QED
    BY <2>1
<1> QED
  BY <1>1 DEF Lowest, Fractions, Value

LEMMA CountPlus ==
  ASSUME NEW n \in Nat, NEW m \in Nat
  PROVE  Plus(<<n, 1>>, <<m, 1>>) = <<n + m, 1>>
<1>1. Value(Plus(<<n, 1>>, <<m, 1>>), n * 1 + m * 1, 1 * 1)
  BY CountLowest, PlusValue
<1> DEFINE k == n + m
<1>2. n * 1 + m * 1 = k /\ 1 * 1 = 1 /\ k \in Nat /\ k * 1 = k * 1
  OBVIOUS
<1>3. Value(Plus(<<n, 1>>, <<m, 1>>), k, 1)
  BY <1>1, <1>2
<1> HIDE DEF k
<1>4. Value(<<k, 1>>, k, 1)
  BY <1>2, CountLowest
<1>5. Plus(<<n, 1>>, <<m, 1>>) = <<k, 1>>
  BY <1>2, <1>3, <1>4, SameValue
<1> QED
  BY <1>5 DEF k

(* Adding the same number again and again multiplies it.                   *)
LEMMA SumOfSame ==
  ASSUME NEW f, NEW S, IsFiniteSet(S), NEW c \in Lowest, \A x \in S : f[x] = c
  PROVE  Sum(f, S) = Times(Count(S), c) /\ Summable(f, S) /\ Count(S) \in Lowest
<1>1. Summable(f, S)
  BY DEF Summable
<1> DEFINE G == [s \in SUBSET S |-> Times(Count(s), c)]
<1>2. G[{}] = Zero
  <2>1. Count({}) = Zero
    BY FS_EmptySet DEF Count, Zero
  <2>2. Times(Zero, c) = Zero
    BY TimesLaws
  <2> QED
    BY <2>1, <2>2
<1>3. \A s \in SUBSET S : s # {} /\ FirstOf(s) \in s /\ G[s \ {FirstOf(s)}] = Sum(f, s \ {FirstOf(s)})
                            => G[s] = Plus(f[FirstOf(s)], G[s \ {FirstOf(s)}])
  <2> SUFFICES ASSUME NEW s \in SUBSET S, s # {}
               PROVE  G[s] = Plus(f[FirstOf(s)], G[s \ {FirstOf(s)}])
    OBVIOUS
  <2> DEFINE x == FirstOf(s)
             r == s \ {x}
             n == Cardinality(s)
  <2>1. /\ x \in s /\ x \in S /\ r \in SUBSET S /\ n \in Nat
        /\ Cardinality(r) = n - 1 /\ n - 1 \in Nat
    BY WithoutOne
  <2>2. f[x] = c /\ G[s] = Times(<<n, 1>>, c) /\ G[r] = Times(<<n - 1, 1>>, c)
    BY <2>1 DEF Count
  <2> HIDE DEF n
  <2>3. <<n, 1>> = Plus(One, <<n - 1, 1>>) /\ <<n - 1, 1>> \in Lowest
    <3> DEFINE m == n - 1
    <3>1. m \in Nat /\ n = 1 + m
      BY <2>1
    <3> HIDE DEF m
    <3>2. Plus(<<1, 1>>, <<m, 1>>) = <<1 + m, 1>> /\ <<m, 1>> \in Lowest
      BY <3>1, CountPlus, CountLowest
    <3> QED
      BY <3>1, <3>2 DEF m, One
  <2>4. Times(c, Plus(One, <<n - 1, 1>>)) = Plus(Times(c, One), Times(c, <<n - 1, 1>>))
        /\ Times(c, One) = c
    BY <2>3, ZeroLowest, TimesLaws
  <2>5. <<n, 1>> \in Lowest
    BY <2>1, CountLowest
  <2>6. Times(<<n, 1>>, c) = Times(c, <<n, 1>>) /\ Times(<<n - 1, 1>>, c) = Times(c, <<n - 1, 1>>)
    BY <2>3, <2>5, TimesLaws
  <2> QED
    BY <2>2, <2>3, <2>4, <2>6
<1>4. G[S] = Times(Count(S), c)
  OBVIOUS
<1>5. Count(S) \in Lowest
  BY FS_CardinalityType, CountLowest DEF Count
<1> HIDE DEF G
<1> QED
  BY <1>1, <1>2, <1>3, <1>4, <1>5, SumsAgree

(* A sum is taken in any order.                                            *)
LEMMA SumApart ==
  ASSUME NEW f, NEW S, Summable(f, S)
  PROVE  \A x \in S : Sum(f, S) = Plus(f[x], Sum(f, S \ {x}))
<1> DEFINE Odd == {n \in Nat : \E s \in SUBSET S : /\ Cardinality(s) = n
                                                 /\ \E x \in s : Sum(f, s) # Plus(f[x], Sum(f, s \ {x}))}
<1>1. Odd = {}
  <2> SUFFICES ASSUME Odd # {} PROVE FALSE
    OBVIOUS
  <2>1. PICK n \in Odd : \A k \in Odd : n <= k
    <3>1. Odd \in SUBSET Nat /\ Odd # {}
      OBVIOUS
    <3> HIDE DEF Odd
    <3> QED
      BY <3>1, LeastNumber
  <2>2. PICK s \in SUBSET S : Cardinality(s) = n /\ \E x \in s : Sum(f, s) # Plus(f[x], Sum(f, s \ {x}))
    BY <2>1
  <2>3. PICK x \in s : Sum(f, s) # Plus(f[x], Sum(f, s \ {x}))
    BY <2>2
  <2> DEFINE y == FirstOf(s)
             r == s \ {y}
             u == s \ {x}
             v == (s \ {y}) \ {x}
  <2>4. Summable(f, s) /\ s # {}
    BY <2>2, SubsetSummable
  <2>5. y \in s /\ r \in SUBSET s /\ Sum(f, s) = Plus(f[y], Sum(f, r))
    BY <2>4, SumRecurs
  <2>6. x # y
    BY <2>3, <2>5
  <2>7. Sum(f, r) = Plus(f[x], Sum(f, v)) /\ Sum(f, u) = Plus(f[y], Sum(f, v))
    <3>1. IsFiniteSet(s) /\ Cardinality(s) = n /\ n \in Nat
      BY <2>2, <2>4 DEF Summable
    <3>2. Cardinality(r) = n - 1 /\ Cardinality(u) = n - 1 /\ n - 1 \in Nat
      <4>1. Cardinality(r) = n - 1 /\ Cardinality(u) = n - 1
        BY <2>5, <3>1, FS_RemoveElement
      <4>2. Cardinality(r) \in Nat
        <5>1. IsFiniteSet(r)
          BY <3>1, FS_RemoveElement
        <5> QED
          BY <5>1, FS_CardinalityType
      <4> QED
        BY <4>1, <4>2
    <3>3. n - 1 \notin Odd
      BY <2>1, <3>1, <3>2
    <3>4. r \in SUBSET S /\ u \in SUBSET S /\ x \in r /\ y \in u
      BY <2>5, <2>6
    <3>5. v = u \ {y} /\ v = r \ {x}
      OBVIOUS
    <3> HIDE DEF y, r, u, v
    <3>6. \A w \in SUBSET S : Cardinality(w) = n - 1 => \A z \in w : Sum(f, w) = Plus(f[z], Sum(f, w \ {z}))
      BY <3>2, <3>3
    <3>7. Sum(f, r) = Plus(f[x], Sum(f, r \ {x}))
      BY <3>2, <3>4, <3>6
    <3>8. Sum(f, u) = Plus(f[y], Sum(f, u \ {y}))
      BY <3>2, <3>4, <3>6
    <3> QED
      BY <3>5, <3>7, <3>8
  <2>8. f[x] \in Lowest /\ f[y] \in Lowest /\ Sum(f, v) \in Lowest
    <3>1. Summable(f, v)
      BY SubsetSummable
    <3>2. Sum(f, v) \in Lowest
      BY <3>1, SumRecurs
    <3> QED
      BY <2>4, <2>5, <3>2 DEF Summable
  <2>9. Plus(f[y], Plus(f[x], Sum(f, v))) = Plus(f[x], Plus(f[y], Sum(f, v)))
    <3> DEFINE a == f[x]
               b == f[y]
               c == Sum(f, v)
    <3> HIDE DEF a, b, c
    <3> SUFFICES ASSUME a \in Lowest, b \in Lowest, c \in Lowest
                 PROVE  Plus(b, Plus(a, c)) = Plus(a, Plus(b, c))
      BY <2>8 DEF a, b, c
    <3>1. Plus(b, Plus(a, c)) = Plus(Plus(b, a), c) /\ Plus(a, Plus(b, c)) = Plus(Plus(a, b), c)
      BY PlusLaws
    <3>2. Plus(a, b) = Plus(b, a)
      BY PlusLaws
    <3> QED
      BY <3>1, <3>2
  <2>10. Sum(f, s) = Plus(f[y], Sum(f, r)) /\ Sum(f, s) # Plus(f[x], Sum(f, u))
    BY <2>3, <2>5
  <2> HIDE DEF y, r, u, v
  <2> QED
    BY <2>7, <2>9, <2>10
<1>2. Cardinality(S) \in Nat
  BY FS_CardinalityType DEF Summable
<1> QED
  BY <1>1, <1>2

(* The sum of two sets without common elements.                            *)
LEMMA SumUnion ==
  ASSUME NEW f, NEW A, NEW B, Summable(f, A), Summable(f, B), A \cap B = {}
  PROVE  Sum(f, A \cup B) = Plus(Sum(f, A), Sum(f, B)) /\ Summable(f, A \cup B)
<1>1. Summable(f, A \cup B)
  BY FS_Union DEF Summable
<1> DEFINE F == [s \in SUBSET A |-> Sum(f, s \cup B)]
           G == [s \in SUBSET A |-> Plus(Sum(f, s), Sum(f, B))]
<1>2. Sum(f, B) \in Lowest /\ Sum(f, {}) = Zero
  BY SumRecurs
<1>3. F[{}] = G[{}]
  <2>1. Plus(Zero, Sum(f, B)) = Sum(f, B)
    BY <1>2, PlusLaws
  <2>2. {} \cup B = B
    OBVIOUS
  <2> QED
    BY <1>2, <2>1, <2>2
<1>4. ASSUME NEW s \in SUBSET A, s # {}, F[s \ {FirstOf(s)}] = G[s \ {FirstOf(s)}]
      PROVE  F[s] = G[s]
  <2> DEFINE x == FirstOf(s)
             r == s \ {x}
  <2>1. Summable(f, s)
    BY SubsetSummable
  <2>2. x \in s /\ r \in SUBSET s /\ Sum(f, s) = Plus(f[x], Sum(f, r))
    BY <1>4, <2>1, SumRecurs
  <2>3. F[r] = Sum(f, r \cup B) /\ F[s] = Sum(f, s \cup B)
        /\ G[r] = Plus(Sum(f, r), Sum(f, B)) /\ G[s] = Plus(Sum(f, s), Sum(f, B))
    BY <2>2
  <2>4. Sum(f, s \cup B) = Plus(f[x], Sum(f, r \cup B))
    <3>1. Summable(f, s \cup B) /\ x \in s \cup B /\ (s \cup B) \ {x} = r \cup B
      BY <1>1, <2>2, SubsetSummable
    <3> HIDE DEF x, r
    <3>2. Sum(f, s \cup B) = Plus(f[x], Sum(f, (s \cup B) \ {x}))
      BY <3>1, SumApart
    <3> QED
      BY <3>1, <3>2
  <2>5. f[x] \in Lowest /\ Sum(f, r) \in Lowest
    <3>1. Summable(f, r)
      BY <2>1, <2>2, SubsetSummable
    <3>2. Sum(f, r) \in Lowest
      BY <3>1, SumRecurs
    <3> QED
      BY <2>1, <2>2, <3>2 DEF Summable
  <2>6. Plus(f[x], Plus(Sum(f, r), Sum(f, B))) = Plus(Plus(f[x], Sum(f, r)), Sum(f, B))
    <3> DEFINE a == f[x]
               b == Sum(f, r)
               c == Sum(f, B)
    <3>1. a \in Lowest /\ b \in Lowest /\ c \in Lowest
      BY <1>2, <2>5
    <3> HIDE DEF a, b, c
    <3>2. Plus(a, Plus(b, c)) = Plus(Plus(a, b), c)
      BY <3>1, PlusLaws
    <3> QED
      BY <3>2 DEF a, b, c
  <2>7. F[r] = G[r]
    BY <1>4
  <2> HIDE DEF F, G, x, r
  <2> QED
    BY <2>2, <2>3, <2>4, <2>6, <2>7
<1>5. F[A] = Sum(f, A \cup B) /\ G[A] = Plus(Sum(f, A), Sum(f, B)) /\ IsFiniteSet(A)
  BY DEF Summable
<1> HIDE DEF F, G
<1>6. F[A] = G[A]
  BY <1>3, <1>4, <1>5, FoldsAgree
<1> QED
  BY <1>1, <1>5, <1>6

(* A permutation keeps a sum.                                              *)
LEMMA SumPermuted ==
  ASSUME NEW f, NEW S, Summable(f, S), NEW p \in [S -> S],
         \A x, y \in S : x # y => p[x] # p[y],
         NEW h, \A x \in S : h[x] = f[p[x]]
  PROVE  Sum(h, S) = Sum(f, S) /\ Summable(h, S)
<1>1. Summable(h, S)
  BY DEF Summable
<1> DEFINE Image(s) == {p[x] : x \in s}
           G == [s \in SUBSET S |-> Sum(f, Image(s))]
<1>2. G[{}] = Zero
  <2>1. Image({}) = {}
    OBVIOUS
  <2> QED
    BY <2>1, SumRecurs
<1>3. \A s \in SUBSET S : s # {} /\ FirstOf(s) \in s /\ G[s \ {FirstOf(s)}] = Sum(h, s \ {FirstOf(s)})
                            => G[s] = Plus(h[FirstOf(s)], G[s \ {FirstOf(s)}])
  <2> SUFFICES ASSUME NEW s \in SUBSET S, FirstOf(s) \in s
               PROVE  G[s] = Plus(h[FirstOf(s)], G[s \ {FirstOf(s)}])
    OBVIOUS
  <2> DEFINE x == FirstOf(s)
             r == s \ {x}
  <2>1. x \in S /\ r \in SUBSET S /\ h[x] = f[p[x]] /\ G[s] = Sum(f, Image(s)) /\ G[r] = Sum(f, Image(r))
    OBVIOUS
  <2>2. Image(s) \in SUBSET S /\ p[x] \in Image(s) /\ Image(s) \ {p[x]} = Image(r)
    OBVIOUS
  <2> HIDE DEF Image
  <2>3. Summable(f, Image(s))
    BY <2>2, SubsetSummable
  <2>4. Sum(f, Image(s)) = Plus(f[p[x]], Sum(f, Image(s) \ {p[x]}))
    BY <2>2, <2>3, SumApart
  <2> HIDE DEF G
  <2> QED
    BY <2>1, <2>2, <2>4
<1>4. Image(S) = S
  <2>1. p \in Injection(S, S)
    BY DEF Injection, IsInjective
  <2>2. p \in Surjection(S, S)
    BY <2>1, FS_Injection DEF Summable
  <2> QED
    BY <2>2 DEF Surjection
<1>5. G[S] = Sum(f, Image(S))
  OBVIOUS
<1> HIDE DEF G
<1>6. Sum(h, S) = G[S]
  BY <1>1, <1>2, <1>3, SumsAgree
<1> QED
  BY <1>1, <1>4, <1>5, <1>6

LEMMA ZeroOnly == ASSUME NEW q \in Lowest, q[1] = 0 PROVE q = Zero
<1>1. Value(Zero, 0, 1)
  BY ZeroLowest DEF Value, Zero
<1>2. Value(q, 0, q[2]) /\ q[2] \in Nat \ {0}
  BY ValueOf, LowestParts
<1>3. 0 * 1 = 0 * q[2]
  BY <1>2
<1> QED
  BY <1>1, <1>2, <1>3, SameValue

LEMMA MultipleNegated ==
  ASSUME NEW n \in Int, NEW k \in Nat \ {0}, Multiple(-n, k)
  PROVE  Multiple(n, k)
<1>1. PICK u \in Int : -n = u * k
  BY DEF Multiple
<1>2. n = (-u) * k /\ -u \in Int
  BY <1>1
<1> QED
  BY <1>2 DEF Multiple

LEMMA NegativeLowest == ASSUME NEW q \in Lowest PROVE <<-q[1], q[2]>> \in Lowest
<1> DEFINE a == q[1]
           b == q[2]
<1>1. a \in Int /\ b \in Nat \ {0} /\ Coprime(a, b)
  BY LowestParts DEF Lowest
<1> HIDE DEF a, b
<1>2. Coprime(-a, b)
  BY <1>1, MultipleNegated DEF Coprime
<1>3. <<-a, b>> \in Lowest
  BY <1>1, <1>2 DEF Lowest, Fractions
<1> QED
  BY <1>3 DEF a, b

(* Dividing undoes multiplying.                                            *)
LEMMA OverLaws ==
  ASSUME NEW p \in Lowest, NEW q \in Lowest, q # Zero
  PROVE  /\ Over(p, q) \in Lowest /\ Over(p, q) = Times(p, Over(One, q))
         /\ Over(One, q) \in Lowest /\ Times(Over(One, q), q) = One
         /\ Times(Over(p, q), q) = p
<1> DEFINE i == IF q[1] > 0 THEN <<q[2], q[1]>> ELSE <<-q[2], -q[1]>>
           a == q[1]
           b == q[2]
<1>1. a \in Int /\ b \in Nat \ {0} /\ a # 0 /\ Coprime(a, b)
  BY LowestParts, ZeroOnly DEF Lowest
<1>2. i[1] \in Int /\ i[2] \in Nat \ {0} /\ i[1] * a = i[2] * b /\ i \in Lowest
  <2>1. CASE a > 0
    <3>1. Coprime(b, a)
      BY <1>1 DEF Coprime
    <3>2. i = <<b, a>> /\ a \in Nat \ {0}
      BY <1>1, <2>1
    <3> HIDE DEF i, a, b
    <3> QED
      BY <1>1, <3>1, <3>2 DEF Lowest, Fractions
  <2>2. CASE a < 0
    <3>1. Coprime(-b, -a)
      <4>1. b \in Int
        BY <1>1
      <4> HIDE DEF a, b
      <4> SUFFICES ASSUME NEW k \in Nat \ {0}, Multiple(-b, k), Multiple(-a, k) PROVE k = 1
        BY DEF Coprime
      <4>2. Multiple(a, k) /\ Multiple(b, k)
        BY <1>1, <4>1, MultipleNegated
      <4> QED
        BY <1>1, <4>2 DEF Coprime
    <3>2. i = <<-b, -a>> /\ -a \in Nat \ {0} /\ -b \in Int
      BY <1>1, <2>2
    <3> HIDE DEF i, a, b
    <3>3. (-b) * a = (-a) * b
      BY <1>1
    <3> QED
      BY <1>1, <3>1, <3>2, <3>3 DEF Lowest, Fractions
  <2> QED
    BY <1>1, <2>1, <2>2
<1>3. ASSUME NEW r \in Lowest PROVE Over(r, q) = Times(r, i)
  BY DEF Over
<1> HIDE DEF i
<1>4. Times(i, q) = One
  <2> DEFINE n == i[1] * a
             d == i[2] * b
  <2>1. Value(i, i[1], i[2]) /\ Value(q, a, b)
    BY <1>2, ValueOf
  <2> HIDE DEF a, b
  <2>2. Value(Times(i, q), n, d)
    BY <1>1, <1>2, <2>1, TimesValue
  <2>3. n \in Int /\ d \in Nat \ {0} /\ n * 1 = 1 * d
    BY <1>1, <1>2
  <2>4. Value(One, 1, 1)
    BY ZeroLowest DEF Value, One
  <2> HIDE DEF n, d
  <2> QED
    BY <2>2, <2>3, <2>4, SameValue
<1>5. Over(One, q) = i
  BY <1>2, <1>3, ZeroLowest, TimesLaws
<1>6. Over(p, q) = Times(p, i) /\ Times(p, i) \in Lowest
  BY <1>2, <1>3, TimesLaws
<1>7. Times(Times(p, i), q) = Times(p, Times(i, q))
  BY <1>2, TimesLaws
<1>8. Times(p, One) = p
  BY ZeroLowest, TimesLaws
<1> QED
  BY <1>2, <1>4, <1>5, <1>6, <1>7, <1>8

LEMMA OverMoves ==
  ASSUME NEW p \in Lowest, NEW q \in Lowest, NEW r \in Lowest, r # Zero
  PROVE  Times(p, Over(q, r)) = Times(Over(p, r), q) /\ Times(p, Over(q, r)) \in Lowest
<1> DEFINE i == Over(One, r)
<1>1. i \in Lowest /\ Over(q, r) = Times(q, i) /\ Over(p, r) = Times(p, i)
  BY ZeroLowest, OverLaws
<1> HIDE DEF i
<1>2. Times(p, Times(q, i)) = Times(p, Times(i, q)) /\ Times(q, i) \in Lowest
  BY <1>1, TimesLaws
<1>3. Times(p, Times(i, q)) = Times(Times(p, i), q)
  BY <1>1, TimesLaws
<1>4. Times(p, Times(q, i)) \in Lowest
  BY <1>2, TimesLaws
<1> QED
  BY <1>1, <1>2, <1>3, <1>4

(* A difference added again is what it was taken from.                     *)
LEMMA MinusLaws ==
  ASSUME NEW p \in Lowest, NEW q \in Lowest
  PROVE  /\ Minus(p, q) \in Lowest /\ Plus(q, Minus(p, q)) = p /\ Minus(p, Zero) = p
<1> DEFINE m == <<-q[1], q[2]>>
           a == q[1]
           b == q[2]
<1>1. a \in Int /\ b \in Nat \ {0} /\ Coprime(a, b)
  BY LowestParts DEF Lowest
<1>2. m \in Lowest /\ Value(m, -a, b) /\ Value(q, a, b)
  <2>1. m \in Lowest
    BY NegativeLowest
  <2> QED
    BY <2>1, ValueOf
<1>3. Minus(p, q) = Plus(p, m)
  BY DEF Minus
<1>4. Plus(q, m) = Zero
  <2> DEFINE n == a * b + (-a) * b
             d == b * b
  <2>1. n \in Int /\ d \in Nat \ {0} /\ n * 1 = 0 * d
    BY <1>1
  <2>2. Value(Zero, 0, 1)
    BY ZeroLowest DEF Value, Zero
  <2> HIDE DEF a, b, m
  <2>3. Value(Plus(q, m), n, d)
    BY <1>1, <1>2, PlusValue
  <2> HIDE DEF n, d
  <2> QED
    BY <2>1, <2>2, <2>3, SameValue
<1> HIDE DEF m
<1>5. Plus(q, Plus(p, m)) = p
  <2>1. Plus(p, m) = Plus(m, p) /\ Plus(q, Plus(m, p)) = Plus(Plus(q, m), p)
    BY <1>2, PlusLaws
  <2>2. Plus(Zero, p) = p
    BY PlusLaws
  <2> QED
    BY <1>4, <2>1, <2>2
<1>6. Minus(p, Zero) = p
  <2>1. Minus(p, Zero) = Plus(p, Zero)
    BY DEF Minus, Zero
  <2>2. Plus(p, Zero) = Plus(Zero, p) /\ Plus(Zero, p) = p
    BY ZeroLowest, PlusLaws
  <2> QED
    BY <2>1, <2>2
<1>7. Minus(p, q) \in Lowest
  BY <1>2, <1>3, PlusLaws
<1> QED
  BY <1>3, <1>5, <1>6, <1>7

LEMMA AbsLowest ==
  ASSUME NEW q \in Lowest
  PROVE  /\ Abs(q) \in Lowest /\ Power(Abs(q), 0) = One /\ Power(Abs(q), 1) = Abs(q)
         /\ \A n \in 0..2 : Power(Abs(q), n) \in Lowest
<1>1. Abs(q) \in Lowest
  BY NegativeLowest DEF Abs
<1> QED
  BY <1>1, ZeroLowest, TimesLaws DEF Power

-------------------------------------------------------------------------------
(* What is computed of a micro-batch: nothing is divided by zero, and what *)
(* has which sign.                                                         *)
Token == [teacher : LogProbs \cup {Inf}, chunk : Int, student : LogProbs, mask : BOOLEAN]
LossInputs ==
  /\ IsFiniteSet(Tokens) /\ \A t \in Tokens : tokens[t] \in Token
  /\ has_ids \in BOOLEAN /\ setting \in LossSettings
  /\ stage \in {"credit", "clamp", "transform", "loss"}
AllFractions(f) == \A t \in Tokens : f[t] \in Fractions
WithinLimit == setting.limit = Inf \/ \A t \in Tokens : AtMost(Abs(delta[t]), setting.limit)
LossInv ==
  /\ LossInputs /\ AllFractions(target) /\ AllFractions(delta) /\ AllFractions(advantage)
  /\ WithinLimit
  /\ stage = "clamp" => \A t \in NoSignalFor : target[t] = Student[t]
  /\ stage = "clamp" /\ has_ids => \A t \in Valid : target[t] = Share(t)
  /\ stage \in {"transform", "loss"} => \A t \in NoSignalFor : delta[t] = Zero
  /\ PushedTogether /\ SentinelsInert

LEMMA InputsAre ==
  ASSUME LossInputs, NEW t \in Tokens
  PROVE  /\ Student[t] \in LogProbs /\ Student[t] = tokens[t].student /\ Teacher[t] \in LogProbs
         /\ t \in Valid => Teacher[t] = tokens[t].teacher
<1>1. tokens[t] \in Token
  BY DEF LossInputs
<1>2. tokens[t].student \in LogProbs /\ tokens[t].teacher \in LogProbs \cup {Inf}
  BY <1>1 DEF Token
<1>3. t \in NoSignalFor \/ tokens[t].teacher \in LogProbs
  BY <1>2 DEF NoSignalFor
<1> QED
  BY <1>2, <1>3 DEF Student, Teacher, Valid

LEMMA SubsetsFinite == ASSUME LossInputs, NEW S \in SUBSET Tokens PROVE IsFiniteSet(S)
BY FS_Subset DEF LossInputs

LEMMA CountIs ==
  ASSUME LossInputs, NEW S \in SUBSET Tokens, S # {}
  PROVE  Count(S) \in Fractions /\ Count(S)[1] > 0 /\ <<Cardinality(S), 1>> \in Fractions
         /\ Cardinality(S) > 0
<1>1. IsFiniteSet(S)
  BY SubsetsFinite
<1>2. Cardinality(S) \in Nat /\ Cardinality(S) # 0
  BY <1>1, FS_CardinalityType, FS_EmptySet
<1> QED
  BY <1>2 DEF Count, Fractions

(* A share is a log-probability over a number that is not zero.            *)
LEMMA ShareIs ==
  ASSUME LossInputs, NEW t \in Valid
  PROVE  Share(t) \in Fractions
<1> DEFINE T == Sum(Teacher, Chunk(t))
           P == Sum(Student, Chunk(t))
<1>1. t \in Chunk(t) /\ Chunk(t) \in SUBSET Tokens /\ t \in Tokens
  BY DEF Chunk, Valid
<1>2. IsFiniteSet(Chunk(t)) /\ \A u \in Chunk(t) : Teacher[u] \in Fractions /\ Student[u] \in Fractions
  BY <1>1, SubsetsFinite, InputsAre DEF LogProbs, Numbers
<1>3. T \in Fractions /\ P \in Fractions /\ (P[1] = 0 => P = Zero)
  BY <1>2, SumIs
<1>4. Share(t) = IF setting.rule = "uniform" \/ P = Zero
                 THEN Over(T, <<Cardinality(Chunk(t)), 1>>)
                 ELSE Times(Over(T, P), Student[t])
  BY DEF Share
<1> HIDE DEF T, P
<1>5. Over(T, <<Cardinality(Chunk(t)), 1>>) \in Fractions
  <2>1. <<Cardinality(Chunk(t)), 1>> \in Fractions /\ <<Cardinality(Chunk(t)), 1>>[1] # 0
    BY <1>1, CountIs
  <2> QED
    BY <1>3, <2>1, OverIs
<1>6. P # Zero => Times(Over(T, P), Student[t]) \in Fractions
  BY <1>1, <1>2, <1>3, OverIs, TimesIs
<1> QED
  BY <1>4, <1>5, <1>6

(* Limits.                                                                 *)
Limit(l) == l = Inf \/ (l \in Fractions /\ l[1] > 0)
LEMMA LimitIs == ASSUME LossInputs PROVE Limit(setting.limit)
BY LossAssumption DEF LossInputs, Limit, Numbers

(* The clamp keeps the sign and ends at the limit.                         *)
LEMMA ClampedIs ==
  ASSUME Limit(setting.limit), NEW q \in Fractions
  PROVE  /\ Clamped(q) \in Fractions
         /\ setting.limit = Inf \/ AtMost(Abs(Clamped(q)), setting.limit)
         /\ Sign(Clamped(q)) = Sign(q)
         /\ q = Zero => Clamped(q) = Zero
<1>1. CASE setting.limit = Inf
  BY <1>1 DEF Clamped
<1>2. CASE setting.limit # Inf
  <2> DEFINE l == setting.limit
             m == Minus(Zero, l)
  <2>1. l \in Fractions /\ l[1] > 0
    BY <1>2 DEF Limit
  <2>2. l[1] \in Int /\ l[2] \in Nat \ {0} /\ q[1] \in Int /\ q[2] \in Nat \ {0}
    BY <2>1, Parts
  <2>3. Clamped(q) = IF AtMost(l, q) THEN l ELSE IF AtMost(q, m) THEN m ELSE q
    BY <1>2 DEF Clamped
  <2>4. PICK g \in Nat \ {0}, a \in Int, b \in Nat \ {0} :
          m = <<a, b>> /\ -l[1] = a * g /\ l[2] = b * g
    <3>1. m = Reduced(-l[1], l[2])
      <4>1. 0 * l[2] + (-l[1]) * 1 = -l[1] /\ 1 * l[2] = l[2]
        BY <2>2
      <4> QED
        BY <4>1 DEF Minus, Plus, Zero
    <3>2. -l[1] \in Int
      BY <2>2
    <3> DEFINE k == -l[1]
    <3>3. \E g \in Nat \ {0}, a \in Int, b \in Nat \ {0} :
            Reduced(k, l[2]) = <<a, b>> /\ k = a * g /\ l[2] = b * g
      <4> HIDE DEF k, l, m
      <4>1. k \in Int /\ l[2] \in Nat \ {0}
        BY <2>2, <3>2 DEF k
      <4>2. PICK g \in Nat \ {0}, a \in Int, b \in Nat \ {0} :
              Reduced(k, l[2]) = <<a, b>> /\ k = a * g /\ l[2] = b * g /\ (k = 0 => a = 0 /\ b = 1)
        BY <4>1, Reduction DEF ReducedFrom
      <4> QED
        BY <4>2
    <3> QED
      BY <3>1, <3>3
  <2> DEFINE n == l[1]
             d == l[2]
             x == q[1]
             y == q[2]
  <2>5. /\ n \in Nat \ {0} /\ d \in Nat \ {0} /\ x \in Int /\ y \in Nat \ {0}
        /\ AtMost(l, q) <=> (n * y <= x * d)
        /\ AtMost(q, m) <=> (x * b <= a * y)
        /\ AtMost(q, l) <=> (x * d <= n * y)
        /\ AtMost(<<-x, y>>, l) <=> ((-x) * d <= n * y)
        /\ AtMost(<<-a, b>>, l) <=> ((-a) * d <= n * b)
        /\ AtMost(l, l) <=> (n * d <= n * d)
    BY <2>1, <2>2, <2>4 DEF AtMost
  <2>6. /\ Abs(l) = l /\ Abs(m) = (IF a < 0 THEN <<-a, b>> ELSE m)
        /\ Abs(q) = (IF x < 0 THEN <<-x, y>> ELSE q)
        /\ Sign(l) = 1 /\ Sign(q) = (IF x > 0 THEN 1 ELSE IF x < 0 THEN -1 ELSE 0)
        /\ Sign(m) = (IF a > 0 THEN 1 ELSE IF a < 0 THEN -1 ELSE 0)
        /\ m \in Fractions /\ (q = Zero => x = 0)
    BY <2>1, <2>2, <2>4, <2>5 DEF Abs, Sign, Fractions, Zero
  <2>7. -n = a * g /\ d = b * g
    BY <2>4
  <2> HIDE DEF l, m, n, d, x, y
  <2>8. a < 0
    <3> SUFFICES ASSUME a >= 0 PROVE FALSE
      OBVIOUS
    <3>1. a * g >= 0
      OBVIOUS
    <3> QED
      BY <2>5, <2>7, <3>1
  <2>9. n * y > 0 /\ n * y \in Int /\ a * y < 0 /\ a * y \in Int
    BY <2>5, <2>8
  <2>10. CASE AtMost(l, q)
    <3>1. x > 0
      <4> SUFFICES ASSUME x <= 0 PROVE FALSE
        BY <2>5
      <4>1. x * d <= 0 /\ x * d \in Int
        BY <2>5
      <4> QED
        BY <2>5, <2>9, <2>10, <4>1
    <3>2. Clamped(q) = l
      BY <2>3, <2>10
    <3>3. AtMost(l, l)
      BY <2>5
    <3> QED
      BY <2>1, <2>5, <2>6, <3>1, <3>2, <3>3 DEF l
  <2>11. CASE ~AtMost(l, q) /\ AtMost(q, m)
    <3>1. x < 0
      <4> SUFFICES ASSUME x >= 0 PROVE FALSE
        BY <2>5
      <4>1. x * b >= 0 /\ x * b \in Int
        BY <2>5
      <4> QED
        BY <2>5, <2>9, <2>11, <4>1
    <3>2. Clamped(q) = m
      BY <2>3, <2>11
    <3>3. (-a) * d = n * b
      <4>1. (-a) * (b * g) = (-(a * g)) * b
        OBVIOUS
      <4>2. a * g \in Int /\ -(a * g) = n
        BY <2>5, <2>7
      <4> QED
        BY <2>7, <4>1, <4>2
    <3>4. (-a) * d \in Int
      BY <2>5
    <3>5. AtMost(<<-a, b>>, l)
      BY <2>5, <3>3, <3>4
    <3>6. AtMost(Abs(Clamped(q)), l) /\ Sign(Clamped(q)) = Sign(q)
      BY <2>5, <2>6, <2>8, <3>1, <3>2, <3>5
    <3> QED
      BY <2>6, <3>1, <3>2, <3>6 DEF l
  <2>12. CASE ~AtMost(l, q) /\ ~AtMost(q, m)
    <3>1. Clamped(q) = q
      BY <2>3, <2>12
    <3>2. n * y > x * d
      BY <2>5, <2>12
    <3>3. (-x) * d <= n * y
      <4>1. x * b > a * y
        BY <2>5, <2>12
      <4> DEFINE e == x * b
                 f == a * y
      <4>2. e \in Int /\ f \in Int /\ e > f
        BY <2>5, <4>1
      <4>3. e * g = x * d
        <5>1. (x * b) * g = x * (b * g)
          BY <2>5
        <5> QED
          BY <2>7, <5>1
      <4>4. f * g = -(n * y)
        <5>1. (a * y) * g = (a * g) * y
          BY <2>5
        <5>2. (-n) * y = -(n * y)
          BY <2>5
        <5> QED
          BY <2>7, <5>1, <5>2
      <4> HIDE DEF e, f
      <4>5. e * g >= f * g
        BY <4>2
      <4>6. (-x) * d = -(x * d) /\ x * d \in Int /\ n * y \in Int
        BY <2>5
      <4> QED
        BY <4>3, <4>4, <4>5, <4>6
    <3>4. x * d <= n * y
      <4>1. x * d \in Int
        BY <2>5
      <4> QED
        BY <2>9, <3>2, <4>1
    <3>5. AtMost(Abs(q), l)
      BY <2>5, <2>6, <3>3, <3>4
    <3> QED
      BY <3>1, <3>5 DEF l
  <2> QED
    BY <2>10, <2>11, <2>12
<1> QED
  BY <1>1, <1>2

LEMMA SignIs ==
  ASSUME NEW q \in Fractions
  PROVE  /\ Sign(q) \in {-1, 0, 1}
         /\ Sign(q) > 0 <=> q[1] > 0
         /\ Sign(q) < 0 <=> q[1] < 0
         /\ Sign(q) = 0 <=> q[1] = 0
BY Parts DEF Sign

(* What a student's log-probability is multiplied by decides which way the *)
(* token is pushed.                                                        *)
LEMMA ScaledPushes ==
  ASSUME NEW R \in Fractions, NEW s \in LogProbs
  PROVE  Sign(Minus(Times(R, s), s)) =
           IF s[1] = 0 THEN 0 ELSE IF R[1] < R[2] THEN 1 ELSE IF R[1] > R[2] THEN -1 ELSE 0
<1> DEFINE u == R[1]
           v == R[2]
           x == s[1]
           y == s[2]
<1>1. u \in Int /\ v \in Nat \ {0} /\ x \in Int /\ y \in Nat \ {0} /\ x <= 0
  BY Parts DEF LogProbs, Numbers
<1>2. Times(R, s) = Reduced(u * x, v * y)
  BY DEF Times
<1> HIDE DEF u, v, x, y
<1>3. PICK g \in Nat \ {0}, a \in Int, b \in Nat \ {0} :
        Reduced(u * x, v * y) = <<a, b>> /\ u * x = a * g /\ v * y = b * g
  <2>1. u * x \in Int /\ v * y \in Nat \ {0}
    BY <1>1
  <2>2. PICK g \in Nat \ {0}, a \in Int, b \in Nat \ {0} :
          /\ Reduced(u * x, v * y) = <<a, b>> /\ u * x = a * g /\ v * y = b * g
          /\ (u * x = 0 => a = 0 /\ b = 1)
    BY <2>1, Reduction DEF ReducedFrom
  <2> QED
    BY <2>2
<1> DEFINE n == a * y + (-x) * b
           d == b * y
<1>4. Minus(Times(R, s), s) = Reduced(n, d)
  BY <1>2, <1>3 DEF Minus, Plus, x, y
<1>5. n \in Int /\ d \in Nat \ {0}
  BY <1>1
<1>6. n * g = (x * y) * (u - v)
  <2>1. n * g = (a * g) * y - x * (b * g)
    <3>1. n * g = (a * y) * g + ((-x) * b) * g
      BY <1>1
    <3>2. (a * y) * g = (a * g) * y /\ ((-x) * b) * g = -(x * (b * g))
      BY <1>1
    <3>3. (a * g) * y \in Int /\ x * (b * g) \in Int
      BY <1>1
    <3> QED
      BY <3>1, <3>2, <3>3
  <2>2. (u * x) * y - x * (v * y) = (x * y) * (u - v)
    BY <1>1
  <2> QED
    BY <1>3, <2>1, <2>2
<1> HIDE DEF n, d
<1>7. Reduced(n, d) \in Fractions /\ (n = 0 => Reduced(n, d) = Zero)
      /\ (n > 0 <=> Reduced(n, d)[1] > 0) /\ (n < 0 <=> Reduced(n, d)[1] < 0)
  BY <1>5, ReducedIs
<1>8. (n > 0 => n * g > 0) /\ (n < 0 => n * g < 0) /\ (n = 0 => n * g = 0)
  BY <1>5
<1>9. Sign(Reduced(n, d)) = IF n > 0 THEN 1 ELSE IF n < 0 THEN -1 ELSE 0
  BY <1>7 DEF Sign
<1> DEFINE w == x * y
           m == u - v
<1>10. w \in Int /\ m \in Int /\ (x = 0 => w = 0) /\ (x < 0 => w < 0)
  BY <1>1
<1>11. m < 0 <=> u < v
  BY <1>1
<1>12. m > 0 <=> u > v
  BY <1>1
<1>13. n * g = w * m
  BY <1>6
<1> HIDE DEF w, m
<1>14. /\ w = 0 => w * m = 0
       /\ w < 0 /\ m < 0 => w * m > 0
       /\ w < 0 /\ m > 0 => w * m < 0
       /\ m = 0 => w * m = 0
  BY <1>10
<1>15. IF x = 0 THEN n = 0 ELSE IF u < v THEN n > 0 ELSE IF u > v THEN n < 0 ELSE n = 0
  <2>1. w * m \in Int /\ n \in Int
    BY <1>5, <1>10
  <2>2. x = 0 \/ x < 0
    BY <1>1
  <2>3. m < 0 \/ m > 0 \/ m = 0
    BY <1>10
  <2> QED
    BY <1>8, <1>10, <1>11, <1>12, <1>13, <1>14, <2>1, <2>2, <2>3
<1>16. Sign(Minus(Times(R, s), s)) = IF n > 0 THEN 1 ELSE IF n < 0 THEN -1 ELSE 0
  BY <1>4, <1>9
<1> QED
  BY <1>5, <1>15, <1>16 DEF u, v, x

LEMMA LessNothing ==
  ASSUME NEW p \in Fractions, NEW q \in Fractions, q[1] = 0
  PROVE  Sign(Minus(p, q)) = Sign(p)
<1> DEFINE a == p[1]
           b == p[2]
           d == q[2]
           n == a * d + (-0) * b
<1>1. a \in Int /\ b \in Nat \ {0} /\ d \in Nat \ {0}
  BY Parts
<1>2. Minus(p, q) = Reduced(n, b * d)
  BY DEF Minus, Plus
<1> HIDE DEF a, b, d
<1>3. n = a * d /\ n \in Int /\ b * d \in Nat \ {0}
  BY <1>1
<1>4. (a > 0 => a * d > 0) /\ (a < 0 => a * d < 0) /\ (a = 0 => a * d = 0)
  BY <1>1
<1> HIDE DEF n
<1>5. Reduced(n, b * d) \in Fractions /\ (n = 0 => Reduced(n, b * d) = Zero)
      /\ (n > 0 <=> Reduced(n, b * d)[1] > 0) /\ (n < 0 <=> Reduced(n, b * d)[1] < 0)
  BY <1>3, ReducedIs
<1>6. Sign(Reduced(n, b * d)) = IF n > 0 THEN 1 ELSE IF n < 0 THEN -1 ELSE 0
  BY <1>5 DEF Sign
<1>7. Sign(p) = IF a > 0 THEN 1 ELSE IF a < 0 THEN -1 ELSE 0
  BY DEF Sign, a
<1> QED
  BY <1>1, <1>2, <1>3, <1>4, <1>6, <1>7

(* By the rule "semantic" the tokens of a chunk are pushed one way.        *)
LEMMA ChunkPushed ==
  ASSUME LossInputs, setting.rule = "semantic", NEW t \in Valid, NEW u \in Valid,
         tokens[t].chunk = tokens[u].chunk, t[1] = u[1]
  PROVE  Sign(Minus(Share(t), Student[t])) * Sign(Minus(Share(u), Student[u])) >= 0
<1> DEFINE c == Chunk(t)
           T == Sum(Teacher, c)
           P == Sum(Student, c)
<1>1. Chunk(u) = c /\ t \in c /\ u \in c /\ c \in SUBSET Tokens
  BY DEF Chunk, Valid
<1>2. IsFiniteSet(c)
  BY <1>1, SubsetsFinite
<1>3. \A x \in c : Student[x] \in LogProbs /\ Student[x] \in Fractions /\ Teacher[x] \in Fractions
  BY <1>1, InputsAre DEF LogProbs, Numbers
<1>4. T \in Fractions /\ P \in Fractions /\ (P[1] = 0 => P = Zero)
  BY <1>2, <1>3, SumIs
<1>5. CASE P = Zero
  <2> DEFINE X == Over(T, <<Cardinality(c), 1>>)
  <2>1. Share(t) = X /\ Share(u) = X
    BY <1>1, <1>5 DEF Share
  <2>2. <<Cardinality(c), 1>> \in Fractions /\ <<Cardinality(c), 1>>[1] # 0
    BY <1>1, CountIs
  <2>3. X \in Fractions
    BY <1>4, <2>2, OverIs
  <2>4. Student[t][1] = 0 /\ Student[u][1] = 0
    <3>1. P[1] = 0
      BY <1>5, ZeroIs
    <3> QED
      BY <1>1, <1>2, <1>3, <3>1, SumOfLogProbs
  <2> HIDE DEF X
  <2>5. Sign(Minus(X, Student[t])) = Sign(X) /\ Sign(Minus(X, Student[u])) = Sign(X)
    BY <1>1, <1>3, <2>3, <2>4, LessNothing
  <2>6. Sign(X) \in {-1, 0, 1}
    BY <2>3, SignIs
  <2> QED
    BY <2>1, <2>5, <2>6
<1>6. CASE P # Zero
  <2> DEFINE R == Over(T, P)
  <2>1. Share(t) = Times(R, Student[t]) /\ Share(u) = Times(R, Student[u])
    BY <1>1, <1>6 DEF Share
  <2>2. R \in Fractions
    BY <1>4, <1>6, OverIs
  <2>3. R[1] \in Int /\ R[2] \in Int
    BY <2>2, Parts
  <2> HIDE DEF R
  <2> DEFINE way == IF R[1] < R[2] THEN 1 ELSE IF R[1] > R[2] THEN -1 ELSE 0
  <2>4. Sign(Minus(Share(t), Student[t])) \in {0, way}
    BY <1>1, <1>3, <2>1, <2>2, ScaledPushes
  <2>5. Sign(Minus(Share(u), Student[u])) \in {0, way}
    BY <1>1, <1>3, <2>1, <2>2, ScaledPushes
  <2>6. way \in {-1, 0, 1}
    OBVIOUS
  <2> HIDE DEF way
  <2> QED
    BY <2>4, <2>5, <2>6
<1> QED
  BY <1>5, <1>6

(* The magnitudes of the transforms are fractions, and not negative.       *)
NotNegative(q) == q \in Fractions /\ q[1] >= 0
IsPositive(q) == q \in Fractions /\ q[1] > 0

LEMMA GroupsOf ==
  ASSUME LossInputs, NEW d, AllFractions(d)
  PROVE  /\ Positive(d) \in SUBSET Tokens /\ Negative(d) \in SUBSET Tokens
         /\ Moved(d) \in SUBSET Tokens
         /\ \A t \in Moved(d) : GroupOf(d, t) \in SUBSET Moved(d) /\ t \in GroupOf(d, t)
         /\ \A t \in Moved(d) : Magnitudes(d)[t] = Abs(d[t]) /\ IsPositive(Abs(d[t]))
         /\ \A t \in Moved(d) : Sign(d[t]) \in {-1, 1}
<1>1. \A t \in Tokens : d[t] \in Fractions
  BY DEF AllFractions
<1>2. \A t \in Moved(d) : t \in Tokens /\ Sign(d[t]) \in {-1, 1} /\ d[t][1] # 0
  BY <1>1, SignIs DEF Moved, Positive, Negative
<1>3. \A t \in Moved(d) : IsPositive(Abs(d[t]))
  BY <1>1, <1>2, AbsIs DEF IsPositive
<1>4. \A t \in Moved(d) : Magnitudes(d)[t] = Abs(d[t])
  BY <1>2 DEF Magnitudes
<1>5. \A t \in Moved(d) : GroupOf(d, t) \in SUBSET Moved(d) /\ t \in GroupOf(d, t)
  BY DEF GroupOf, Moved, Positive, Negative
<1> QED
  BY <1>2, <1>3, <1>4, <1>5 DEF Moved, Positive, Negative

LEMMA StrengthIs ==
  ASSUME LossInputs, NEW d, AllFractions(d), NEW g \in SUBSET Moved(d)
  PROVE  NotNegative(Strength(d, g)) /\ (g # {} => IsPositive(Strength(d, g)))
<1>1. IsFiniteSet(g) /\ \A u \in g : Magnitudes(d)[u] \in Fractions /\ Magnitudes(d)[u][1] > 0
  BY GroupsOf, SubsetsFinite DEF IsPositive
<1>2. \A u \in g : Magnitudes(d)[u][1] >= 0
  BY <1>1, Parts
<1>3. Sum(Magnitudes(d), g) \in Fractions /\ Sum(Magnitudes(d), g)[1] >= 0
      /\ (g # {} => Sum(Magnitudes(d), g)[1] > 0)
  BY <1>1, <1>2, SumIs
<1> QED
  BY <1>3 DEF Strength, NotNegative, IsPositive

(* An allocation is no negative number, and no division by zero.           *)
LEMMA AllocIs ==
  ASSUME LossInputs, NEW d, AllFractions(d), NEW t \in Moved(d), NEW alpha \in 0..2
  PROVE  NotNegative(Alloc(d, GroupOf(d, t), t, alpha))
<1> DEFINE g == GroupOf(d, t)
           f == [u \in g |-> Power(Abs(d[u]), alpha)]
<1>1. g \in SUBSET Moved(d) /\ t \in g /\ IsFiniteSet(g)
  BY GroupsOf, SubsetsFinite
<1>2. \A u \in g : Abs(d[u]) \in Fractions /\ Abs(d[u])[1] > 0 /\ Abs(d[u])[1] >= 0
  <2>1. \A u \in g : Abs(d[u]) \in Fractions /\ Abs(d[u])[1] > 0
    BY <1>1, GroupsOf DEF IsPositive
  <2> QED
    BY <2>1, Parts
<1>3. \A u \in g : f[u] \in Fractions /\ f[u][1] > 0
  BY <1>2, PowerIs
<1>4. Power(Abs(d[t]), alpha) \in Fractions /\ Power(Abs(d[t]), alpha)[1] >= 0
  BY <1>1, <1>2, PowerIs
<1>5. Alloc(d, g, t, alpha) = Over(Power(Abs(d[t]), alpha), Sum(f, g))
  BY DEF Alloc
<1> HIDE DEF f, g
<1>6. Sum(f, g) \in Fractions /\ Sum(f, g)[1] > 0
  BY <1>1, <1>3, SumIs
<1>7. Sum(f, g)[1] # 0
  BY <1>6
<1>8. Over(Power(Abs(d[t]), alpha), Sum(f, g)) \in Fractions
      /\ Over(Power(Abs(d[t]), alpha), Sum(f, g))[1] >= 0
  BY <1>4, <1>6, <1>7, OverIs
<1> QED
  BY <1>5, <1>8 DEF NotNegative, g

LEMMA QuotientIs ==
  ASSUME NEW p, NotNegative(p), NEW q, IsPositive(q)
  PROVE  NotNegative(Over(p, q))
<1>1. q[1] # 0
  BY DEF IsPositive
<1> QED
  BY <1>1, OverIs DEF NotNegative, IsPositive

LEMMA ProductIs ==
  ASSUME NEW p, NotNegative(p), NEW q, NotNegative(q)
  PROVE  NotNegative(Times(p, q))
BY TimesIs DEF NotNegative

LEMMA PositiveIs == ASSUME NEW q, IsPositive(q) PROVE NotNegative(q)
BY Parts DEF NotNegative, IsPositive

(* However far the sweep is taken, a group's part is between none and all. *)
LEMMA PositiveShareIs ==
  ASSUME LossInputs, NEW d, AllFractions(d), Moved(d) # {}, NEW beta \in Fractions
  PROVE  NotNegative(PositiveShare(d, beta)) /\ NotNegative(Minus(One, PositiveShare(d, beta)))
<1> DEFINE r == Interpolated(d, beta)
<1>1. r \in Fractions
  <2>1. Positive(d) \in SUBSET Moved(d) /\ Moved(d) \in SUBSET Moved(d)
    BY DEF Moved
  <2>2. /\ NotNegative(Strength(d, Positive(d))) /\ IsPositive(Strength(d, Moved(d)))
    BY <2>1, StrengthIs
  <2>3. Moved(d) \in SUBSET Tokens /\ Positive(d) \in SUBSET Tokens
    BY GroupsOf
  <2>4. IsPositive(Count(Moved(d)))
    BY <2>3, CountIs DEF IsPositive
  <2>5. Count(Positive(d)) \in Fractions
    <3>1. IsFiniteSet(Positive(d))
      BY <2>3, SubsetsFinite
    <3>2. Cardinality(Positive(d)) \in Nat
      BY <3>1, FS_CardinalityType
    <3> QED
      BY <3>2 DEF Count, Fractions
  <2>6. Over(Strength(d, Positive(d)), Strength(d, Moved(d))) \in Fractions
    <3>1. Strength(d, Moved(d))[1] # 0 /\ Strength(d, Moved(d)) \in Fractions
      BY <2>2 DEF IsPositive
    <3> QED
      BY <2>2, <3>1, OverIs DEF NotNegative
  <2>7. Over(Count(Positive(d)), Count(Moved(d))) \in Fractions
    <3>1. Count(Moved(d))[1] # 0 /\ Count(Moved(d)) \in Fractions
      BY <2>4 DEF IsPositive
    <3> QED
      BY <2>5, <3>1, OverIs
  <2>8. Minus(One, beta) \in Fractions
    BY ZeroIs, MinusIs
  <2>9. /\ Times(beta, Over(Strength(d, Positive(d)), Strength(d, Moved(d)))) \in Fractions
        /\ Times(Minus(One, beta), Over(Count(Positive(d)), Count(Moved(d)))) \in Fractions
    BY <2>6, <2>7, <2>8, TimesIs
  <2> QED
    BY <2>9, PlusIs DEF Interpolated
<1>2. PositiveShare(d, beta) = IF AtMost(r, Zero) THEN Zero ELSE IF AtMost(One, r) THEN One ELSE r
  BY DEF PositiveShare
<1> HIDE DEF r
<1>3. NotNegative(Zero) /\ NotNegative(One)
  BY DEF NotNegative, Zero, One, Fractions
<1>4. NotNegative(Minus(One, Zero)) /\ NotNegative(Minus(One, One))
  <2>1. Minus(One, One) = Zero
    BY ZeroIs, MinusIs
  <2>2. Minus(One, Zero) = Reduced(1, 1)
    BY DEF Minus, Plus, One, Zero
  <2>3. Reduced(1, 1) \in Fractions /\ Reduced(1, 1)[1] > 0
    BY ReducedIs
  <2>4. Reduced(1, 1)[1] >= 0
    BY <2>3, Parts
  <2> QED
    BY <1>3, <2>1, <2>2, <2>3, <2>4 DEF NotNegative
<1>5. ASSUME ~AtMost(r, Zero), ~AtMost(One, r) PROVE NotNegative(r) /\ NotNegative(Minus(One, r))
  <2> DEFINE u == r[1]
             v == r[2]
  <2>1. u \in Int /\ v \in Nat \ {0}
    BY <1>1, Parts
  <2>2. u > 0 /\ u < v
    BY <1>5, <2>1 DEF AtMost, Zero, One
  <2>3. Minus(One, r) = Reduced(1 * v + (-u) * 1, 1 * v)
    BY DEF Minus, Plus, One
  <2> HIDE DEF u, v
  <2> DEFINE w == v - u
  <2>4. 1 * v + (-u) * 1 = w /\ 1 * v = v /\ w \in Int /\ w > 0
    BY <2>1, <2>2
  <2> HIDE DEF w
  <2>5. Reduced(w, v) \in Fractions /\ Reduced(w, v)[1] > 0
    BY <2>1, <2>4, ReducedIs
  <2>6. Reduced(w, v)[1] >= 0
    BY <2>5, Parts
  <2> QED
    BY <1>1, <2>1, <2>2, <2>3, <2>4, <2>5, <2>6 DEF NotNegative, u
<1> QED
  BY <1>2, <1>3, <1>4, <1>5

(* No new magnitude is negative.                                           *)
LEMMA MagnitudeIs ==
  ASSUME LossInputs, NEW d, AllFractions(d), NEW t \in Moved(d),
         NEW p, setting.mode = "perm" => p \in Permuted(d)
  PROVE  NotNegative(NewMagnitude(d, t, setting.mode, setting.param, p))
<1> DEFINE g == GroupOf(d, t)
           way == setting.mode
           param == setting.param
           c == Over(Strength(d, Moved(d)), Count(Moved(d)))
<1>1. g \in SUBSET Moved(d) /\ t \in g /\ Moved(d) \in SUBSET Tokens /\ g \in SUBSET Tokens
  BY GroupsOf
<1>2. \A u \in Moved(d) : IsPositive(Abs(d[u])) /\ NotNegative(Abs(d[u]))
  BY GroupsOf, PositiveIs
<1>3. /\ IsPositive(Strength(d, g)) /\ NotNegative(Strength(d, g))
      /\ IsPositive(Strength(d, Moved(d))) /\ NotNegative(Strength(d, Moved(d)))
  BY <1>1, StrengthIs
<1>4. IsPositive(Count(g)) /\ NotNegative(Count(g)) /\ IsPositive(Count(Moved(d)))
  <2>1. IsPositive(Count(g)) /\ IsPositive(Count(Moved(d)))
    BY <1>1, CountIs DEF IsPositive
  <2> QED
    BY <2>1, PositiveIs
<1>5. setting \in LossSettings
  BY DEF LossInputs
<1>6. NewMagnitude(d, t, way, param, p) =
        CASE way = "raw"                 -> Abs(d[t])
          [] way = "perm"                -> Abs(d[p[t]])
          [] way = "group_const"         -> Over(Strength(d, g), Count(g))
          [] way = "sign"                -> One
          [] way = "dctv"                -> param
          [] way = "power"               -> Power(Abs(d[t]), param)
          [] way = "sign_mass_raw_alloc" -> Times(Times(c, Count(g)), Alloc(d, g, t, 1))
          [] way = "alloc_power"         -> Times(Strength(d, g), Alloc(d, g, t, param))
          [] way = "strength_interp"     -> InterpStrength(d, g, param)
  BY DEF NewMagnitude
<1>7. \A alpha \in 0..2 : NotNegative(Alloc(d, g, t, alpha))
  BY AllocIs
<1> HIDE DEF g
<1>8. NotNegative(c)
  BY <1>3, <1>4, QuotientIs
<1>9. CASE way = "raw"
  BY <1>2, <1>6, <1>9
<1>10. CASE way = "perm"
  <2>1. p[t] \in Moved(d)
    BY <1>10 DEF Permuted
  <2> QED
    BY <1>2, <1>6, <1>10, <2>1
<1>11. CASE way = "group_const"
  BY <1>3, <1>4, <1>6, <1>11, QuotientIs
<1>12. CASE way = "sign"
  BY <1>6, <1>12, ZeroIs DEF NotNegative
<1>13. CASE way = "dctv"
  BY <1>5, <1>6, <1>13, LossAssumption DEF NotNegative, Numbers
<1>14. CASE way = "power"
  <2>1. param \in 0..2
    BY <1>5, <1>14, LossAssumption
  <2>2. NotNegative(Power(Abs(d[t]), param))
    BY <1>2, <2>1, PowerIs DEF NotNegative
  <2> QED
    BY <1>6, <1>14, <2>2
<1>15. CASE way = "sign_mass_raw_alloc"
  <2>1. NotNegative(Times(c, Count(g))) /\ NotNegative(Alloc(d, g, t, 1))
    BY <1>4, <1>7, <1>8, ProductIs
  <2> QED
    BY <1>6, <1>15, <2>1, ProductIs
<1>16. CASE way = "alloc_power"
  <2>1. param \in 0..2
    BY <1>5, <1>16, LossAssumption
  <2>2. NotNegative(Times(Strength(d, g), Alloc(d, g, t, param)))
    BY <1>3, <1>7, <2>1, ProductIs
  <2> QED
    BY <1>6, <1>16, <2>2
<1>17. CASE way = "strength_interp"
  <2> DEFINE share == PositiveShare(d, param)
             part == IF g = Positive(d) THEN share ELSE Minus(One, share)
  <2>1. param \in Fractions
    BY <1>5, <1>17, LossAssumption DEF Numbers
  <2>2. NotNegative(part)
    BY <2>1, PositiveShareIs
  <2>3. InterpStrength(d, g, param) = Over(Times(part, Strength(d, Moved(d))), Count(g))
    BY DEF InterpStrength
  <2> HIDE DEF part
  <2>4. NotNegative(Over(Times(part, Strength(d, Moved(d))), Count(g)))
    <3>1. NotNegative(Times(part, Strength(d, Moved(d))))
      BY <1>3, <2>2, ProductIs
    <3> QED
      BY <1>4, <3>1, QuotientIs
  <2> QED
    BY <1>6, <1>17, <2>3, <2>4
<1>18. way \in {"raw", "perm", "group_const", "sign", "dctv", "power", "sign_mass_raw_alloc",
                 "alloc_power", "strength_interp"}
  BY <1>5, LossAssumption
<1> QED
  BY <1>9, <1>10, <1>11, <1>12, <1>13, <1>14, <1>15, <1>16, <1>17, <1>18

(* A transform turns no sign around and leaves nothing at nothing.         *)
LEMMA TransformedIs ==
  ASSUME LossInputs, NEW d, AllFractions(d),
         NEW p, setting.mode = "perm" => p \in Permuted(d), NEW t \in Tokens
  PROVE  LET a == Transformed(d, setting.mode, setting.param, p)
         IN a[t] \in Fractions /\ (d[t] = Zero => a[t] = Zero) /\ Sign(a[t]) * Sign(d[t]) >= 0
<1> DEFINE a == Transformed(d, setting.mode, setting.param, p)
<1>1. d[t] \in Fractions
  BY DEF AllFractions
<1>2. CASE t \in Moved(d)
  <2> DEFINE q == NewMagnitude(d, t, setting.mode, setting.param, p)
             s == Sign(d[t])
  <2>1. NotNegative(q)
    BY <1>2, MagnitudeIs
  <2>2. s \in {-1, 1}
    BY <1>2, GroupsOf
  <2>3. a[t] = Signed(s, q)
    BY <1>2 DEF Transformed
  <2>4. d[t] # Zero
    BY <2>2 DEF Sign, Zero
  <2> HIDE DEF q, s, a
  <2>5. q[1] \in Nat /\ q[2] \in Nat \ {0}
    <3>1. q \in Fractions /\ q[1] >= 0
      BY <2>1 DEF NotNegative
    <3> QED
      BY <3>1, Parts
  <2>6. a[t] = <<s * q[1], q[2]>>
    BY <2>2, <2>3 DEF Signed
  <2>7. a[t] \in Fractions
    BY <2>2, <2>5, <2>6 DEF Fractions
  <2>8. Sign(a[t]) = IF s * q[1] > 0 THEN 1 ELSE IF s * q[1] < 0 THEN -1 ELSE 0
    BY <2>6 DEF Sign
  <2>9. Sign(a[t]) * s >= 0
    BY <2>2, <2>5, <2>8
  <2> QED
    BY <2>4, <2>7, <2>9 DEF a, s
<1>3. CASE t \notin Moved(d)
  <2>1. a[t] = Zero
    BY <1>3 DEF Transformed
  <2>2. Sign(Zero) = 0 /\ Sign(d[t]) \in {-1, 0, 1}
    BY <1>1, SignIs DEF Sign, Zero
  <2> HIDE DEF a
  <2> QED
    BY <2>1, <2>2, ZeroIs DEF a
<1> QED
  BY <1>2, <1>3

LEMMA LossInitial == LossInit => LossInv
<1> SUFFICES ASSUME LossInit PROVE LossInv
  OBVIOUS
<1>1. PICK p \in Payloads, q \in Payloads :
        tokens = [t \in ({1} \X DOMAIN p) \cup ({2} \X DOMAIN q) |->
                    IF t[1] = 1 THEN p[t[2]] ELSE q[t[2]]]
  BY DEF LossInit
<1>2. p \in Seq(Token) /\ q \in Seq(Token)
  BY LossAssumption DEF Token
<1>3. /\ stage = "credit" /\ has_ids \in BOOLEAN /\ setting \in LossSettings
      /\ target = [t \in Tokens |-> Zero] /\ delta = target /\ advantage = target
  BY DEF LossInit
<1>4. IsFiniteSet(Tokens)
  <2>1. IsFiniteSet(DOMAIN p) /\ IsFiniteSet(DOMAIN q)
    <3>1. DOMAIN p = 1..Len(p) /\ DOMAIN q = 1..Len(q) /\ Len(p) \in Int /\ Len(q) \in Int
      BY <1>2
    <3> QED
      BY <3>1, FS_Interval
  <2>2. IsFiniteSet({1}) /\ IsFiniteSet({2})
    BY FS_Singleton
  <2>3. IsFiniteSet({1} \X DOMAIN p) /\ IsFiniteSet({2} \X DOMAIN q)
    BY <2>1, <2>2, FS_Product
  <2>4. IsFiniteSet(({1} \X DOMAIN p) \cup ({2} \X DOMAIN q))
    BY <2>3, FS_Union
  <2>5. Tokens = ({1} \X DOMAIN p) \cup ({2} \X DOMAIN q)
    BY <1>1 DEF Tokens
  <2> QED
    BY <2>4, <2>5
<1>5. \A t \in Tokens : tokens[t] \in Token
  <2>1. SUFFICES ASSUME NEW t \in Tokens PROVE tokens[t] \in Token
    OBVIOUS
  <2>2. t \in ({1} \X DOMAIN p) \cup ({2} \X DOMAIN q)
    BY <1>1 DEF Tokens
  <2>3. tokens[t] = IF t[1] = 1 THEN p[t[2]] ELSE q[t[2]]
    BY <1>1, <2>2
  <2>4. CASE t \in {1} \X DOMAIN p
    BY <1>2, <2>3, <2>4
  <2>5. CASE t \in {2} \X DOMAIN q
    BY <1>2, <2>3, <2>5
  <2> QED
    BY <2>2, <2>4, <2>5
<1>6. LossInputs
  BY <1>3, <1>4, <1>5 DEF LossInputs
<1>7. AllFractions(target) /\ AllFractions(delta) /\ AllFractions(advantage)
  BY <1>3, ZeroIs DEF AllFractions
<1>8. WithinLimit
  <2>1. SUFFICES ASSUME setting.limit # Inf, NEW t \in Tokens
                 PROVE  AtMost(Abs(delta[t]), setting.limit)
    BY DEF WithinLimit
  <2>2. setting.limit \in Fractions /\ setting.limit[1] > 0
    BY <1>6, <2>1, LimitIs DEF Limit
  <2>3. delta[t] = Zero
    BY <1>3
  <2>4. setting.limit[1] \in Int /\ setting.limit[2] \in Nat
    BY <2>2, Parts
  <2> QED
    BY <2>2, <2>3, <2>4 DEF AtMost, Abs, Zero
<1> QED
  BY <1>3, <1>6, <1>7, <1>8 DEF LossInv, PushedTogether, SentinelsInert

LEMMA CreditAssigned == LossInv /\ AssignCredit => LossInv'
<1> SUFFICES ASSUME LossInv, AssignCredit PROVE LossInv'
  OBVIOUS
<1>1. /\ stage = "credit" /\ stage' = "clamp"
      /\ UNCHANGED <<tokens, has_ids, setting, delta, advantage>>
      /\ \A t \in Tokens : target'[t] = IF ~has_ids THEN Teacher[t]
                                        ELSE IF t \in Valid THEN Share(t) ELSE Student[t]
  BY DEF AssignCredit
<1>2. LossInputs /\ AllFractions(delta) /\ AllFractions(advantage) /\ WithinLimit
  BY DEF LossInv
<1>3. /\ Tokens' = Tokens /\ NoSignalFor' = NoSignalFor /\ Valid' = Valid
      /\ Student' = Student /\ Teacher' = Teacher
  BY <1>1 DEF Tokens, NoSignalFor, Valid, Masked, Student, Teacher
<1>4. \A t \in Tokens : Share(t)' = Share(t)
  BY <1>1, <1>3 DEF Share, Chunk
<1>5. LossInputs' /\ AllFractions(delta)' /\ AllFractions(advantage)' /\ WithinLimit'
  BY <1>1, <1>2, <1>3 DEF LossInputs, AllFractions, WithinLimit
<1>6. \A t \in NoSignalFor : target'[t] = Student[t]
  <2> SUFFICES ASSUME NEW t \in NoSignalFor PROVE target'[t] = Student[t]
    OBVIOUS
  <2>1. t \in Tokens /\ t \notin Valid /\ Teacher[t] = Student[t]
    BY DEF NoSignalFor, Valid, Teacher, Student
  <2> QED
    BY <1>1, <2>1
<1>7. has_ids => \A t \in Valid : target'[t] = Share(t)
  BY <1>1 DEF Valid
<1>8. \A t \in Tokens : target'[t] \in Fractions
  BY <1>1, <1>2, InputsAre, ShareIs DEF LogProbs, Numbers
<1>9. \A t \in Valid : t \in Tokens
  BY DEF Valid
<1> QED
  BY <1>1, <1>3, <1>4, <1>5, <1>6, <1>7, <1>8, <1>9
     DEF LossInv, AllFractions, PushedTogether, SentinelsInert

LEMMA AdvantageClamped == LossInv /\ ClampAdvantage => LossInv'
<1> SUFFICES ASSUME LossInv, ClampAdvantage PROVE LossInv'
  OBVIOUS
<1>1. /\ stage = "clamp" /\ stage' = "transform"
      /\ UNCHANGED <<tokens, has_ids, setting, target, advantage>>
      /\ \A t \in Tokens : delta'[t] = Clamped(Minus(target[t], Student[t]))
  BY DEF ClampAdvantage
<1>2. LossInputs /\ AllFractions(target) /\ AllFractions(advantage) /\ Limit(setting.limit)
  BY LimitIs DEF LossInv
<1>3. /\ Tokens' = Tokens /\ NoSignalFor' = NoSignalFor /\ Valid' = Valid
  BY <1>1 DEF Tokens, NoSignalFor, Valid, Masked
<1>4. LossInputs' /\ AllFractions(target)' /\ AllFractions(advantage)'
  BY <1>1, <1>2, <1>3 DEF LossInputs, AllFractions
<1>5. \A t \in Tokens : Minus(target[t], Student[t]) \in Fractions
  BY <1>2, InputsAre, MinusIs DEF AllFractions, LogProbs, Numbers
<1>6. \A t \in Tokens : /\ delta'[t] \in Fractions
                        /\ setting.limit = Inf \/ AtMost(Abs(delta'[t]), setting.limit)
                        /\ Sign(delta'[t]) = Sign(Minus(target[t], Student[t]))
  BY <1>1, <1>2, <1>5, ClampedIs
<1>7. \A t \in NoSignalFor : delta'[t] = Zero
  <2> SUFFICES ASSUME NEW t \in NoSignalFor PROVE delta'[t] = Zero
    OBVIOUS
  <2>1. t \in Tokens /\ target[t] = Student[t]
    BY <1>1 DEF LossInv, NoSignalFor
  <2>2. target[t] \in Fractions
    BY <1>2, <2>1 DEF AllFractions
  <2>3. Minus(target[t], Student[t]) = Zero
    BY <2>1, <2>2, MinusIs
  <2> QED
    BY <1>1, <1>2, <1>5, <2>1, <2>3, ClampedIs
<1>8. PushedTogether'
  <2> SUFFICES ASSUME has_ids, setting.rule = "semantic", NEW t \in Valid, NEW u \in Valid,
                      tokens[t].chunk = tokens[u].chunk, t[1] = u[1]
               PROVE  Sign(delta'[t]) * Sign(delta'[u]) >= 0
    BY <1>1, <1>3 DEF PushedTogether
  <2>1. t \in Tokens /\ u \in Tokens /\ target[t] = Share(t) /\ target[u] = Share(u)
    BY <1>1 DEF LossInv, Valid
  <2>2. Sign(Minus(Share(t), Student[t])) * Sign(Minus(Share(u), Student[u])) >= 0
    BY <1>2, ChunkPushed
  <2> QED
    BY <1>6, <2>1, <2>2
<1>9. AllFractions(delta)' /\ WithinLimit'
  BY <1>1, <1>3, <1>6 DEF AllFractions, WithinLimit
<1> QED
  BY <1>1, <1>3, <1>4, <1>7, <1>8, <1>9 DEF LossInv, SentinelsInert

LEMMA AdvantageTransformed == LossInv /\ TransformAdvantage => LossInv'
<1> SUFFICES ASSUME LossInv, TransformAdvantage PROVE LossInv'
  OBVIOUS
<1>1. /\ stage = "transform" /\ stage' = "loss"
      /\ UNCHANGED <<tokens, has_ids, setting, target, delta>>
  BY DEF TransformAdvantage
<1>2. PICK p \in (IF setting.mode = "perm" THEN Permuted(delta) ELSE {<<>>}) :
        advantage' = IF setting.mode = "raw" THEN delta
                     ELSE Transformed(delta, setting.mode, setting.param, p)
  BY DEF TransformAdvantage
<1>3. LossInputs /\ AllFractions(target) /\ AllFractions(delta) /\ WithinLimit /\ PushedTogether
      /\ \A t \in NoSignalFor : delta[t] = Zero
  BY <1>1 DEF LossInv
<1>4. Tokens' = Tokens /\ NoSignalFor' = NoSignalFor /\ Valid' = Valid /\ Masked' = Masked
  BY <1>1 DEF Tokens, NoSignalFor, Valid, Masked
<1>5. LossInputs' /\ AllFractions(target)' /\ AllFractions(delta)' /\ WithinLimit'
  BY <1>1, <1>3, <1>4 DEF LossInputs, AllFractions, WithinLimit
<1>6. PushedTogether'
  BY <1>1, <1>3, <1>4 DEF PushedTogether
<1>7. \A t \in Tokens : /\ advantage'[t] \in Fractions
                        /\ delta[t] = Zero => advantage'[t] = Zero
                        /\ Sign(advantage'[t]) * Sign(delta[t]) >= 0
  <2> SUFFICES ASSUME NEW t \in Tokens
               PROVE  /\ advantage'[t] \in Fractions
                      /\ delta[t] = Zero => advantage'[t] = Zero
                      /\ Sign(advantage'[t]) * Sign(delta[t]) >= 0
    OBVIOUS
  <2>1. CASE setting.mode = "raw"
    <3>1. advantage'[t] = delta[t] /\ delta[t] \in Fractions
      BY <1>2, <1>3, <2>1 DEF AllFractions
    <3>2. Sign(delta[t]) \in {-1, 0, 1}
      BY <3>1, SignIs
    <3> QED
      BY <3>1, <3>2
  <2>2. CASE setting.mode # "raw"
    <3>1. advantage' = Transformed(delta, setting.mode, setting.param, p)
      BY <1>2, <2>2
    <3>2. setting.mode = "perm" => p \in Permuted(delta)
      OBVIOUS
    <3> QED
      BY <1>3, <3>1, <3>2, TransformedIs
  <2> QED
    BY <2>1, <2>2
<1>8. SentinelsInert'
  <2>1. \A t \in NoSignalFor : advantage'[t] = Zero
    BY <1>3, <1>7 DEF NoSignalFor
  <2> QED
    BY <1>1, <1>4, <1>7, <2>1 DEF SentinelsInert
<1>9. AllFractions(advantage)'
  BY <1>4, <1>7 DEF AllFractions
<1> QED
  BY <1>1, <1>3, <1>4, <1>5, <1>6, <1>8, <1>9 DEF LossInv

LEMMA LossPreserved == LossInv /\ [LossNext]_lossVars => LossInv'
<1> SUFFICES ASSUME LossInv, [LossNext]_lossVars PROVE LossInv'
  OBVIOUS
<1>1. CASE UNCHANGED lossVars
  <2>1. UNCHANGED <<tokens, has_ids, setting, stage, target, delta, advantage>>
    BY <1>1 DEF lossVars
  <2>2. /\ Tokens' = Tokens /\ NoSignalFor' = NoSignalFor /\ Valid' = Valid /\ Masked' = Masked
        /\ Student' = Student /\ Teacher' = Teacher
    BY <2>1 DEF Tokens, NoSignalFor, Valid, Masked, Student, Teacher
  <2>3. \A t \in Valid : Share(t)' = Share(t)
    BY <2>1, <2>2 DEF Share, Chunk
  <2>4. LossInputs' /\ WithinLimit'
    BY <2>1, <2>2 DEF LossInv, LossInputs, WithinLimit
  <2>5. AllFractions(target)' /\ AllFractions(delta)' /\ AllFractions(advantage)'
    BY <2>1, <2>2 DEF LossInv, AllFractions
  <2>6. PushedTogether' /\ SentinelsInert'
    BY <2>1, <2>2 DEF LossInv, PushedTogether, SentinelsInert
  <2> QED
    BY <2>1, <2>2, <2>3, <2>4, <2>5, <2>6 DEF LossInv
<1> QED
  BY <1>1, CreditAssigned, AdvantageClamped, AdvantageTransformed DEF LossNext, LossFinished

LEMMA LossAlways == LossSpec => []LossInv
BY LossInitial, LossPreserved, PTL DEF LossSpec

LEMMA LossImplied == LossInv => LossTypeOK /\ PushedTogether /\ SentinelsInert
<1> SUFFICES ASSUME LossInv PROVE LossTypeOK /\ PushedTogether /\ SentinelsInert
  OBVIOUS
<1>1. \A t \in Tokens : target[t][2] \in Nat \ {0} /\ delta[t][2] \in Nat \ {0}
                         /\ advantage[t][2] \in Nat \ {0}
  BY Parts DEF LossInv, AllFractions
<1> QED
  BY <1>1 DEF LossInv, LossInputs, WithinLimit, LossTypeOK, IsFraction

-------------------------------------------------------------------------------
(* What is computed of a micro-batch: the values.                          *)
AllLowest(f) == \A t \in Tokens : f[t] \in Lowest
TransformedBy(p) ==
  /\ setting.mode = "perm" => p \in Permuted(delta)
  /\ advantage = IF setting.mode = "raw" THEN delta
                 ELSE Transformed(delta, setting.mode, setting.param, p)
CreditInv ==
  /\ AllLowest(target) /\ AllLowest(delta)
  /\ stage # "credit" /\ has_ids => \A t \in Valid : target[t] = Share(t)
  /\ stage = "loss" => \E p : TransformedBy(p)

LEMMA NumbersLowest == ASSUME NEW q \in Numbers PROVE q \in Lowest
<1>1. q[1] \in Int /\ q[2] \in Nat \ {0} /\ Reduced(q[1], q[2]) = q
  BY Parts DEF Numbers
<1> QED
  BY <1>1, ReducedValue DEF Value

LEMMA InputsLowest ==
  ASSUME LossInputs
  PROVE  /\ \A t \in Tokens : Student[t] \in Lowest /\ Teacher[t] \in Lowest
         /\ setting.limit = Inf \/ setting.limit \in Lowest
<1>1. \A t \in Tokens : Student[t] \in Numbers /\ Teacher[t] \in Numbers
  BY InputsAre DEF LogProbs
<1>2. setting.limit = Inf \/ setting.limit \in Numbers
  BY LossAssumption DEF LossInputs
<1> QED
  BY <1>1, <1>2, NumbersLowest

(* What the chunk of a token is given, and what the student gives it.      *)
LEMMA ChunkIs ==
  ASSUME LossInputs, NEW t \in Valid
  PROVE  /\ t \in Chunk(t) /\ Chunk(t) \in SUBSET Tokens
         /\ Summable(Teacher, Chunk(t)) /\ Summable(Student, Chunk(t))
         /\ Sum(Teacher, Chunk(t)) \in Lowest /\ Sum(Student, Chunk(t)) \in Lowest
         /\ Count(Chunk(t)) \in Lowest /\ Count(Chunk(t)) # Zero
<1>1. t \in Chunk(t) /\ Chunk(t) \in SUBSET Tokens
  BY DEF Chunk, Valid
<1>2. IsFiniteSet(Chunk(t))
  BY <1>1, SubsetsFinite
<1>3. Summable(Teacher, Chunk(t)) /\ Summable(Student, Chunk(t))
  BY <1>1, <1>2, InputsLowest DEF Summable
<1>4. Count(Chunk(t)) \in Lowest
  BY <1>2, FS_CardinalityType, CountLowest DEF Count
<1>5. Count(Chunk(t)) # Zero
  <2>1. Count(Chunk(t))[1] > 0
    BY <1>1, CountIs
  <2> QED
    BY <2>1 DEF Zero
<1> QED
  BY <1>1, <1>3, <1>4, <1>5, SumRecurs

LEMMA ShareLowest ==
  ASSUME LossInputs, NEW t \in Valid
  PROVE  Share(t) \in Lowest
<1> DEFINE T == Sum(Teacher, Chunk(t))
           P == Sum(Student, Chunk(t))
<1>1. T \in Lowest /\ P \in Lowest /\ Count(Chunk(t)) \in Lowest /\ Count(Chunk(t)) # Zero
  BY ChunkIs
<1>2. Student[t] \in Lowest
  BY InputsLowest DEF Valid
<1>3. Share(t) = IF setting.rule = "uniform" \/ P = Zero
                 THEN Over(T, Count(Chunk(t)))
                 ELSE Times(Over(T, P), Student[t])
  BY DEF Share, Count
<1> HIDE DEF T, P
<1>4. Over(T, Count(Chunk(t))) \in Lowest
  BY <1>1, OverLaws
<1>5. P # Zero => Times(Over(T, P), Student[t]) \in Lowest
  <2> SUFFICES ASSUME P # Zero PROVE Times(Over(T, P), Student[t]) \in Lowest
    OBVIOUS
  <2>1. Over(T, P) \in Lowest
    BY <1>1, OverLaws
  <2> QED
    BY <1>2, <2>1, TimesLaws
<1> QED
  BY <1>3, <1>4, <1>5

LEMMA ClampedLowest ==
  ASSUME LossInputs, NEW q \in Lowest
  PROVE  Clamped(q) \in Lowest
<1>1. setting.limit # Inf => setting.limit \in Lowest /\ Minus(Zero, setting.limit) \in Lowest
  BY InputsLowest, ZeroLowest, MinusLaws
<1> QED
  BY <1>1 DEF Clamped

LEMMA CreditInitial == LossInit => CreditInv
<1> SUFFICES ASSUME LossInit PROVE CreditInv
  OBVIOUS
<1>1. /\ stage = "credit" /\ target = [t \in Tokens |-> Zero] /\ delta = target
  BY DEF LossInit
<1> QED
  BY <1>1, ZeroLowest DEF CreditInv, AllLowest

LEMMA CreditPreserved == LossInv /\ CreditInv /\ [LossNext]_lossVars => CreditInv'
<1> SUFFICES ASSUME LossInv, CreditInv, [LossNext]_lossVars PROVE CreditInv'
  OBVIOUS
<1>1. LossInputs /\ AllLowest(target) /\ AllLowest(delta)
  BY DEF LossInv, CreditInv
<1>2. CASE AssignCredit
  <2>1. /\ stage = "credit" /\ stage' = "clamp"
        /\ UNCHANGED <<tokens, has_ids, setting, delta, advantage>>
        /\ \A t \in Tokens : target'[t] = IF ~has_ids THEN Teacher[t]
                                          ELSE IF t \in Valid THEN Share(t) ELSE Student[t]
    BY <1>2 DEF AssignCredit
  <2>2. Tokens' = Tokens /\ Valid' = Valid /\ Student' = Student /\ Teacher' = Teacher
    BY <2>1 DEF Tokens, NoSignalFor, Valid, Masked, Student, Teacher
  <2>3. \A t \in Tokens : Share(t)' = Share(t)
    BY <2>1, <2>2 DEF Share, Chunk
  <2>4. \A t \in Tokens : target'[t] \in Lowest
    BY <1>1, <2>1, InputsLowest, ShareLowest
  <2>5. has_ids => \A t \in Valid : target'[t] = Share(t) /\ t \in Tokens
    BY <2>1 DEF Valid
  <2> QED
    BY <1>1, <2>1, <2>2, <2>3, <2>4, <2>5 DEF CreditInv, AllLowest
<1>3. CASE ~AssignCredit
  <2>1. /\ UNCHANGED <<tokens, has_ids, setting, target>>
        /\ stage # "credit" \/ stage' = stage
    BY <1>3 DEF LossNext, ClampAdvantage, TransformAdvantage, LossFinished, lossVars
  <2>2. Tokens' = Tokens /\ Valid' = Valid /\ Student' = Student /\ Teacher' = Teacher
    BY <2>1 DEF Tokens, NoSignalFor, Valid, Masked, Student, Teacher
  <2>3. \A t \in Tokens : Share(t)' = Share(t)
    BY <2>1, <2>2 DEF Share, Chunk
  <2>4. AllLowest(target)'
    BY <1>1, <2>1, <2>2 DEF AllLowest
  <2>5. (stage # "credit" /\ has_ids => \A t \in Valid : target[t] = Share(t))'
    <3>1. stage' # "credit" /\ has_ids => \A t \in Valid : target[t] = Share(t) /\ t \in Tokens
      BY <2>1 DEF CreditInv, Valid
    <3> QED
      BY <2>1, <2>2, <2>3, <3>1
  <2>6. AllLowest(delta)'
    <3>1. CASE ClampAdvantage
      <4>1. \A t \in Tokens : delta'[t] = Clamped(Minus(target[t], Student[t]))
        BY <3>1 DEF ClampAdvantage
      <4>2. \A t \in Tokens : Minus(target[t], Student[t]) \in Lowest
        BY <1>1, InputsLowest, MinusLaws DEF AllLowest
      <4> QED
        BY <1>1, <2>2, <4>1, <4>2, ClampedLowest DEF AllLowest
    <3>2. CASE ~ClampAdvantage
      <4>1. delta' = delta
        BY <1>3, <3>2 DEF LossNext, TransformAdvantage, LossFinished, lossVars
      <4> QED
        BY <1>1, <2>2, <4>1 DEF AllLowest
    <3> QED
      BY <3>1, <3>2
  <2>7. (stage = "loss" => \E p : TransformedBy(p))'
    <3>0. ASSUME UNCHANGED <<tokens, setting, delta>>, NEW p
          PROVE  /\ Permuted(delta)' = Permuted(delta)
                 /\ Transformed(delta, setting.mode, setting.param, p)'
                      = Transformed(delta, setting.mode, setting.param, p)
      <4>1. Tokens' = Tokens /\ Positive(delta)' = Positive(delta) /\ Negative(delta)' = Negative(delta)
        BY <3>0 DEF Tokens, Masked, Positive, Negative
      <4>2. Moved(delta)' = Moved(delta) /\ Permuted(delta)' = Permuted(delta)
        BY <3>0, <4>1 DEF Moved, Permuted
      <4>3. ASSUME NEW t PROVE NewMagnitude(delta, t, setting.mode, setting.param, p)'
                                 = NewMagnitude(delta, t, setting.mode, setting.param, p)
        BY <3>0, <4>1, <4>2, SMTT(30) DEF NewMagnitude, GroupOf, Strength, Magnitudes, Alloc,
           InterpStrength, PositiveShare, Interpolated
      <4>4. Transformed(delta, setting.mode, setting.param, p)'
              = Transformed(delta, setting.mode, setting.param, p)
        BY <3>0, <4>1, <4>2, <4>3 DEF Transformed
      <4> QED
        BY <4>2, <4>4
    <3>1. CASE TransformAdvantage
      <4>1. PICK p \in (IF setting.mode = "perm" THEN Permuted(delta) ELSE {<<>>}) :
              advantage' = IF setting.mode = "raw" THEN delta
                           ELSE Transformed(delta, setting.mode, setting.param, p)
        BY <3>1 DEF TransformAdvantage
      <4>2. UNCHANGED <<tokens, has_ids, setting, target, delta>>
        BY <3>1 DEF TransformAdvantage
      <4>3. setting.mode = "perm" => p \in Permuted(delta)
        BY <4>1
      <4>4. TransformedBy(p)'
        BY <3>0, <4>1, <4>2, <4>3 DEF TransformedBy
      <4> QED
        BY <4>4
    <3>2. CASE UNCHANGED lossVars
      <4>1. UNCHANGED <<tokens, has_ids, setting, stage, target, delta, advantage>>
        BY <3>2 DEF lossVars
      <4>2. stage = "loss" => \E p : TransformedBy(p)
        BY DEF CreditInv
      <4>3. ASSUME NEW p, TransformedBy(p) PROVE TransformedBy(p)'
        BY <3>0, <4>1, <4>3 DEF TransformedBy
      <4> QED
        BY <4>1, <4>2, <4>3
    <3>3. CASE ClampAdvantage
      BY <3>3 DEF ClampAdvantage
    <3> QED
      BY <1>3, <3>1, <3>2, <3>3 DEF LossNext, LossFinished
  <2> QED
    BY <2>4, <2>5, <2>6, <2>7 DEF CreditInv
<1> QED
  BY <1>2, <1>3

LEMMA CreditAlways == LossSpec => [](LossInv /\ CreditInv)
<1>1. LossInit => LossInv /\ CreditInv
  BY LossInitial, CreditInitial
<1>2. (LossInv /\ CreditInv) /\ [LossNext]_lossVars => (LossInv /\ CreditInv)'
  BY LossPreserved, CreditPreserved
<1> QED
  BY <1>1, <1>2, PTL DEF LossSpec

(* The credit of a chunk is shared out to the last of it.                  *)
LEMMA AllShared ==
  ASSUME LossInputs, NEW t \in Valid, \A u \in Chunk(t) : target[u] = Share(u)
  PROVE  Sum(target, Chunk(t)) = Sum(Teacher, Chunk(t))
<1> DEFINE c == Chunk(t)
           T == Sum(Teacher, c)
           P == Sum(Student, c)
           N == Count(c)
<1>1. /\ T \in Lowest /\ P \in Lowest /\ N \in Lowest /\ N # Zero
      /\ Summable(Student, c) /\ IsFiniteSet(c)
  BY ChunkIs DEF Summable
<1>2. \A u \in c : Chunk(u) = c
  BY DEF Chunk
<1>3. ASSUME NEW u \in c
      PROVE  target[u] = IF setting.rule = "uniform" \/ P = Zero THEN Over(T, N)
                         ELSE Times(Over(T, P), Student[u])
  <2>1. target[u] = Share(u) /\ Chunk(u) = c
    BY <1>2
  <2> QED
    BY <2>1 DEF Share, Count
<1> HIDE DEF c, T, P, N
<1>4. CASE setting.rule = "uniform" \/ P = Zero
  <2>1. Over(T, N) \in Lowest /\ Times(Over(T, N), N) = T
    BY <1>1, OverLaws
  <2>2. \A u \in c : target[u] = Over(T, N)
    BY <1>3, <1>4
  <2>3. Sum(target, c) = Times(N, Over(T, N))
    BY <1>1, <2>1, <2>2, SumOfSame DEF N
  <2>4. Times(N, Over(T, N)) = Times(Over(T, N), N)
    BY <1>1, <2>1, TimesLaws
  <2> QED
    BY <2>1, <2>3, <2>4 DEF T, c
<1>5. CASE ~(setting.rule = "uniform" \/ P = Zero)
  <2>1. Over(T, P) \in Lowest /\ Times(Over(T, P), P) = T
    BY <1>1, <1>5, OverLaws
  <2>2. \A u \in c : target[u] = Times(Over(T, P), Student[u])
    BY <1>3, <1>5
  <2>3. Sum(target, c) = Times(Over(T, P), P)
    BY <1>1, <2>1, <2>2, SumScaled DEF P
  <2> QED
    BY <2>1, <2>3 DEF T, c
<1> QED
  BY <1>4, <1>5

(* The target of a chunk is the teacher's log-probability of it.           *)
LEMMA ChunksConserved == LossInv /\ CreditInv => ChunkConserved
<1> SUFFICES ASSUME LossInv, CreditInv, stage # "credit", has_ids,
                    NEW s \in {1, 2}, NEW id \in {tokens[t].chunk : t \in Valid}
             PROVE  LET chunk == {t \in Valid : t[1] = s /\ tokens[t].chunk = id}
                    IN Sum(target, chunk) = Sum([t \in chunk |-> tokens[t].teacher], chunk)
  BY DEF ChunkConserved
<1> DEFINE chunk == {t \in Valid : t[1] = s /\ tokens[t].chunk = id}
           given == [t \in chunk |-> tokens[t].teacher]
<1>1. LossInputs /\ \A t \in Valid : target[t] = Share(t)
  BY DEF LossInv, CreditInv
<1>2. CASE chunk = {}
  <2>1. Summable(target, {}) /\ Summable(given, {})
    BY FS_EmptySet DEF Summable
  <2>2. Sum(target, {}) = Zero /\ Sum(given, {}) = Zero
    BY <2>1, SumRecurs
  <2> QED
    BY <1>2, <2>2
<1>3. ASSUME NEW t \in chunk PROVE Sum(target, chunk) = Sum(given, chunk)
  <2>1. chunk = Chunk(t) /\ t \in Valid
    BY DEF Chunk
  <2>2. \A u \in chunk : u \in Valid /\ u \in Tokens
    BY DEF Valid
  <2>3. Sum(target, chunk) = Sum(Teacher, chunk)
    BY <1>1, <2>1, <2>2, AllShared
  <2>4. \A u \in chunk : given[u] = Teacher[u]
    BY <1>1, <2>2, InputsAre
  <2>5. Summable(Teacher, chunk)
    BY <1>1, <2>1, ChunkIs
  <2> HIDE DEF chunk, given
  <2>6. Sum(given, chunk) = Sum(Teacher, chunk)
    BY <2>4, <2>5, SumAlike
  <2> QED
    BY <2>3, <2>6
<1> QED
  BY <1>2, <1>3

(* d is a push: the deltas, in lowest terms.                               *)
Push(d) == LossInputs /\ AllFractions(d) /\ AllLowest(d)
Allocs(d, g, alpha) == [u \in g |-> Power(Abs(d[u]), alpha)]

LEMMA LowestFractions == ASSUME AllLowest(delta) PROVE AllFractions(delta)
BY LowestParts DEF AllLowest, AllFractions

(* The groups: what their tokens, sizes and strengths are.                 *)
LEMMA GroupIs ==
  ASSUME NEW d, Push(d), NEW g \in SUBSET Moved(d)
  PROVE  /\ Summable(Magnitudes(d), g) /\ Strength(d, g) \in Lowest /\ NotNegative(Strength(d, g))
         /\ Count(g) \in Lowest /\ IsFiniteSet(g)
         /\ g # {} => Strength(d, g) # Zero /\ Count(g) # Zero
         /\ g = {} => Strength(d, g) = Zero /\ Count(g) = Zero
<1>1. /\ Moved(d) \in SUBSET Tokens /\ \A t \in Moved(d) : Magnitudes(d)[t] = Abs(d[t])
  BY GroupsOf DEF Push
<1>2. IsFiniteSet(g)
  BY <1>1, SubsetsFinite DEF Push
<1>3. Summable(Magnitudes(d), g)
  BY <1>1, <1>2, AbsLowest DEF Summable, Push, AllLowest
<1>4. Strength(d, g) \in Lowest /\ (g = {} => Strength(d, g) = Zero)
  BY <1>3, SumRecurs DEF Strength
<1>5. NotNegative(Strength(d, g)) /\ (g # {} => Strength(d, g) # Zero)
  <2>1. NotNegative(Strength(d, g)) /\ (g # {} => IsPositive(Strength(d, g)))
    BY StrengthIs DEF Push
  <2> QED
    BY <2>1 DEF IsPositive, Zero
<1>6. Count(g) \in Lowest /\ (g # {} => Count(g) # Zero) /\ (g = {} => Count(g) = Zero)
  <2>1. Count(g) \in Lowest
    BY <1>2, FS_CardinalityType, CountLowest DEF Count
  <2>2. Cardinality(g) = 0 <=> g = {}
    BY <1>2, FS_EmptySet
  <2> QED
    BY <2>1, <2>2 DEF Count, Zero
<1> QED
  BY <1>2, <1>3, <1>4, <1>5, <1>6

LEMMA Groups ==
  ASSUME NEW d, Push(d)
  PROVE  /\ Positive(d) \in SUBSET Moved(d) /\ Negative(d) \in SUBSET Moved(d)
         /\ Moved(d) = Positive(d) \cup Negative(d) /\ Positive(d) \cap Negative(d) = {}
         /\ Moved(d) \in SUBSET Moved(d)
         /\ \A t \in Moved(d) : GroupOf(d, t) = IF t \in Positive(d) THEN Positive(d) ELSE Negative(d)
         /\ \A t \in Moved(d) : Abs(d[t]) \in Lowest /\ IsPositive(Abs(d[t]))
                                /\ Magnitudes(d)[t] = Abs(d[t]) /\ Sign(d[t]) \in {-1, 1}
<1>1. \A t \in Tokens : d[t][1] \in Int
  BY Parts DEF Push, AllFractions
<1>2. Positive(d) \cap Negative(d) = {}
  BY <1>1 DEF Positive, Negative, Sign
<1>3. \A t \in Moved(d) : GroupOf(d, t) = IF t \in Positive(d) THEN Positive(d) ELSE Negative(d)
  BY DEF Moved, GroupOf, Positive, Negative
<1>4. /\ Moved(d) \in SUBSET Tokens
      /\ \A t \in Moved(d) : /\ IsPositive(Abs(d[t])) /\ Magnitudes(d)[t] = Abs(d[t])
                             /\ Sign(d[t]) \in {-1, 1}
  BY GroupsOf DEF Push
<1>5. \A t \in Moved(d) : Abs(d[t]) \in Lowest
  BY <1>4, AbsLowest DEF Push, AllLowest
<1> QED
  BY <1>2, <1>3, <1>4, <1>5 DEF Moved

(* Both groups together have the strength and the size of all.             *)
LEMMA TwoGroups ==
  ASSUME NEW d, Push(d)
  PROVE  /\ Strength(d, Moved(d)) = Plus(Strength(d, Positive(d)), Strength(d, Negative(d)))
         /\ Count(Moved(d)) = Plus(Count(Positive(d)), Count(Negative(d)))
<1> DEFINE A == Positive(d)
           B == Negative(d)
<1>1. Moved(d) = A \cup B /\ A \cap B = {} /\ A \in SUBSET Moved(d) /\ B \in SUBSET Moved(d)
  BY Groups
<1>2. /\ Summable(Magnitudes(d), A) /\ Summable(Magnitudes(d), B)
      /\ IsFiniteSet(A) /\ IsFiniteSet(B)
  BY <1>1, GroupIs
<1> HIDE DEF A, B
<1>3. Strength(d, Moved(d)) = Plus(Strength(d, A), Strength(d, B))
  BY <1>1, <1>2, SumUnion DEF Strength
<1>4. Count(Moved(d)) = Plus(Count(A), Count(B))
  <2>1. Cardinality(A \cup B) = Cardinality(A) + Cardinality(B) - Cardinality({})
    BY <1>1, <1>2, FS_Union
  <2>2. Cardinality({}) = 0
    BY FS_EmptySet
  <2>3. Cardinality(A) \in Nat /\ Cardinality(B) \in Nat
    BY <1>2, FS_CardinalityType
  <2>4. Cardinality(Moved(d)) = Cardinality(A) + Cardinality(B)
    BY <1>1, <2>1, <2>2, <2>3
  <2>5. Plus(<<Cardinality(A), 1>>, <<Cardinality(B), 1>>) = <<Cardinality(A) + Cardinality(B), 1>>
    BY <2>3, CountPlus
  <2> QED
    BY <2>4, <2>5 DEF Count
<1> QED
  BY <1>3, <1>4 DEF A, B

(* A group's strength is allocated to the last of it.                      *)
LEMMA AllocationsAre ==
  ASSUME NEW d, Push(d), NEW g \in SUBSET Moved(d), g # {}, NEW alpha \in 0..2
  PROVE  /\ Summable(Allocs(d, g, alpha), g) /\ Sum(Allocs(d, g, alpha), g) \in Lowest
         /\ Sum(Allocs(d, g, alpha), g) # Zero
         /\ \A t \in g : /\ Allocs(d, g, alpha)[t] = Power(Abs(d[t]), alpha)
                         /\ Allocs(d, g, alpha)[t] \in Lowest
                         /\ Alloc(d, g, t, alpha)
                              = Over(Allocs(d, g, alpha)[t], Sum(Allocs(d, g, alpha), g))
<1> DEFINE f == Allocs(d, g, alpha)
<1>1. \A t \in g : f[t] = Power(Abs(d[t]), alpha)
  BY DEF Allocs
<1>2. \A t \in g : Abs(d[t]) \in Lowest /\ IsPositive(Abs(d[t]))
  BY Groups
<1>3. \A t \in g : d[t] \in Lowest
  BY GroupsOf DEF Push, AllLowest
<1>4. \A t \in g : f[t] \in Lowest
  BY <1>1, <1>3, AbsLowest
<1>5. \A t \in g : f[t] \in Fractions /\ f[t][1] > 0
  <2> SUFFICES ASSUME NEW t \in g PROVE f[t] \in Fractions /\ f[t][1] > 0
    OBVIOUS
  <2>1. Abs(d[t]) \in Fractions /\ Abs(d[t])[1] > 0 /\ Abs(d[t])[1] >= 0
    BY <1>2, Parts DEF IsPositive
  <2> QED
    BY <1>1, <2>1, PowerIs
<1>6. Summable(f, g) /\ IsFiniteSet(g)
  BY <1>4, GroupIs DEF Summable
<1>7. \A t \in g : Alloc(d, g, t, alpha) = Over(f[t], Sum(f, g))
  BY <1>1 DEF Alloc, Allocs
<1> HIDE DEF f
<1>8. Sum(f, g) \in Lowest
  BY <1>6, SumRecurs
<1>9. Sum(f, g) # Zero
  <2>1. Sum(f, g)[1] > 0
    BY <1>5, <1>6, SumIs
  <2> QED
    BY <2>1 DEF Zero
<1> QED
  BY <1>1, <1>4, <1>6, <1>7, <1>8, <1>9 DEF f

(* The allocations of a group make up one.                                 *)
LEMMA SumAllocated ==
  ASSUME NEW d, Push(d), NEW g \in SUBSET Moved(d), NEW alpha \in 0..2, NEW c \in Lowest,
         g = {} => c = Zero, NEW h, \A t \in g : h[t] = Times(c, Alloc(d, g, t, alpha))
  PROVE  Sum(h, g) = c /\ Summable(h, g)
<1>1. CASE g = {}
  <2>1. Summable(h, {})
    BY FS_EmptySet DEF Summable
  <2> QED
    BY <1>1, <2>1, SumRecurs
<1>2. CASE g # {}
  <2> DEFINE f == Allocs(d, g, alpha)
             w == Sum(f, g)
  <2>1. /\ Summable(f, g) /\ w \in Lowest /\ w # Zero
        /\ \A t \in g : f[t] \in Lowest /\ Alloc(d, g, t, alpha) = Over(f[t], w)
    BY <1>2, AllocationsAre
  <2> HIDE DEF f, w
  <2>2. \A t \in g : h[t] = Times(Over(c, w), f[t])
    <3> SUFFICES ASSUME NEW t \in g PROVE h[t] = Times(Over(c, w), f[t])
      OBVIOUS
    <3> DEFINE q == f[t]
    <3>1. q \in Lowest /\ h[t] = Times(c, Over(q, w))
      BY <2>1
    <3> HIDE DEF q
    <3>2. Times(c, Over(q, w)) = Times(Over(c, w), q)
      BY <2>1, <3>1, OverMoves
    <3> QED
      BY <3>1, <3>2 DEF q
  <2>3. Over(c, w) \in Lowest /\ Times(Over(c, w), w) = c
    BY <2>1, OverLaws
  <2>4. Sum(h, g) = Times(Over(c, w), w) /\ Summable(h, g)
    BY <2>1, <2>2, <2>3, SumScaled DEF w
  <2> QED
    BY <2>3, <2>4
<1> QED
  BY <1>1, <1>2

(* A number is shared out evenly.                                          *)
LEMMA SumShared ==
  ASSUME NEW d, Push(d), NEW g \in SUBSET Moved(d), g # {}, NEW c \in Lowest,
         NEW h, \A t \in g : h[t] = Over(c, Count(g))
  PROVE  Sum(h, g) = c /\ Summable(h, g)
<1>1. Count(g) \in Lowest /\ Count(g) # Zero /\ IsFiniteSet(g)
  BY GroupIs
<1>2. Over(c, Count(g)) \in Lowest /\ Times(Over(c, Count(g)), Count(g)) = c
  BY <1>1, OverLaws
<1>3. Sum(h, g) = Times(Count(g), Over(c, Count(g))) /\ Summable(h, g)
  BY <1>1, <1>2, SumOfSame
<1>4. Times(Count(g), Over(c, Count(g))) = Times(Over(c, Count(g)), Count(g))
  BY <1>1, <1>2, TimesLaws
<1> QED
  BY <1>2, <1>3, <1>4

LEMMA PushIs == ASSUME LossInv, CreditInv PROVE Push(delta)
BY LowestFractions DEF LossInv, CreditInv, Push

(* A transformed advantage has the new magnitude.                          *)
LEMMA SignedMagnitude ==
  ASSUME NEW s \in {-1, 1}, NEW m, NotNegative(m)
  PROVE  Abs(Signed(s, m)) = m
<1>1. m[1] \in Int /\ m[1] >= 0 /\ m = <<m[1], m[2]>>
  BY Parts DEF NotNegative
<1> DEFINE a == m[1]
           b == m[2]
<1>2. a \in Int /\ a >= 0 /\ m = <<a, b>>
  BY <1>1
<1>3. Signed(s, m) = <<s * a, b>>
  BY DEF Signed
<1> HIDE DEF a, b
<1>4. CASE s = 1
  BY <1>2, <1>3, <1>4 DEF Abs
<1>5. CASE s = -1
  <2>1. Signed(s, m) = <<-a, b>>
    BY <1>2, <1>3, <1>5
  <2> QED
    BY <1>2, <2>1 DEF Abs
<1> QED
  BY <1>4, <1>5

LEMMA NewMagnitudes ==
  ASSUME LossInv, CreditInv, NEW p, TransformedBy(p), setting.mode # "raw"
  PROVE  \A t \in Moved(delta) :
           Magnitudes(advantage)[t] = NewMagnitude(delta, t, setting.mode, setting.param, p)
<1> SUFFICES ASSUME NEW t \in Moved(delta)
             PROVE  Magnitudes(advantage)[t] = NewMagnitude(delta, t, setting.mode, setting.param, p)
  OBVIOUS
<1> DEFINE m == NewMagnitude(delta, t, setting.mode, setting.param, p)
<1>1. Push(delta) /\ LossInputs /\ AllFractions(delta)
  BY PushIs DEF LossInv
<1>2. NotNegative(m)
  BY <1>1, MagnitudeIs DEF TransformedBy
<1>3. t \in Tokens /\ Sign(delta[t]) \in {-1, 1}
  BY <1>1, GroupsOf
<1>4. advantage[t] = Signed(Sign(delta[t]), m)
  BY <1>3 DEF TransformedBy, Transformed
<1> HIDE DEF m
<1>5. Abs(advantage[t]) = m
  BY <1>2, <1>3, <1>4, SignedMagnitude
<1> QED
  BY <1>3, <1>5 DEF Magnitudes, m

(* Each group keeps its strength.                                          *)
LEMMA PermutationKeeps ==
  ASSUME NEW d, Push(d), NEW p \in Permuted(d), NEW g \in {Positive(d), Negative(d)},
         NEW h, \A t \in g : h[t] = Abs(d[p[t]])
  PROVE  Sum(h, g) = Strength(d, g)
<1>1. /\ g \in SUBSET Moved(d) /\ Summable(Magnitudes(d), g)
      /\ \A t \in Moved(d) : Magnitudes(d)[t] = Abs(d[t])
  BY Groups, GroupIs
<1>2. /\ p \in [Moved(d) -> Moved(d)] /\ \A t \in Moved(d) : Sign(d[p[t]]) = Sign(d[t])
      /\ \A t, u \in Moved(d) : t # u => p[t] # p[u]
  BY DEF Permuted
<1>3. \A t \in g : p[t] \in g
  BY <1>1, <1>2 DEF Moved, Positive, Negative
<1> DEFINE q == [t \in g |-> p[t]]
<1>4. q \in [g -> g] /\ \A t, u \in g : t # u => q[t] # q[u]
  BY <1>1, <1>2, <1>3
<1>5. \A t \in g : h[t] = Magnitudes(d)[q[t]]
  BY <1>1, <1>3
<1> HIDE DEF q
<1> QED
  BY <1>1, <1>4, <1>5, SumPermuted DEF Strength

(* The modes that keep the strength of each sign.                          *)
LEMMA GroupKeeps ==
  ASSUME LossInv, CreditInv, NEW p, TransformedBy(p),
         setting.mode \in {"perm", "group_const", "alloc_power"},
         NEW g \in {Positive(delta), Negative(delta)}
  PROVE  Strength(advantage, g) = Strength(delta, g)
<1> DEFINE d == delta
           h == Magnitudes(advantage)
<1>1. Push(d)
  BY PushIs
<1>2. g \in SUBSET Moved(d) /\ \A t \in g : GroupOf(d, t) = g
  BY <1>1, Groups
<1>3. \A t \in g : h[t] = NewMagnitude(d, t, setting.mode, setting.param, p)
  BY <1>2, NewMagnitudes
<1>4. Strength(d, g) \in Lowest /\ (g = {} => Strength(d, g) = Zero)
  BY <1>1, <1>2, GroupIs
<1>5. Strength(advantage, g) = Sum(h, g)
  BY DEF Strength
<1>6. p \in Permuted(delta) \/ setting.mode # "perm"
  BY DEF TransformedBy
<1> HIDE DEF h
<1>7. CASE setting.mode = "perm"
  <2>1. \A t \in g : h[t] = Abs(d[p[t]])
    BY <1>3, <1>7 DEF NewMagnitude
  <2> HIDE DEF d
  <2> QED
    BY <1>1, <1>5, <1>6, <1>7, <2>1, PermutationKeeps DEF d
<1>8. CASE setting.mode = "group_const"
  <2>1. \A t \in g : h[t] = Over(Strength(d, g), Count(g))
    BY <1>2, <1>3, <1>8 DEF NewMagnitude
  <2>2. CASE g = {}
    <3>1. Summable(h, {})
      BY FS_EmptySet DEF Summable
    <3>2. Sum(h, {}) = Zero
      BY <3>1, SumRecurs
    <3> QED
      BY <1>4, <1>5, <2>2, <3>2
  <2>3. CASE g # {}
    BY <1>1, <1>2, <1>4, <1>5, <2>1, <2>3, SumShared
  <2> QED
    BY <2>2, <2>3
<1>9. CASE setting.mode = "alloc_power"
  <2>1. setting.param \in 0..2
    BY <1>9, LossAssumption DEF LossInv, LossInputs
  <2>2. \A t \in g : h[t] = Times(Strength(d, g), Alloc(d, g, t, setting.param))
    BY <1>2, <1>3, <1>9 DEF NewMagnitude
  <2> QED
    BY <1>1, <1>2, <1>4, <1>5, <2>1, <2>2, SumAllocated
<1> QED
  BY <1>7, <1>8, <1>9

LEMMA NothingOver ==
  ASSUME NEW q \in Lowest, q # Zero
  PROVE  Over(Zero, q) = Zero /\ Over(q, q) = One
<1>1. Over(Zero, q) = Times(Zero, Over(One, q)) /\ Over(One, q) \in Lowest
      /\ Over(q, q) = Times(q, Over(One, q)) /\ Times(Over(One, q), q) = One
  BY ZeroLowest, OverLaws
<1>2. Times(Zero, Over(One, q)) = Zero /\ Times(q, Over(One, q)) = Times(Over(One, q), q)
  BY <1>1, TimesLaws
<1> QED
  BY <1>1, <1>2

LEMMA TimesEnds ==
  ASSUME NEW q \in Lowest
  PROVE  Times(q, Zero) = Zero /\ Times(q, One) = q /\ Plus(q, Zero) = q /\ Plus(Zero, Zero) = Zero
<1>1. Times(q, Zero) = Times(Zero, q) /\ Times(q, One) = Times(One, q)
      /\ Times(Zero, q) = Zero /\ Times(One, q) = q
  BY ZeroLowest, TimesLaws
<1>2. Plus(q, Zero) = Plus(Zero, q) /\ Plus(Zero, q) = q /\ Plus(Zero, Zero) = Zero
  BY ZeroLowest, PlusLaws
<1> QED
  BY <1>1, <1>2

(* What of the strength the positive tokens are given is all or nothing    *)
(* when all or none are positive.                                          *)
LEMMA InterpolatedIs ==
  ASSUME NEW d, Push(d), Moved(d) # {}, NEW beta \in Lowest
  PROVE  /\ Interpolated(d, beta) \in Lowest
         /\ Positive(d) = {} => Interpolated(d, beta) = Zero
         /\ Negative(d) = {} => Interpolated(d, beta) = One
<1> DEFINE s == Strength(d, Positive(d))
           S == Strength(d, Moved(d))
           n == Count(Positive(d))
           N == Count(Moved(d))
           gamma == Minus(One, beta)
<1>1. /\ s \in Lowest /\ S \in Lowest /\ S # Zero /\ n \in Lowest /\ N \in Lowest /\ N # Zero
      /\ Positive(d) = {} => s = Zero /\ n = Zero
      /\ Negative(d) = {} => s = S /\ n = N
  <2>1. Positive(d) \in SUBSET Moved(d) /\ Moved(d) \in SUBSET Moved(d)
        /\ Moved(d) = Positive(d) \cup Negative(d)
    BY Groups
  <2>2. Negative(d) = {} => Positive(d) = Moved(d)
    BY <2>1
  <2> QED
    BY <2>1, <2>2, GroupIs
<1>2. gamma \in Lowest /\ Plus(beta, gamma) = One
  BY ZeroLowest, MinusLaws
<1>3. Interpolated(d, beta) = Plus(Times(beta, Over(s, S)), Times(gamma, Over(n, N)))
  BY DEF Interpolated
<1> HIDE DEF s, S, n, N, gamma
<1>4. Over(s, S) \in Lowest /\ Over(n, N) \in Lowest
  BY <1>1, OverLaws
<1>5. Times(beta, Over(s, S)) \in Lowest /\ Times(gamma, Over(n, N)) \in Lowest
  BY <1>2, <1>4, TimesLaws
<1>6. Plus(Times(beta, Over(s, S)), Times(gamma, Over(n, N))) \in Lowest
  BY <1>5, PlusLaws
<1>7. ASSUME Positive(d) = {} PROVE Interpolated(d, beta) = Zero
  <2>1. Over(s, S) = Zero /\ Over(n, N) = Zero
    BY <1>1, <1>7, NothingOver
  <2>2. Times(beta, Zero) = Zero /\ Times(gamma, Zero) = Zero /\ Plus(Zero, Zero) = Zero
    BY <1>2, TimesEnds
  <2> QED
    BY <1>3, <2>1, <2>2
<1>8. ASSUME Negative(d) = {} PROVE Interpolated(d, beta) = One
  <2>1. Over(s, S) = One /\ Over(n, N) = One
    BY <1>1, <1>8, NothingOver
  <2>2. Times(beta, One) = beta /\ Times(gamma, One) = gamma
    BY <1>2, TimesEnds
  <2> QED
    BY <1>2, <1>3, <2>1, <2>2
<1> QED
  BY <1>3, <1>6, <1>7, <1>8

LEMMA ShareOfPositive ==
  ASSUME NEW d, Push(d), Moved(d) # {}, NEW beta \in Lowest
  PROVE  /\ PositiveShare(d, beta) \in Lowest
         /\ Positive(d) = {} => PositiveShare(d, beta) = Zero
         /\ Negative(d) = {} => PositiveShare(d, beta) = One
<1> DEFINE r == Interpolated(d, beta)
<1>1. /\ r \in Lowest /\ (Positive(d) = {} => r = Zero) /\ (Negative(d) = {} => r = One)
  BY InterpolatedIs
<1>2. PositiveShare(d, beta) = IF AtMost(r, Zero) THEN Zero ELSE IF AtMost(One, r) THEN One ELSE r
  BY DEF PositiveShare
<1> HIDE DEF r
<1>3. AtMost(Zero, Zero) /\ ~AtMost(One, Zero) /\ AtMost(One, One)
  BY DEF AtMost, Zero, One
<1> QED
  BY <1>1, <1>2, <1>3, ZeroLowest

(* The modes that keep the strength of both signs together.                *)
LEMMA TogetherKeep ==
  ASSUME LossInv, CreditInv, NEW p, TransformedBy(p),
         setting.mode \in {"sign_mass_raw_alloc", "strength_interp"}
  PROVE  Strength(advantage, Moved(delta)) = Strength(delta, Moved(delta))
<1> DEFINE d == delta
           h == Magnitudes(advantage)
           A == Positive(d)
           B == Negative(d)
           M == Moved(d)
           S == Strength(d, M)
<1>1. Push(d)
  BY PushIs
<1>2. /\ A \in SUBSET M /\ B \in SUBSET M /\ M = A \cup B /\ A \cap B = {}
      /\ \A t \in M : GroupOf(d, t) = IF t \in A THEN A ELSE B
  BY <1>1, Groups
<1>3. \A t \in M : h[t] = NewMagnitude(d, t, setting.mode, setting.param, p)
  BY NewMagnitudes
<1>4. Strength(advantage, M) = Sum(h, M)
  BY DEF Strength
<1>5. /\ S \in Lowest /\ Count(A) \in Lowest /\ Count(B) \in Lowest /\ Count(M) \in Lowest
      /\ M = {} => S = Zero
      /\ M # {} => S # Zero /\ Count(M) # Zero
      /\ A = {} => Count(A) = Zero
      /\ B = {} => Count(B) = Zero
  BY <1>1, <1>2, GroupIs
<1>6. Count(M) = Plus(Count(A), Count(B))
  BY <1>1, TwoGroups
<1> HIDE DEF h, A, B, M, S
<1>7. CASE M = {}
  <2>1. Summable(h, {})
    BY FS_EmptySet DEF Summable
  <2>2. Sum(h, {}) = Zero
    BY <2>1, SumRecurs
  <2> QED
    BY <1>4, <1>5, <1>7, <2>2 DEF M, S
<1>8. CASE M # {} /\ setting.mode = "sign_mass_raw_alloc"
  <2> DEFINE c == Over(S, Count(M))
  <2>1. c \in Lowest /\ Times(c, Count(M)) = S
    BY <1>5, <1>8, OverLaws
  <2>2. \A t \in M : LET g == GroupOf(d, t)
                     IN  h[t] = Times(Times(c, Count(g)), Alloc(d, g, t, 1))
    BY <1>3, <1>8 DEF NewMagnitude, S, M
  <2> HIDE DEF c
  <2>3. (\A t \in A : h[t] = Times(Times(c, Count(A)), Alloc(d, A, t, 1)))
        /\ (\A t \in B : h[t] = Times(Times(c, Count(B)), Alloc(d, B, t, 1)))
    BY <1>2, <2>2
  <2>4. /\ Times(c, Count(A)) \in Lowest /\ Times(c, Count(B)) \in Lowest
        /\ A = {} => Times(c, Count(A)) = Zero
        /\ B = {} => Times(c, Count(B)) = Zero
    BY <1>5, <2>1, TimesLaws, TimesEnds
  <2>5. Sum(h, A) = Times(c, Count(A)) /\ Summable(h, A)
    <3> DEFINE w == Times(c, Count(A))
    <3>1. w \in Lowest /\ (A = {} => w = Zero) /\ \A t \in A : h[t] = Times(w, Alloc(d, A, t, 1))
      BY <2>3, <2>4
    <3>2. A \in SUBSET Moved(d) /\ 1 \in 0..2
      BY <1>2 DEF M
    <3> HIDE DEF w
    <3>3. Sum(h, A) = w /\ Summable(h, A)
      BY <1>1, <3>1, <3>2, SumAllocated
    <3> QED
      BY <3>3 DEF w
  <2>6. Sum(h, B) = Times(c, Count(B)) /\ Summable(h, B)
    <3> DEFINE w == Times(c, Count(B))
    <3>1. w \in Lowest /\ (B = {} => w = Zero) /\ \A t \in B : h[t] = Times(w, Alloc(d, B, t, 1))
      BY <2>3, <2>4
    <3>2. B \in SUBSET Moved(d) /\ 1 \in 0..2
      BY <1>2 DEF M
    <3> HIDE DEF w
    <3>3. Sum(h, B) = w /\ Summable(h, B)
      BY <1>1, <3>1, <3>2, SumAllocated
    <3> QED
      BY <3>3 DEF w
  <2>7. Sum(h, M) = Plus(Times(c, Count(A)), Times(c, Count(B)))
    BY <1>2, <2>5, <2>6, SumUnion
  <2>8. Times(c, Plus(Count(A), Count(B))) = Plus(Times(c, Count(A)), Times(c, Count(B)))
    BY <1>5, <2>1, TimesLaws
  <2> QED
    BY <1>4, <1>6, <2>1, <2>7, <2>8 DEF M, S
<1>9. CASE M # {} /\ setting.mode = "strength_interp"
  <2> DEFINE share == PositiveShare(d, setting.param)
             rest == Minus(One, share)
  <2>1. share \in Lowest /\ (A = {} => share = Zero) /\ (B = {} => share = One)
    <3>1. setting.param \in Lowest
      BY <1>9, LossAssumption, NumbersLowest DEF LossInv, LossInputs
    <3> QED
      BY <1>1, <1>9, <3>1, ShareOfPositive DEF A, B, M
  <2>2. \A t \in M : LET g == GroupOf(d, t)
                     IN  h[t] = Over(Times(IF g = A THEN share ELSE rest, S), Count(g))
    BY <1>3, <1>9 DEF NewMagnitude, InterpStrength, S, M, A
  <2>3. rest \in Lowest /\ Plus(share, rest) = One
    <3> HIDE DEF share
    <3> QED
      BY <2>1, ZeroLowest, MinusLaws
  <2>4. A = {} => rest = One
    <3> HIDE DEF share
    <3> QED
      BY <2>1, ZeroLowest, MinusLaws
  <2> HIDE DEF share, rest
  <2>5. B # {} => A # B
    BY <1>2
  <2>6. (\A t \in A : h[t] = Over(Times(share, S), Count(A)))
        /\ (\A t \in B : h[t] = Over(Times(rest, S), Count(B)))
    BY <1>2, <2>2, <2>5
  <2>7. Times(share, S) \in Lowest /\ Times(rest, S) \in Lowest
    BY <1>5, <2>1, <2>3, TimesLaws
  <2>8. A # {} => Sum(h, A) = Times(share, S) /\ Summable(h, A)
    BY <1>1, <1>2, <2>6, <2>7, SumShared DEF M
  <2>9. B # {} => Sum(h, B) = Times(rest, S) /\ Summable(h, B)
    BY <1>1, <1>2, <2>6, <2>7, SumShared DEF M
  <2>10. Times(One, S) = S
    BY <1>5, TimesLaws
  <2>11. CASE A = {}
    BY <1>2, <1>4, <1>9, <2>4, <2>9, <2>10, <2>11 DEF M, S
  <2>12. CASE B = {}
    BY <1>2, <1>4, <1>9, <2>1, <2>8, <2>10, <2>12 DEF M, S
  <2>13. CASE A # {} /\ B # {}
    <3>1. Sum(h, M) = Plus(Times(share, S), Times(rest, S))
      BY <1>2, <2>8, <2>9, <2>13, SumUnion
    <3>2. Times(S, Plus(share, rest)) = Plus(Times(S, share), Times(S, rest))
          /\ Times(S, share) = Times(share, S) /\ Times(S, rest) = Times(rest, S)
      BY <1>5, <2>1, <2>3, TimesLaws
    <3>3. Times(S, One) = S
      BY <1>5, TimesEnds
    <3> QED
      BY <1>4, <2>3, <3>1, <3>2, <3>3 DEF M, S
  <2> QED
    BY <2>11, <2>12, <2>13
<1> QED
  BY <1>7, <1>8, <1>9

LEMMA StrengthsKept == LossInv /\ CreditInv => StrengthKept
<1> SUFFICES ASSUME LossInv, CreditInv, stage = "loss" PROVE StrengthKept
  BY DEF StrengthKept
<1>1. PICK p : TransformedBy(p)
  BY DEF CreditInv
<1> QED
  BY <1>1, GroupKeeps, TogetherKeep DEF StrengthKept

(* The ends of the sweep over the exponent.                                *)
LEMMA AllocEnds ==
  ASSUME NEW d, Push(d), NEW t \in Moved(d)
  PROVE  LET g == GroupOf(d, t)
         IN /\ Times(Strength(d, g), Alloc(d, g, t, 1)) = Abs(d[t])
            /\ Times(Strength(d, g), Alloc(d, g, t, 0)) = Over(Strength(d, g), Count(g))
<1> DEFINE g == GroupOf(d, t)
           S == Strength(d, g)
           N == Count(g)
           a == Abs(d[t])
<1>1. g \in SUBSET Moved(d) /\ t \in g
  BY GroupsOf DEF Push
<1>2. /\ Summable(Magnitudes(d), g) /\ S \in Lowest /\ N \in Lowest /\ S # Zero /\ N # Zero
      /\ IsFiniteSet(g) /\ a \in Lowest
  BY <1>1, GroupIs, Groups
<1>3. \A u \in g : Power(Abs(d[u]), 1) = Magnitudes(d)[u] /\ Power(Abs(d[u]), 0) = One
  <2> SUFFICES ASSUME NEW u \in g
               PROVE  Power(Abs(d[u]), 1) = Magnitudes(d)[u] /\ Power(Abs(d[u]), 0) = One
    OBVIOUS
  <2>1. Magnitudes(d)[u] = Abs(d[u]) /\ d[u] \in Lowest
    BY <1>1, Groups, GroupsOf DEF Push, AllLowest
  <2> QED
    BY <2>1, AbsLowest
<1>4. Sum(Allocs(d, g, 1), g) = S
  <2>1. \A u \in g : Allocs(d, g, 1)[u] = Magnitudes(d)[u]
    BY <1>3 DEF Allocs
  <2> HIDE DEF g
  <2> QED
    BY <1>2, <2>1, SumAlike DEF Strength
<1>5. Sum(Allocs(d, g, 0), g) = N
  <2>1. \A u \in g : Allocs(d, g, 0)[u] = One
    BY <1>3 DEF Allocs
  <2> HIDE DEF g, N
  <2>2. Sum(Allocs(d, g, 0), g) = Times(N, One)
    BY <1>2, <2>1, ZeroLowest, SumOfSame DEF N
  <2> QED
    BY <1>2, <2>2, TimesEnds
<1>6. Alloc(d, g, t, 1) = Over(a, S) /\ Alloc(d, g, t, 0) = Over(One, N)
  <2>1. Power(a, 1) = a /\ Power(a, 0) = One
    BY DEF Power
  <2>2. Alloc(d, g, t, 1) = Over(Power(a, 1), Sum(Allocs(d, g, 1), g))
    BY DEF Alloc, Allocs
  <2>3. Alloc(d, g, t, 0) = Over(Power(a, 0), Sum(Allocs(d, g, 0), g))
    BY DEF Alloc, Allocs
  <2> QED
    BY <1>4, <1>5, <2>1, <2>2, <2>3
<1> HIDE DEF g, S, N, a
<1>7. Times(S, Over(a, S)) = a
  <2>1. Times(S, Over(a, S)) = Times(Over(a, S), S)
    <3>1. Over(a, S) \in Lowest
      BY <1>2, OverLaws
    <3> QED
      BY <1>2, <3>1, TimesLaws
  <2>2. Times(Over(a, S), S) = a
    BY <1>2, OverLaws
  <2> QED
    BY <2>1, <2>2
<1>8. Times(S, Over(One, N)) = Over(S, N)
  BY <1>2, OverLaws
<1> QED
  BY <1>6, <1>7, <1>8 DEF g, S, N, a

(* Two numbers that are not negative and add up to one are within it.      *)
LEMMA WithinOne ==
  ASSUME NEW p \in Lowest, NEW q \in Lowest, Plus(p, q) = One, p[1] >= 0, q[1] >= 0
  PROVE  (AtMost(p, Zero) => p = Zero) /\ (AtMost(One, p) => p = One)
<1> DEFINE a == p[1]
           b == p[2]
           x == q[1]
           y == q[2]
<1>1. a \in Nat /\ b \in Nat \ {0} /\ x \in Nat /\ y \in Nat \ {0} /\ Value(p, a, b) /\ Value(q, x, y)
  BY LowestParts, ValueOf
<1>2. ASSUME AtMost(p, Zero) PROVE p = Zero
  <2>1. p[1] = 0
    <3>1. a * 1 <= 0 * b
      BY <1>2 DEF AtMost, Zero
    <3> HIDE DEF a, b
    <3>2. a = 0
      BY <1>1, <3>1
    <3> QED
      BY <3>2 DEF a
  <2> QED
    BY <2>1, ZeroOnly
<1>3. ASSUME AtMost(One, p) PROVE p = One
  <2>1. b <= a
    <3>1. 1 * b <= a * 1
      BY <1>3 DEF AtMost, One
    <3> HIDE DEF a, b
    <3> QED
      BY <1>1, <3>1
  <2> DEFINE s == a * y + x * b
             c == b * y
  <2> HIDE DEF a, b, x, y
  <2>2. Value(One, s, c)
    <3>1. Value(Plus(p, q), s, c)
      BY <1>1, PlusValue
    <3> QED
      BY <3>1
  <2>3. c = s
    <3>1. s \in Int /\ c \in Int
      BY <1>1
    <3> HIDE DEF s, c
    <3>2. 1 * c = s * 1
      BY <2>2 DEF Value, One
    <3> QED
      BY <3>1, <3>2
  <2>4. x = 0
    <3>1. (a - b) * y >= 0 /\ (a - b) * y = a * y - b * y
      <4> DEFINE z == a - b
      <4>1. z \in Nat
        BY <1>1, <2>1
      <4>2. (a - b) * y = a * y - b * y
        BY <1>1
      <4> HIDE DEF z
      <4>3. z * y >= 0
        BY <1>1, <4>1
      <4> QED
        BY <4>2, <4>3 DEF z
    <3>2. a * y \in Int /\ b * y \in Int /\ x * b \in Int
      BY <1>1
    <3>3. x * b <= 0
      BY <2>3, <3>1, <3>2
    <3>4. x > 0 => x * b > 0
      BY <1>1
    <3> QED
      BY <1>1, <3>2, <3>3, <3>4
  <2>5. q = Zero
    BY <2>4, ZeroOnly DEF x
  <2> QED
    BY <2>5, TimesEnds
<1> QED
  BY <1>2, <1>3

(* The ends of the sweep over the strengths.                               *)
LEMMA InterpEnds ==
  ASSUME NEW d, Push(d), NEW t \in Moved(d)
  PROVE  LET g == GroupOf(d, t)
         IN InterpStrength(d, g, One) = Over(Strength(d, g), Count(g))
<1> DEFINE A == Positive(d)
           B == Negative(d)
           S == Strength(d, Moved(d))
           s == Strength(d, A)
           u == Strength(d, B)
           r == Over(s, S)
           q == Over(u, S)
           g == GroupOf(d, t)
<1>1. /\ s \in Lowest /\ u \in Lowest /\ S \in Lowest /\ S # Zero
      /\ NotNegative(s) /\ NotNegative(u) /\ IsPositive(S)
      /\ Count(A) \in Lowest /\ Count(Moved(d)) \in Lowest /\ Count(Moved(d)) # Zero
  <2>1. A \in SUBSET Moved(d) /\ B \in SUBSET Moved(d) /\ Moved(d) \in SUBSET Moved(d) /\ Moved(d) # {}
    BY Groups
  <2>2. IsPositive(S)
    BY <2>1, StrengthIs DEF Push
  <2> QED
    BY <2>1, <2>2, GroupIs
<1>2. S = Plus(s, u)
  BY TwoGroups
<1>3. g = (IF t \in A THEN A ELSE B) /\ (t \notin A => A # B) /\ Moved(d) # {}
  BY Groups
<1>4. Interpolated(d, One) = Plus(Times(One, r), Times(Minus(One, One), Over(Count(A), Count(Moved(d)))))
  BY DEF Interpolated
<1>5. InterpStrength(d, g, One)
        = Over(Times(IF g = A THEN PositiveShare(d, One) ELSE Minus(One, PositiveShare(d, One)), S), Count(g))
  BY DEF InterpStrength
<1> HIDE DEF A, B, S, s, u, g
<1>6. r \in Lowest /\ q \in Lowest /\ r[1] >= 0 /\ q[1] >= 0
  <2>1. r \in Lowest /\ q \in Lowest
    BY <1>1, OverLaws
  <2>2. NotNegative(r) /\ NotNegative(q)
    BY <1>1, QuotientIs
  <2> QED
    BY <2>1, <2>2 DEF NotNegative
<1>7. Times(r, S) = s /\ Times(q, S) = u
  BY <1>1, OverLaws
<1>8. Plus(r, q) = One
  <2> DEFINE i == Over(One, S)
  <2>1. i \in Lowest /\ r = Times(s, i) /\ q = Times(u, i) /\ Times(i, S) = One
    BY <1>1, OverLaws
  <2> HIDE DEF i, r, q
  <2>2. Times(i, Plus(s, u)) = Plus(Times(i, s), Times(i, u))
        /\ Times(i, s) = Times(s, i) /\ Times(i, u) = Times(u, i)
    BY <1>1, <2>1, TimesLaws
  <2> QED
    BY <1>2, <2>1, <2>2
<1> HIDE DEF r, q
<1>9. Interpolated(d, One) = r
  <2> DEFINE n == Over(Count(A), Count(Moved(d)))
  <2>1. n \in Lowest
    BY <1>1, OverLaws
  <2>2. Times(One, r) = r /\ Times(Zero, n) = Zero /\ Plus(r, Zero) = r
    BY <1>6, <2>1, TimesLaws, TimesEnds
  <2>3. Minus(One, One) = Zero
    BY ZeroIs, MinusIs
  <2> QED
    BY <1>4, <2>2, <2>3
<1>10. PositiveShare(d, One) = r
  <2>1. (AtMost(r, Zero) => r = Zero) /\ (AtMost(One, r) => r = One)
    BY <1>6, <1>8, WithinOne
  <2> QED
    BY <1>9, <2>1 DEF PositiveShare
<1>11. Minus(One, r) = q
  <2> DEFINE m == Minus(One, r)
  <2>1. m \in Lowest /\ Plus(r, m) = One
    BY <1>6, ZeroLowest, MinusLaws
  <2> HIDE DEF m
  <2>2. Plus(m, Plus(r, q)) = Plus(Plus(m, r), q) /\ Plus(m, r) = Plus(r, m)
    BY <1>6, <2>1, PlusLaws
  <2>3. Plus(m, One) = Plus(One, q)
    BY <1>8, <2>1, <2>2
  <2>4. m = q
    <3> DEFINE k == Minus(Zero, One)
    <3>1. k \in Lowest /\ Plus(One, k) = Zero
      BY ZeroLowest, MinusLaws
    <3> HIDE DEF k
    <3>2. Plus(Plus(m, One), k) = Plus(m, Plus(One, k)) /\ Plus(m, Zero) = m
      BY <2>1, <3>1, ZeroLowest, PlusLaws, TimesEnds
    <3>3. Plus(One, q) = Plus(q, One) /\ Plus(Plus(q, One), k) = Plus(q, Plus(One, k)) /\ Plus(q, Zero) = q
      BY <1>6, <3>1, ZeroLowest, PlusLaws, TimesEnds
    <3> QED
      BY <2>3, <3>1, <3>2, <3>3
  <2> QED
    BY <2>4 DEF m
<1>12. CASE t \in A
  BY <1>3, <1>5, <1>7, <1>10, <1>12 DEF s, g
<1>13. CASE t \notin A
  BY <1>3, <1>5, <1>7, <1>10, <1>11, <1>13 DEF u, g
<1> QED
  BY <1>12, <1>13 DEF g

LEMMA SweepsDoMeet == LossInv /\ CreditInv => SweepsMeet
<1> SUFFICES ASSUME LossInv, CreditInv PROVE SweepsMeet
  OBVIOUS
<1> DEFINE d == delta
           new(t, way, param) == NewMagnitude(d, t, way, param, <<>>)
<1>1. Push(d)
  BY PushIs
<1>2. ASSUME NEW t \in Moved(d)
      PROVE  /\ new(t, "alloc_power", 1) = new(t, "raw", One)
             /\ new(t, "alloc_power", 0) = new(t, "group_const", One)
             /\ new(t, "strength_interp", One) = new(t, "group_const", One)
             /\ new(t, "power", 1) = new(t, "raw", One) /\ new(t, "power", 0) = new(t, "sign", One)
  <2>1. new(t, "raw", One) = Abs(d[t]) /\ new(t, "sign", One) = One
    BY DEF NewMagnitude
  <2>2. new(t, "power", 1) = Abs(d[t]) /\ new(t, "power", 0) = One
    BY DEF NewMagnitude, Power
  <2>3. new(t, "group_const", One) = Over(Strength(d, GroupOf(d, t)), Count(GroupOf(d, t)))
    BY DEF NewMagnitude
  <2>4. /\ new(t, "alloc_power", 1) = Times(Strength(d, GroupOf(d, t)), Alloc(d, GroupOf(d, t), t, 1))
        /\ new(t, "alloc_power", 0) = Times(Strength(d, GroupOf(d, t)), Alloc(d, GroupOf(d, t), t, 0))
    BY DEF NewMagnitude
  <2>5. new(t, "strength_interp", One) = InterpStrength(d, GroupOf(d, t), One)
    BY DEF NewMagnitude
  <2> HIDE DEF new
  <2> QED
    BY <1>1, <2>1, <2>2, <2>3, <2>4, <2>5, AllocEnds, InterpEnds
<1> QED
  BY <1>2 DEF SweepsMeet, Transformed

(* CreditKept: whatever the payloads and the settings, a chunk is given    *)
(* the teacher's log-probability of it to the last, pushed one way, and a  *)
(* transform keeps what it says it keeps: the strength of each sign, or of *)
(* both together, the sign of every token, and the ends of its sweep.      *)
THEOREM CreditStaysWhole == LossSpec => []CreditKept
<1>1. LossInv /\ CreditInv => CreditKept
  BY LossImplied, ChunksConserved, StrengthsKept, SweepsDoMeet DEF CreditKept
<1> QED
  BY <1>1, CreditAlways, PTL
===============================================================================
