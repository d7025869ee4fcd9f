---------------------------- MODULE Rollouter_proofs ----------------------------
(***************************************************************************)
(* Proofs about the samples in the composed system, for every value of the *)
(* constants: that the lock's sections exclude one another, where each     *)
(* sample is, how many are outstanding, and, when rollouts are partial,    *)
(* how old what the trainer gets is.  The last part is about synchronous   *)
(* mode (a staleness threshold of zero): what FlowInv, EndInv and SyncInv  *)
(* say of it together is that a synchronisation finds the system empty.    *)
(***************************************************************************)
EXTENDS FullyAsync_proofs

-----------------------------------------------------------------------------
(* The samples.  A sample is in one place at a time, and a queue has it    *)
(* once.                                                                   *)
Places == {"unfed", "pending", "cancelled", "hand", "task", "failed", "queue", "batch",
           "dropped", "trained", "cleared"}

LocatedAt(s, p) ==
  /\ p = "unfed" <=> s > fed
  /\ p = "pending" <=> s \in ToSet(pending)
  /\ p = "cancelled" <=> s \in ToSet(cancelled)
  /\ p = "hand" <=> s = hand
  /\ p = "task" <=> task[s] \in UnderWay
  /\ p = "failed" <=> s \in failed
  /\ p = "queue" <=> s \in ToSet(queue)
  /\ p = "batch" <=> s \in ToSet(batch)
  /\ p = "dropped" <=> s \in dropped
  /\ p = "trained" <=> s \in trained
  /\ p = "cleared" => cleared > 0
  /\ task[s] = "put" => p \in {"queue", "batch", "dropped", "trained", "cleared"}
  /\ task[s] = "error" => p = "failed"

Located == \A s \in Samples : \E p \in Places : LocatedAt(s, p)

(* The None sample is put once, after the samples. *)
SampleLines ==
  /\ Line(pending, 1..DONE) /\ ToSet(pending) \subseteq 1..fed
  /\ Line(cancelled, Samples) /\ Line(queue, Payload) /\ Line(batch, Samples)
  /\ main \in {"streaming", "signalling"} => STOP \notin ToSet(queue)
  /\ cleared \in Nat

SampleInv == SampleLines /\ Located

placeVars == <<pending, fed, cancelled, hand, task, failed, queue, batch, dropped, trained,
               cleared>>

(* The steps that move a sample. *)
LEMMA MovingSteps ==
  ASSUME TypeInv, [Next]_vars
  PROVE  \/ /\ UNCHANGED trainerVars
            /\ \/ FeedSamples \/ TakeCancelled \/ TakePending \/ ProcSubmit
               \/ Tasks \/ MainSignal
               \/ \E s \in Samples : Generation(s) \/ ServerError(s)
         \/ TrainerGet \/ TrainerStep \/ MainClear
         \/ /\ UNCHANGED placeVars
            /\ main' \in {"streaming", "signalling"} => main \in {"streaming", "signalling"}
<1> USE DEF placeVars, mqVars, queueVars, taskVars, procVars, histVars, rollVars, trainerVars
<1>1. CASE Rollout /\ Processor
  BY <1>1 DEF Processor, ProcCheck, ProcBlock, ProcSetPaused, ProcLoopDone, ProcCollectBegin,
     ProcCollect, ProcCollectNothing, ProcIdle, TakeWait, Rollout
<1>2. CASE Rollout /\ (Monitor \/ MainCoroutine \/ MonitorTimer)
  BY <1>2 DEF Monitor, MonitorTick, MonitorBlock, MonitorUnpause, MonitorLook,
     MainCoroutine, MainWake, MainBlock, MainStop, MonitorTimer, Rollout
<1>3. CASE Rollout /\ SyncCalls
  BY <1>3 DEF SyncCalls, SyncBlock, PauseBegin, PauseCancelled, PauseGathered, PauseEnd,
     UpdateBegin, UpdateCounted, UpdateEnd, ResumeServers, ResumeEnd, ResumeEffect, Rollout
<1>4. CASE Rollout /\ Replies
  BY <1>4 DEF Replies, CallArrives, ServersCancel, ServersReset, QueueCounts, QueuePublishes,
     ServersResume, PutValidate, mqCounters, Rollout
<1>5. CASE Trainer
  BY <1>5 DEF Trainer, TrainerLog, LogValidation, GetValidate, mqCounters, SyncWeights,
     FinalLog, FinalDecide, FinalValidLog
<1>6. CASE Transfer \/ UNCHANGED vars
  BY <1>6 DEF Transfer, TransferBegin, TransferEnd, UpdateParamVersion, mqCounters, vars
<1> QED BY <1>1, <1>2, <1>3, <1>4, <1>5, <1>6
   DEF Next, Rollout, RollNext, EventLoop, Terminated

LEMMA SampleInvInit == Init => SampleInv
<1> SUFFICES ASSUME Init PROVE SampleInv
  OBVIOUS
<1> USE DEF Init, RollInit
<1>1. \A S : Line(<<>>, S) /\ ToSet(<<>>) = {}
  BY EmptyLine
<1>2. SampleLines
  BY <1>1 DEF SampleLines
<1>3. ASSUME NEW s \in Samples
      PROVE  LocatedAt(s, "unfed")
  BY <1>1, Constants DEF LocatedAt, UnderWay, NoSample
<1>4. Located
  BY <1>3 DEF Located, Places
<1> QED BY <1>2, <1>4 DEF SampleInv

(* What a put evicts. *)
Fallen == ToSet(queue) \ ToSet(Evicted)

(* What a put adds to the queue and what it evicts.                        *)
LEMMA PutMoves ==
  ASSUME TypeInv, SampleLines, NEW x \in Payload, x \notin ToSet(queue), PutSample(x), Evict
  PROVE  /\ Line(queue', Payload) /\ ToSet(queue') = (ToSet(queue) \ Fallen) \cup {x}
         /\ dropped' = dropped \cup Fallen /\ cleared' = cleared
<1>1. queue' = Append(Evicted, x) /\ cleared' = cleared /\ dropped' = dropped \cup Fallen
  BY DEF PutSample, Evict, Fallen
<1>2. Line(queue, Payload) /\ queue \in Seq(Payload) /\ max_queue_size \in Nat \ {0}
  BY Constants DEF SampleLines, Line
<1>3. Line(Evicted, Payload) /\ ToSet(Evicted) \subseteq ToSet(queue)
  <2>1. CASE Full
    <3>1. queue # <<>>
      BY <1>2, <2>1 DEF Full
    <3> QED BY <1>2, <2>1, <3>1, ShorterLine DEF Evicted
  <2>2. CASE ~Full
    BY <1>2, <2>2 DEF Evicted
  <2> QED BY <2>1, <2>2
<1>4. x \notin ToSet(Evicted)
  BY <1>3
<1>5. Line(Append(Evicted, x), Payload) /\ ToSet(Append(Evicted, x)) = ToSet(Evicted) \cup {x}
  BY <1>3, <1>4, LongerLine
<1> QED BY <1>1, <1>3, <1>5 DEF Fallen

(* What _put_sample evicts is dropped; a sample is put by its own task.    *)
LEMMA PutsLocate ==
  ASSUME TypeInv, SampleInv, UNCHANGED trainerVars,
         \/ \E s \in Samples : QueuePut(s)
         \/ MainSignal
  PROVE  SampleInv'
<1> USE DEF queueVars, taskVars, procVars, trainerVars
<1>1. SampleLines /\ Located /\ task \in [Samples -> TaskState]
  BY DEF SampleInv, TypeInv, SampleTypes
<1>2. Samples \subseteq Payload /\ STOP \in Payload /\ STOP \notin Samples
  BY Constants
<1>3. ASSUME NEW s \in Samples, QueuePut(s)
      PROVE  SampleInv'
  <2>1. /\ UNCHANGED <<pending, fed, cancelled, hand, failed, main, batch, trained>>
        /\ task[s] = "putting" /\ task' = [task EXCEPT ![s] = "put"]
        /\ PutSample(s) /\ Evict
    BY <1>3 DEF QueuePut
  <2>2. s \notin ToSet(queue)
    BY <1>1, <2>1 DEF Located, LocatedAt, UnderWay
  <2>3. /\ Line(queue', Payload) /\ ToSet(queue') = (ToSet(queue) \ Fallen) \cup {s}
        /\ dropped' = dropped \cup Fallen /\ cleared' = cleared
    BY <1>1, <1>2, <2>1, <2>2, PutMoves
  <2>4. SampleLines'
    BY <1>1, <1>2, <2>1, <2>3 DEF SampleLines
  <2>5. Fallen \subseteq ToSet(queue)
    BY DEF Fallen
  <2>6. ASSUME NEW r \in Samples
        PROVE  \E p \in Places : LocatedAt(r, p)'
    <3>1. PICK p \in Places : LocatedAt(r, p)
      BY <1>1 DEF Located
    <3>2. task'[r] = IF r = s THEN "put" ELSE task[r]
      BY <1>1, <2>1
    <3>3. CASE r = s
      <4>1. p = "task"
        BY <2>1, <3>1, <3>3 DEF LocatedAt, UnderWay
      <4>2. LocatedAt(r, "queue")'
        BY <2>1, <2>3, <2>5, <3>1, <3>2, <3>3, <4>1 DEF LocatedAt, UnderWay
      <4> QED BY <4>2 DEF Places
    <3>4. CASE r # s /\ r \in Fallen
      <4>1. p = "queue"
        BY <2>5, <3>1, <3>4 DEF LocatedAt
      <4>2. LocatedAt(r, "dropped")'
        BY <2>1, <2>3, <2>5, <3>1, <3>2, <3>4, <4>1 DEF LocatedAt, UnderWay
      <4> QED BY <4>2 DEF Places
    <3>5. CASE r # s /\ r \notin Fallen
      <4>1. LocatedAt(r, p)'
        BY <2>1, <2>3, <3>1, <3>2, <3>5 DEF LocatedAt
      <4> QED BY <4>1
    <3> QED BY <3>3, <3>4, <3>5
  <2> QED BY <2>4, <2>6 DEF SampleInv, Located
<1>4. CASE MainSignal
  <2>1. /\ UNCHANGED <<pending, fed, cancelled, hand, task, failed, batch, trained>>
        /\ main = "signalling" /\ main' = "signalled" /\ PutSample(STOP) /\ Evict
    BY <1>4 DEF MainSignal
  <2>2. STOP \notin ToSet(queue)
    BY <1>1, <2>1 DEF SampleLines
  <2>3. /\ Line(queue', Payload) /\ ToSet(queue') = (ToSet(queue) \ Fallen) \cup {STOP}
        /\ dropped' = dropped \cup Fallen /\ cleared' = cleared
    BY <1>1, <1>2, <2>1, <2>2, PutMoves
  <2>4. SampleLines'
    BY <1>1, <2>1, <2>3 DEF SampleLines
  <2>5. Fallen \subseteq ToSet(queue)
    BY DEF Fallen
  <2>6. ASSUME NEW r \in Samples
        PROVE  \E p \in Places : LocatedAt(r, p)'
    <3>1. PICK p \in Places : LocatedAt(r, p)
      BY <1>1 DEF Located
    <3>2. r # STOP
      BY <1>2
    <3>3. CASE r \in Fallen
      <4>1. p = "queue"
        BY <2>5, <3>1, <3>3 DEF LocatedAt
      <4>2. LocatedAt(r, "dropped")'
        BY <2>1, <2>3, <2>5, <3>1, <3>2, <3>3, <4>1 DEF LocatedAt
      <4> QED BY <4>2 DEF Places
    <3>4. CASE r \notin Fallen
      <4>1. LocatedAt(r, p)'
        BY <2>1, <2>3, <3>1, <3>2, <3>4 DEF LocatedAt
      <4> QED BY <4>1
    <3> QED BY <3>3, <3>4
  <2> QED BY <2>4, <2>6 DEF SampleInv, Located
<1> QED BY <1>3, <1>4

(* The servers and the tasks: a task under way is where its sample is,     *)
(* until the sample is cut, put or lost to an error.                       *)
LEMMA TasksLocate ==
  ASSUME TypeInv, SampleInv, UNCHANGED trainerVars, NEW s \in Samples,
         \/ TaskSubmit(s) \/ TaskComplete(s) \/ TaskReturn(s)
         \/ ServerAdmit(s) \/ ServerAnswer(s) \/ ServerError(s)
  PROVE  SampleInv'
<1> USE DEF queueVars, taskVars, procVars, trainerVars, mqVars, histVars
<1>1. SampleLines /\ Located /\ task \in [Samples -> TaskState]
  BY DEF SampleInv, TypeInv, SampleTypes
<1>2. /\ UNCHANGED <<queue, cleared, pending, fed, hand, dropped, main, batch, trained>>
      /\ \/ /\ UNCHANGED <<cancelled, failed>> /\ task[s] \in UnderWay
            /\ \E t \in UnderWay : task' = [task EXCEPT ![s] = t]
         \/ /\ UNCHANGED <<cancelled, failed>> /\ task[s] \in {"put", "error"}
            /\ task' = [task EXCEPT ![s] = "none"]
         \/ /\ cancelled' = Append(cancelled, s) /\ UNCHANGED failed /\ task[s] = "cut"
            /\ task' = [task EXCEPT ![s] = "none"]
         \/ /\ UNCHANGED cancelled /\ failed' = failed \cup {s} /\ task[s] = "generating"
            /\ task' = [task EXCEPT ![s] = "error"]
  BY DEF TaskSubmit, TaskComplete, TaskReturn, ServerAdmit, ServerAnswer, ServerError,
     Finish, Requeue, UnderWay
<1>3. PICK p \in Places : LocatedAt(s, p)
  BY <1>1 DEF Located
<1>4. \A r \in Samples : r # s => task'[r] = task[r]
  BY <1>1, <1>2
<1>5. CASE UNCHANGED <<cancelled, failed>>
  <2>1. SampleLines'
    BY <1>1, <1>2, <1>5 DEF SampleLines
  <2>2. LocatedAt(s, p)'
    <3>1. CASE /\ task[s] \in UnderWay
               /\ \E t \in UnderWay : task' = [task EXCEPT ![s] = t]
      <4>1. task'[s] \in UnderWay
        BY <1>1, <3>1
      <4> QED BY <1>2, <1>3, <1>5, <3>1, <4>1 DEF LocatedAt, UnderWay
    <3>2. CASE task[s] \in {"put", "error"} /\ task' = [task EXCEPT ![s] = "none"]
      <4>1. task'[s] = "none"
        BY <1>1, <3>2
      <4> QED BY <1>2, <1>3, <1>5, <3>2, <4>1 DEF LocatedAt, UnderWay
    <3>3. cancelled # Append(cancelled, s)
      BY DEF TypeInv, SampleTypes
    <3>4. task[s] = "generating" => s \notin failed
      BY <1>3 DEF LocatedAt, UnderWay
    <3> QED BY <1>2, <1>5, <3>1, <3>2, <3>3, <3>4
  <2>3. ASSUME NEW r \in Samples, r # s
        PROVE  \E q \in Places : LocatedAt(r, q)'
    <3>1. PICK q \in Places : LocatedAt(r, q)
      BY <1>1 DEF Located
    <3>2. LocatedAt(r, q)'
      BY <1>2, <1>4, <1>5, <2>3, <3>1 DEF LocatedAt
    <3> QED BY <3>2
  <2> QED BY <2>1, <2>2, <2>3 DEF SampleInv, Located
<1>6. CASE /\ cancelled' = Append(cancelled, s) /\ UNCHANGED failed /\ task[s] = "cut"
           /\ task' = [task EXCEPT ![s] = "none"]
  <2>1. p = "task" /\ s \notin ToSet(cancelled)
    BY <1>3, <1>6 DEF LocatedAt, UnderWay
  <2>2. Line(cancelled', Samples) /\ ToSet(cancelled') = ToSet(cancelled) \cup {s}
    BY <1>1, <1>6, <2>1, LongerLine DEF SampleLines
  <2>3. SampleLines'
    BY <1>1, <1>2, <2>2 DEF SampleLines
  <2>4. task'[s] = "none"
    BY <1>1, <1>6
  <2>5. LocatedAt(s, "cancelled")'
    BY <1>2, <1>3, <1>6, <2>1, <2>2, <2>4 DEF LocatedAt, UnderWay
  <2>6. ASSUME NEW r \in Samples, r # s
        PROVE  \E q \in Places : LocatedAt(r, q)'
    <3>1. PICK q \in Places : LocatedAt(r, q)
      BY <1>1 DEF Located
    <3>2. LocatedAt(r, q)'
      BY <1>2, <1>4, <1>6, <2>2, <2>6, <3>1 DEF LocatedAt
    <3> QED BY <3>2
  <2>7. "cancelled" \in Places
    BY DEF Places
  <2> QED BY <2>3, <2>5, <2>6, <2>7 DEF SampleInv, Located
<1>7. CASE /\ UNCHANGED cancelled /\ failed' = failed \cup {s} /\ task[s] = "generating"
           /\ task' = [task EXCEPT ![s] = "error"]
  <2>1. p = "task"
    BY <1>3, <1>7 DEF LocatedAt, UnderWay
  <2>2. SampleLines'
    BY <1>1, <1>2, <1>7 DEF SampleLines
  <2>3. task'[s] = "error"
    BY <1>1, <1>7
  <2>4. LocatedAt(s, "failed")'
    BY <1>2, <1>3, <1>7, <2>1, <2>3 DEF LocatedAt, UnderWay
  <2>5. ASSUME NEW r \in Samples, r # s
        PROVE  \E q \in Places : LocatedAt(r, q)'
    <3>1. PICK q \in Places : LocatedAt(r, q)
      BY <1>1 DEF Located
    <3>2. LocatedAt(r, q)'
      BY <1>2, <1>4, <1>7, <2>5, <3>1 DEF LocatedAt
    <3> QED BY <3>2
  <2>6. "failed" \in Places
    BY DEF Places
  <2> QED BY <2>2, <2>4, <2>5, <2>6 DEF SampleInv, Located
<1> QED BY <1>2, <1>5, <1>6, <1>7

(* The feeder goes through the dataset in order. *)
LEMMA FeedLocates ==
  ASSUME TypeInv, SampleInv, UNCHANGED trainerVars, FeedSamples
  PROVE  SampleInv'
<1> USE DEF taskVars, procVars, trainerVars, mqVars, histVars
<1>1. SampleLines /\ Located /\ pending \in Seq(1..DONE) /\ Len(pending) <= PendingCap
      /\ fed \in 0..DONE
  BY DEF SampleInv, TypeInv, SampleTypes
<1>2. PICK last \in fed..DONE : /\ pending' = pending \o SubSeq(Dataset, fed + 1, last)
                                /\ fed' = last
  <2> DEFINE room == PendingCap - Len(pending)
             last == IF fed + room < DONE THEN fed + room ELSE DONE
  <2>1. pending' = pending \o SubSeq(Dataset, fed + 1, last) /\ fed' = last
    BY DEF FeedSamples
  <2>2. Len(pending) \in Nat
    BY <1>1
  <2>3. room \in Nat
    BY <1>1, <2>2, Constants
  <2> HIDE DEF room
  <2>4. last \in fed..DONE
    BY <1>1, <2>3, Constants
  <2> HIDE DEF last
  <2> QED BY <2>1, <2>4
<1>3. /\ UNCHANGED <<cancelled, hand, task, failed, queue, batch, dropped, trained, cleared,
                     main>>
  BY DEF FeedSamples
<1> DEFINE new == SubSeq(Dataset, fed + 1, last)
<1>4. Line(new, 1..DONE) /\ ToSet(new) = (fed + 1)..last
  BY <1>1, FedLine
<1> HIDE DEF new
<1>5. ToSet(pending) \cap ToSet(new) = {}
  BY <1>1, <1>4 DEF SampleLines
<1>6. Line(pending, 1..DONE)
  BY <1>1 DEF SampleLines
<1>7. Line(pending \o new, 1..DONE) /\ ToSet(pending \o new) = ToSet(pending) \cup ToSet(new)
  <2>1. Line(new, 1..DONE)
    BY <1>4
  <2> QED BY <1>5, <1>6, <2>1, JoinedLines
<1>8. pending' = pending \o new
  BY <1>2 DEF new
<1>9. /\ Line(pending', 1..DONE)
      /\ ToSet(pending') = ToSet(pending) \cup ((fed + 1)..last)
  BY <1>4, <1>7, <1>8
<1>10. SampleLines'
  <2>1. ToSet(pending') \subseteq 1..fed'
    BY <1>1, <1>2, <1>9, Constants DEF SampleLines
  <2> QED BY <1>1, <1>3, <1>9, <2>1 DEF SampleLines
<1>11. ASSUME NEW r \in Samples
       PROVE  \E p \in Places : LocatedAt(r, p)'
  <2>1. PICK p \in Places : LocatedAt(r, p)
    BY <1>1 DEF Located
  <2>2. r \in Nat /\ fed \in Nat /\ last \in Nat /\ fed <= last
    BY <1>1, <1>2, Constants
  <2>3. CASE r \in (fed + 1)..last
    <3>1. p = "unfed" /\ ~(r > fed')
      BY <1>2, <2>1, <2>2, <2>3 DEF LocatedAt
    <3>2. LocatedAt(r, "pending")'
      BY <1>3, <1>9, <2>1, <2>3, <3>1 DEF LocatedAt
    <3> QED BY <3>2 DEF Places
  <2>4. CASE r \notin (fed + 1)..last
    <3>1. r > fed' <=> r > fed
      BY <1>2, <2>2, <2>4
    <3>2. LocatedAt(r, p)'
      BY <1>3, <1>9, <2>1, <2>4, <3>1 DEF LocatedAt
    <3> QED BY <3>2
  <2> QED BY <2>3, <2>4
<1> QED BY <1>10, <1>11 DEF SampleInv, Located

(* The processor takes a sample in hand, and gives it to a task. *)
LEMMA TakesLocate ==
  ASSUME TypeInv, SampleInv, UNCHANGED trainerVars, TakeCancelled \/ TakePending
  PROVE  SampleInv'
<1> USE DEF taskVars, trainerVars, mqVars, histVars
<1>1. SampleLines /\ Located
  BY DEF SampleInv
<1>2. hand = NoSample /\ NoSample \notin Samples /\ fed \in 0..DONE
  BY Constants DEF TakeCancelled, TakePending, TypeInv, InHand, NoSample, SampleTypes
<1>3. UNCHANGED <<fed, task, failed, queue, batch, dropped, trained, cleared, main>>
  BY DEF TakeCancelled, TakePending
<1>4. \/ /\ Line(cancelled', Samples) /\ ToSet(cancelled') = ToSet(cancelled) \ {hand'}
         /\ hand' \in ToSet(cancelled) /\ pending' = pending
      \/ /\ Line(pending', 1..DONE) /\ ToSet(pending') = ToSet(pending) \ {hand'}
         /\ hand' \in ToSet(pending) /\ cancelled' = cancelled
  <2>1. CASE TakeCancelled
    <3>1. cancelled # <<>> /\ hand' = Head(cancelled) /\ cancelled' = Tail(cancelled)
          /\ pending' = pending
      BY <2>1 DEF TakeCancelled
    <3>2. Line(cancelled, Samples)
      BY <1>1 DEF SampleLines
    <3> QED BY <3>1, <3>2, ShorterLine
  <2>2. CASE TakePending
    <3>1. pending # <<>> /\ hand' = Head(pending) /\ pending' = Tail(pending)
          /\ cancelled' = cancelled
      BY <2>2 DEF TakePending
    <3>2. Line(pending, 1..DONE)
      BY <1>1 DEF SampleLines
    <3> QED BY <3>1, <3>2, ShorterLine
  <2> QED BY <2>1, <2>2
<1>5. SampleLines'
  BY <1>1, <1>3, <1>4 DEF SampleLines
<1>6. ASSUME NEW r \in Samples
      PROVE  \E p \in Places : LocatedAt(r, p)'
  <2>1. PICK p \in Places : LocatedAt(r, p)
    BY <1>1 DEF Located
  <2>2. CASE r = hand'
    <3>1. p \in {"cancelled", "pending"}
      BY <1>4, <2>1, <2>2 DEF LocatedAt
    <3>2. LocatedAt(r, "hand")'
      BY <1>3, <1>4, <2>1, <2>2, <3>1 DEF LocatedAt
    <3> QED BY <3>2 DEF Places
  <2>3. CASE r # hand'
    <3>1. LocatedAt(r, p)'
      BY <1>2, <1>3, <1>4, <2>1, <2>3 DEF LocatedAt
    <3> QED BY <3>1
  <2> QED BY <2>2, <2>3
<1> QED BY <1>5, <1>6 DEF SampleInv, Located

(* A sample in hand becomes a task's.                                      *)
LEMMA SubmitLocates ==
  ASSUME TypeInv, SampleInv, UNCHANGED trainerVars, ProcSubmit
  PROVE  SampleInv'
<1> USE DEF queueVars, trainerVars, mqVars, histVars
<1>1. SampleLines /\ Located /\ task \in [Samples -> TaskState]
  BY DEF SampleInv, TypeInv, SampleTypes
<1>2. UNCHANGED <<pending, cancelled, fed, failed, queue, batch, dropped, trained, cleared,
                  main>>
  BY DEF ProcSubmit
<1>3. hand \in Samples /\ NoSample \notin Samples
  BY Constants DEF ProcSubmit, TypeInv, InHand, NoSample
<1>4. \/ UNCHANGED <<hand, task>>
      \/ hand' = NoSample /\ task' = [task EXCEPT ![hand] = "created"]
  BY DEF ProcSubmit
<1>5. SampleLines'
  BY <1>1, <1>2 DEF SampleLines
<1>6. ASSUME NEW r \in Samples
      PROVE  \E p \in Places : LocatedAt(r, p)'
  <2>1. PICK p \in Places : LocatedAt(r, p)
    BY <1>1 DEF Located
  <2>2. CASE UNCHANGED <<hand, task>>
    <3>1. LocatedAt(r, p)'
      BY <1>2, <2>1, <2>2 DEF LocatedAt
    <3> QED BY <3>1
  <2>3. CASE hand' = NoSample /\ task' = [task EXCEPT ![hand] = "created"]
    <3>1. task'[r] = IF r = hand THEN "created" ELSE task[r]
      BY <1>1, <1>3, <2>3
    <3>2. CASE r = hand
      <4>1. p = "hand"
        BY <2>1, <3>2 DEF LocatedAt
      <4>2. LocatedAt(r, "task")'
        BY <1>2, <1>3, <2>1, <2>3, <3>1, <3>2, <4>1 DEF LocatedAt, UnderWay
      <4> QED BY <4>2 DEF Places
    <3>3. CASE r # hand
      <4>1. LocatedAt(r, p)'
        BY <1>2, <1>3, <2>1, <2>3, <3>1, <3>3 DEF LocatedAt
      <4> QED BY <4>1
    <3> QED BY <3>2, <3>3
  <2> QED BY <1>4, <2>2, <2>3
<1> QED BY <1>5, <1>6 DEF SampleInv, Located

(* The trainer collects and trains; the task runner clears the queue. *)
LEMMA TrainerLocates ==
  ASSUME TypeInv, SampleInv, TrainerGet \/ TrainerStep \/ MainClear
  PROVE  SampleInv'
<1> USE DEF rollVars, queueVars, taskVars, procVars, trainerVars, histVars
<1>1. SampleLines /\ Located
  BY DEF SampleInv
<1>2. UNCHANGED <<pending, cancelled, fed, hand, task, failed, dropped, main>>
  BY DEF TrainerGet, TrainerStep, MainClear
<1>3. Line(queue, Payload) /\ queue \in Seq(Payload) /\ Line(batch, Samples)
      /\ Payload = Samples \cup {STOP} /\ STOP \notin Samples /\ cleared \in Nat
  BY <1>1, Constants DEF SampleLines, Line
<1>4. CASE TrainerGet
  <2>1. UNCHANGED <<trained, cleared>>
    BY <1>4 DEF TrainerGet, GetSample, Recheck, Take, Wait, ReturnNone, mqCounters
  <2>2. CASE queue = <<>>
    <3>1. UNCHANGED <<queue, batch>>
      BY <1>4, <2>2 DEF TrainerGet, GetSample, Recheck, Take, Wait, ReturnNone
    <3>2. SampleLines'
      BY <1>1, <1>2, <2>1, <3>1 DEF SampleLines
    <3>3. Located'
      BY <1>1, <1>2, <2>1, <3>1 DEF Located, LocatedAt
    <3> QED BY <3>2, <3>3 DEF SampleInv
  <2>3. CASE queue # <<>>
    <3>1. queue' = Tail(queue) /\ Receive
      BY <1>4, <2>3 DEF TrainerGet, GetSample, Recheck, Take, Wait, ReturnNone
    <3>2. /\ Line(queue', Payload) /\ ToSet(queue') = ToSet(queue) \ {Head(queue)}
          /\ Head(queue) \in Payload /\ Head(queue) \in ToSet(queue)
      BY <1>3, <2>3, <3>1, ShorterLine
    <3>3. CASE Head(queue) = STOP
      <4>1. batch' = batch
        BY <3>1, <3>3 DEF Receive
      <4>2. SampleLines'
        BY <1>1, <1>2, <2>1, <3>2, <4>1 DEF SampleLines
      <4>3. \A s \in Samples : s \in ToSet(queue') <=> s \in ToSet(queue)
        BY <1>3, <3>2, <3>3
      <4>4. Located'
        BY <1>1, <1>2, <2>1, <4>1, <4>3 DEF Located, LocatedAt
      <4> QED BY <4>2, <4>4 DEF SampleInv
    <3>4. CASE Head(queue) # STOP
      <4>1. batch' = Append(batch, Head(queue)) /\ Head(queue) \in Samples
        BY <1>3, <3>1, <3>2, <3>4 DEF Receive
      <4>2. Head(queue) \notin ToSet(batch)
        BY <1>1, <3>2, <4>1 DEF Located, LocatedAt
      <4>3. Line(batch', Samples) /\ ToSet(batch') = ToSet(batch) \cup {Head(queue)}
        BY <1>3, <4>1, <4>2, LongerLine
      <4>4. SampleLines'
        BY <1>1, <1>2, <2>1, <3>2, <4>3 DEF SampleLines
      <4>5. ASSUME NEW r \in Samples
            PROVE  \E p \in Places : LocatedAt(r, p)'
        <5>1. PICK p \in Places : LocatedAt(r, p)
          BY <1>1 DEF Located
        <5>2. CASE r = Head(queue)
          <6>1. p = "queue"
            BY <3>2, <5>1, <5>2 DEF LocatedAt
          <6>2. LocatedAt(r, "batch")'
            BY <1>2, <2>1, <3>2, <4>3, <5>1, <5>2, <6>1 DEF LocatedAt
          <6> QED BY <6>2 DEF Places
        <5>3. CASE r # Head(queue)
          <6>1. LocatedAt(r, p)'
            BY <1>2, <2>1, <3>2, <4>3, <5>1, <5>3 DEF LocatedAt
          <6> QED BY <6>1
        <5> QED BY <5>2, <5>3
      <4> QED BY <4>4, <4>5 DEF SampleInv, Located
    <3> QED BY <3>3, <3>4
  <2> QED BY <2>2, <2>3
<1>5. CASE TrainerStep
  <2>1. /\ UNCHANGED <<queue, cleared>> /\ batch' = <<>>
        /\ trained' = trained \cup ToSet(batch)
    BY <1>5 DEF TrainerStep, mqVars
  <2>2. Line(batch', Samples) /\ ToSet(batch') = {}
    BY <2>1, EmptyLine
  <2>3. SampleLines'
    BY <1>1, <1>2, <2>1, <2>2 DEF SampleLines
  <2>4. ASSUME NEW r \in Samples
        PROVE  \E p \in Places : LocatedAt(r, p)'
    <3>1. PICK p \in Places : LocatedAt(r, p)
      BY <1>1 DEF Located
    <3>2. CASE r \in ToSet(batch)
      <4>1. p = "batch"
        BY <3>1, <3>2 DEF LocatedAt
      <4>2. LocatedAt(r, "trained")'
        BY <1>2, <2>1, <2>2, <3>1, <3>2, <4>1 DEF LocatedAt
      <4> QED BY <4>2 DEF Places
    <3>3. CASE r \notin ToSet(batch)
      <4>1. LocatedAt(r, p)'
        BY <1>2, <2>1, <2>2, <3>1, <3>3 DEF LocatedAt
      <4> QED BY <4>1
    <3> QED BY <3>2, <3>3
  <2> QED BY <2>3, <2>4 DEF SampleInv, Located
<1>6. CASE MainClear
  <2>1. /\ queue # <<>> /\ queue' = <<>> /\ cleared' = cleared + Len(queue)
        /\ UNCHANGED <<batch, trained>>
    BY <1>6 DEF MainClear, ClearQueue
  <2>2. Line(queue', Payload) /\ ToSet(queue') = {}
    BY <2>1, EmptyLine
  <2>3. Len(queue) \in Nat \ {0}
    BY <1>3, <2>1
  <2>4. cleared' \in Nat /\ cleared' > 0
    BY <1>3, <2>1, <2>3
  <2>5. SampleLines'
    BY <1>1, <1>2, <2>1, <2>2, <2>4 DEF SampleLines
  <2>6. ASSUME NEW r \in Samples
        PROVE  \E p \in Places : LocatedAt(r, p)'
    <3>1. PICK p \in Places : LocatedAt(r, p)
      BY <1>1 DEF Located
    <3>2. CASE p = "queue"
      <4>1. LocatedAt(r, "cleared")'
        BY <1>2, <2>1, <2>2, <2>4, <3>1, <3>2 DEF LocatedAt
      <4> QED BY <4>1 DEF Places
    <3>3. CASE p # "queue"
      <4>1. LocatedAt(r, p)'
        BY <1>2, <2>1, <2>2, <2>4, <3>1, <3>3 DEF LocatedAt
      <4> QED BY <4>1
    <3> QED BY <3>2, <3>3
  <2> QED BY <2>5, <2>6 DEF SampleInv, Located
<1> QED BY <1>4, <1>5, <1>6

LEMMA SampleInvStep == SampleInv /\ TypeInv /\ [Next]_vars => SampleInv'
<1> SUFFICES ASSUME SampleInv, TypeInv, [Next]_vars
             PROVE  SampleInv'
  OBVIOUS
<1>1. CASE UNCHANGED trainerVars /\ (FeedSamples \/ TakeCancelled \/ TakePending \/ ProcSubmit)
  BY <1>1, FeedLocates, TakesLocate, SubmitLocates
<1>2. CASE UNCHANGED trainerVars /\ (Tasks \/ MainSignal \/
                                     \E s \in Samples : Generation(s) \/ ServerError(s))
  BY <1>2, PutsLocate, TasksLocate DEF Tasks, Generation
<1>3. CASE TrainerGet \/ TrainerStep \/ MainClear
  BY <1>3, TrainerLocates
<1>4. CASE /\ UNCHANGED placeVars
           /\ main' \in {"streaming", "signalling"} => main \in {"streaming", "signalling"}
  <2>1. SampleLines'
    BY <1>4 DEF SampleInv, SampleLines, placeVars
  <2>2. Located'
    BY <1>4 DEF SampleInv, Located, LocatedAt, placeVars
  <2> QED BY <2>1, <2>2 DEF SampleInv
<1> QED BY <1>1, <1>2, <1>3, <1>4, MovingSteps

-----------------------------------------------------------------------------
(* The invariants together. *)
SystemInv == VersionsInv /\ TypeInv /\ LoopInv /\ TasksInv /\ SampleInv

LEMMA SystemInvInit == Init => SystemInv
  BY VersionsInvInit, TypeInvInit, LoopInvInit, TasksInvInit, SampleInvInit DEF SystemInv

LEMMA SystemInvStep == SystemInv /\ [Next]_vars => SystemInv'
<1>1. SampleInv /\ TypeInv => HandIdle
  <2> SUFFICES ASSUME SampleInv, TypeInv, NEW s \in Samples, hand = s
               PROVE  task[s] = "none"
    BY DEF HandIdle
  <2>1. PICK p \in Places : LocatedAt(s, p)
    BY DEF SampleInv, Located
  <2>2. task[s] \in TaskState
    BY DEF TypeInv, SampleTypes
  <2> QED BY <2>1, <2>2 DEF LocatedAt, UnderWay, TaskState
<1> QED BY <1>1, VersionsInvStep, TypeInvStep, LoopInvStep, TasksInvStep, SampleInvStep
   DEF SystemInv

LEMMA SystemInvHolds == Spec => []SystemInv
  BY SystemInvInit, SystemInvStep, PTL DEF Spec

(* The property's sections are the sets of the invariant.                  *)
LEMMA SectionMembers == {c \in DOMAIN InSection : InSection[c]} = Queuing \cup Holding
<1>1. DOMAIN InSection = Lockers
  BY DEF InSection, Lockers
<1>2. Proc # Mon /\ Proc # Main /\ Proc # Sync /\ Mon # Main /\ Mon # Sync /\ Main # Sync
  BY Names
<1>3. /\ InSection[Proc] <=> pmode \in {"lock", "wait"}
      /\ InSection[Mon] <=> monitor \in {"unpause", "top"}
      /\ InSection[Main] <=> main = "locking"
      /\ InSection[Sync] <=> sync \in Inside \cup {"pauseLock", "updateLock", "resumeLock"}
  BY <1>2 DEF InSection, Inside
<1>4. \A c \in Lockers : InSection[c] <=> c \in Queuing \cup Holding
  BY <1>3, LockersIn DEF Lockers
<1> QED BY <1>1, <1>4, LockersIn

(* The lock of the rollouter excludes its sections from one another        *)
(* whatever suspends inside them (asyncio.wait, gather, remote calls), it  *)
(* is handed over in the order of the requests, and active_tasks never has *)
(* more than max_concurrent_samples members.                               *)
THEOREM SectionsSerialised == Spec => []SectionsExclusive
<1>1. SystemInv => SectionsExclusive
  <2> SUFFICES ASSUME SystemInv PROVE SectionsExclusive
    OBVIOUS
  <2>1. VersionsInv /\ TypeInv /\ LoopInv /\ TasksInv /\ SampleInv
    BY DEF SystemInv
  <2>2. LockInv(Queuing, Holding)
    BY <2>1 DEF LoopInv
  <2>3. LockDiscipline
    <3>1. LockFree => waiters = <<>>
      BY <2>2 DEF LockInv
    <3>2. owner \notin ToSet(waiters) /\ IsInjective(waiters)
      BY <2>2 DEF LockInv, Line
    <3>3. CASE LockFree
      <4>1. owner = Nobody /\ waiters = <<>> /\ ToSet(waiters) = {} /\ Nobody \notin Lockers
        BY <3>1, <3>3, EmptyLine, LockersAre DEF LockFree
      <4>2. Queuing = {} /\ Holding = {}
        BY <2>2, <4>1, LockersIn DEF LockInv
      <4>3. {owner} \cup ToSet(waiters) = (Queuing \cup Holding) \cup {Nobody}
        BY <4>1, <4>2
      <4> QED BY <3>1, <3>2, <3>3, <4>3, SectionMembers DEF LockDiscipline
    <3>4. CASE ~LockFree
      <4>1. {owner} \cup ToSet(waiters) = Queuing \cup Holding
        BY <2>2, <3>4 DEF LockInv, LockFree
      <4> QED BY <3>1, <3>2, <3>4, <4>1, SectionMembers DEF LockDiscipline
    <3> QED BY <3>3, <3>4
  <2>4. TypeOK
    <3>1. queue \in Seq(Payload) /\ Len(queue) <= max_queue_size
          /\ getter \in [Consumers -> GetterState]
      BY <2>1 DEF TypeInv, MessageTypes
    <3>2. /\ ready \in Seq(Coroutines) /\ waiters \in Seq(Coroutines)
          /\ owner \in Coroutines \cup {Nobody}
      BY <2>2, LockersAre DEF LockInv, Line
    <3>3. SampleTypes /\ ControlTypes /\ FlagTypes /\ TrainerTypes /\ mq_running \in BOOLEAN
      BY <2>1 DEF TypeInv, MessageTypes
    <3>4. {current_param_version, mq_version, sync_version, weights, trainer_version}
            \subseteq Nat
      BY <2>1 DEF VersionsInv
    <3>5. ToSet(batch) \subseteq Samples
      <4>1. batch \in Seq(Samples)
        BY <3>3 DEF TrainerTypes
      <4>2. DOMAIN batch = 1..Len(batch) /\ \A i \in 1..Len(batch) : batch[i] \in Samples
        BY <4>1
      <4> QED BY <4>2 DEF ToSet
    <3>6. {paused, running, monitor_loop_trigger, server_paused, mq_running} \subseteq BOOLEAN
      BY <3>3 DEF FlagTypes
    <3>7. /\ pending \in Seq(1..DONE) /\ Len(pending) <= PendingCap /\ fed \in 0..DONE
          /\ cancelled \in Seq(Samples) /\ active \subseteq Samples
          /\ finished \in [ok : Nat, bad : Nat]
          /\ task \in [Samples -> TaskState] /\ stamp \in [Samples -> Nat]
          /\ dropped \subseteq Payload /\ failed \subseteq Samples
      BY <3>3 DEF SampleTypes
    <3>8. /\ ppc \in LoopHead /\ pmode \in ProcState /\ hand \in 0..DONE
          /\ staleness_samples \in Nat /\ recount \in Nat
          /\ monitor \in {"sleep", "unpause", "top", "exited"}
          /\ main \in {"streaming", "signalling", "signalled", "locking", "exited"}
          /\ sync \in SyncState
      BY <3>3 DEF ControlTypes
    <3>9. /\ trainer \in TrainerState /\ local_trigger_step \in 1..Trigger
          /\ trained \subseteq Samples /\ done_bound \in BOOLEAN
          /\ made_by \in [Samples -> SUBSET (0..trainer_version)]
      BY <3>3 DEF TrainerTypes, FlagTypes
    <3> QED BY <3>1, <3>2, <3>4, <3>5, <3>6, <3>7, <3>8, <3>9 DEF TypeOK
  <2> QED BY <2>1, <2>3, <2>4 DEF SectionsExclusive, TasksInv
<1> QED BY <1>1, SystemInvHolds, PTL

(* A line has an element once. *)
LEMMA OccurrencesInLine ==
  ASSUME NEW S, NEW q, Line(q, S), NEW s
  PROVE  Occurrences(s, q) = IF s \in ToSet(q) THEN 1 ELSE 0
<1>1. /\ q \in Seq(S) /\ Len(q) \in Nat /\ DOMAIN q = 1..Len(q)
      /\ \A i, j \in DOMAIN q : q[i] = q[j] => i = j
  BY DEF Line, IsInjective
<1>2. CASE s \in ToSet(q)
  <2>1. PICK i \in 1..Len(q) : q[i] = s
    BY <1>1, <1>2 DEF ToSet
  <2>2. {j \in 1..Len(q) : q[j] = s} = {i}
    BY <1>1, <2>1
  <2>3. Cardinality({i}) = 1
    BY FS_Singleton
  <2> QED BY <1>2, <2>2, <2>3 DEF Occurrences
<1>3. CASE s \notin ToSet(q)
  <2>1. {j \in 1..Len(q) : q[j] = s} = {}
    BY <1>1, <1>3 DEF ToSet
  <2>2. Cardinality({}) = 0
    BY FS_EmptySet
  <2> QED BY <1>3, <2>1, <2>2 DEF Occurrences
<1> QED BY <1>2, <1>3

(* No sample is lost or generated twice, at any moment of the cuts,        *)
(* re-submissions, pauses, evictions and failures: it is in one place of   *)
(* one queue, in the processor's hand or with its task, or was evicted,    *)
(* failed or trained on.                                                   *)
THEOREM EverySampleInOnePlace == Spec => []SamplesConserved
<1>1. SystemInv => SamplesConserved
  <2> SUFFICES ASSUME SystemInv, cleared = 0, NEW s \in Samples, s <= fed
               PROVE  InOnePlace(s)
    BY DEF SamplesConserved
  <2>1. SampleLines /\ Located /\ task \in [Samples -> TaskState] /\ fed \in Nat /\ s \in Nat
    BY Constants DEF SystemInv, SampleInv, TypeInv, SampleTypes
  <2>2. PICK p \in Places : LocatedAt(s, p)
    BY <2>1 DEF Located
  <2> DEFINE others == {o \in {"hand", "task", "failed", "dropped", "trained"} :
                          \/ o = "hand" /\ hand = s
                          \/ o = "task" /\ task[s] \in TaskState \ {"none", "put"}
                          \/ o = "failed" /\ s \in failed /\ task[s] = "none"
                          \/ o = "dropped" /\ s \in dropped
                          \/ o = "trained" /\ s \in trained}
  <2>3. InOnePlace(s) <=>
          Occurrences(s, pending) + Occurrences(s, cancelled) + Occurrences(s, batch)
            + Occurrences(s, queue) + Cardinality(others) = 1
    BY DEF InOnePlace
  <2>4. /\ Occurrences(s, pending) = IF p = "pending" THEN 1 ELSE 0
        /\ Occurrences(s, cancelled) = IF p = "cancelled" THEN 1 ELSE 0
        /\ Occurrences(s, batch) = IF p = "batch" THEN 1 ELSE 0
        /\ Occurrences(s, queue) = IF p = "queue" THEN 1 ELSE 0
    <3>1. /\ s \in ToSet(pending) <=> p = "pending"
          /\ s \in ToSet(cancelled) <=> p = "cancelled"
          /\ s \in ToSet(batch) <=> p = "batch"
          /\ s \in ToSet(queue) <=> p = "queue"
      BY <2>2 DEF LocatedAt
    <3>2. /\ Line(pending, 1..DONE) /\ Line(cancelled, Samples)
          /\ Line(batch, Samples) /\ Line(queue, Payload)
      BY <2>1 DEF SampleLines
    <3> QED BY <3>1, <3>2, OccurrencesInLine
  <2>5. p \notin {"unfed", "cleared"}
    BY <2>1, <2>2 DEF LocatedAt
  <2>6. task[s] \in TaskState \ {"none", "put"} <=> task[s] \in UnderWay \cup {"error"}
    BY <2>1 DEF TaskState, UnderWay
  <2>7. CASE p \in {"pending", "cancelled", "batch", "queue"}
    <3>1. others = {}
      BY <2>2, <2>6, <2>7 DEF LocatedAt
    <3>2. Cardinality(others) = 0
      BY <3>1, FS_EmptySet
    <3> HIDE DEF others
    <3> QED BY <2>3, <2>4, <2>7, <3>2
  <2>8. CASE p \in {"hand", "task", "failed", "dropped", "trained"}
    <3>1. \E o : others = {o}
      <4>1. CASE task[s] = "error"
        <5>1. others = {"task"}
          BY <2>2, <2>6, <2>8, <4>1 DEF LocatedAt, UnderWay
        <5> QED BY <5>1
      <4>2. CASE task[s] # "error"
        <5>1. p = "failed" => task[s] = "none"
          BY <2>1, <2>2, <4>2 DEF LocatedAt, TaskState, UnderWay
        <5>2. others = {p}
          BY <2>2, <2>6, <2>8, <4>2, <5>1 DEF LocatedAt
        <5> QED BY <5>2
      <4> QED BY <4>1, <4>2
    <3>2. Cardinality(others) = 1
      BY <3>1, FS_Singleton
    <3> HIDE DEF others
    <3> QED BY <2>3, <2>4, <2>8, <3>2
  <2> QED BY <2>5, <2>7, <2>8 DEF Places
<1> QED BY <1>1, SystemInvHolds, PTL

-----------------------------------------------------------------------------
(* Partial rollout.  From cancel() to resume() the servers are paused, and *)
(* from the end of the gather on no task has anything of an old version    *)
(* that it could still put: a task created since (a recovery of the        *)
(* monitor decided before the pause may let the processor go on) is sent   *)
(* back by the paused servers.                                             *)
Drained == {"resetSent", "reset", "paused", "transfer", "updateSent", "update",
            "updateLock", "countSent", "count", "publishSent", "publish", "resumeSent",
            "resume", "resumeLock", "restartSent"}

ServersInv ==
  /\ server_paused <=> sync \in Drained \cup {"cancel", "gathering"}
  /\ sync \in Drained => \A s \in Samples : task[s] \in {"none", "created", "requested", "cut"}

(* The pause reaches the servers before the gather, resume after it.       *)
LEMMA ServersInvStep ==
  ASSUME PartialRollout, TypeInv, LoopInv, ServersInv, [Next]_vars
  PROVE  ServersInv'
<1> USE DEF taskVars, syncVars, serverVars, rollVars
<1>1. task \in [Samples -> TaskState] /\ server_paused \in BOOLEAN
  BY DEF TypeInv, SampleTypes, FlagTypes
<1>2. CASE SyncCalls
  <2>1. UNCHANGED <<task, server_paused>>
    BY <1>2 DEF SyncCalls, SyncBlock, PauseBegin, PauseCancelled, PauseGathered, PauseEnd,
       UpdateBegin, UpdateCounted, UpdateEnd, ResumeServers, ResumeEnd, ResumeEffect
  <2>2. ASSUME sync \in {"cancel", "gathering"}, sync' \in {"gathering", "resetSent"},
               sync' = "resetSent" => active = {}
        PROVE  ServersInv'
    <3>1. \A s \in Samples : active = {} => task[s] = "none"
      BY DEF LoopInv, Resting
    <3> QED BY <2>1, <2>2, <3>1 DEF ServersInv, Drained
  <2>3. CASE PauseCancelled
    <3>1. sync = "cancel" /\ GatherTasks
      BY <2>3 DEF PauseCancelled
    <3>2. ActiveTasks = 0 => active = {}
      <4>1. /\ IsFiniteSet(active) /\ Cardinality(active) \in Nat
            /\ finished.ok \in Nat /\ finished.bad \in Nat
        BY CountedTasks
      <4>2. Cardinality(active) = 0 => active = {}
        BY <4>1, FS_EmptySet
      <4> QED BY <4>1, <4>2 DEF ActiveTasks
    <3>3. ActiveTasks \in Nat
      BY CountedTasks
    <3> QED BY <2>2, <3>1, <3>2, <3>3 DEF GatherTasks
  <2>4. CASE PauseGathered
    <3>1. sync = "gathering" /\ Running(Sync) /\ sync' = "resetSent"
      BY <2>4 DEF PauseGathered
    <3>2. active = {}
      BY <3>1, RunningIsReady DEF LoopInv, Resting
    <3> QED BY <2>2, <3>1, <3>2
  <2>5. CASE \/ SyncBlock \/ PauseBegin \/ PauseEnd \/ UpdateBegin \/ UpdateCounted
             \/ UpdateEnd \/ ResumeServers \/ ResumeEnd
    <3>1. /\ sync \in Drained <=> sync' \in Drained
          /\ sync \notin {"cancel", "gathering"} /\ sync' \notin {"cancel", "gathering"}
      BY <2>5 DEF SyncBlock, PauseBegin, PauseEnd, UpdateBegin, UpdateCounted, UpdateEnd,
         ResumeServers, ResumeEnd, ResumeEffect, SyncEnters, Drained
    <3> QED BY <2>1, <3>1 DEF ServersInv
  <2> QED BY <1>2, <2>3, <2>4, <2>5 DEF SyncCalls
<1>3. CASE Replies
  <2>1. task' = task
    BY <1>3 DEF Replies, MainSignal, CallArrives, ServersCancel, ServersReset, QueueCounts,
       QueuePublishes, ServersResume
  <2>2. CASE ServersCancel \/ ServersResume
    BY <2>1, <2>2 DEF ServersCancel, ServersResume, ServersInv, Drained
  <2>3. CASE MainSignal \/ CallArrives \/ ServersReset \/ QueueCounts \/ QueuePublishes
    <3>1. /\ server_paused' = server_paused
          /\ sync \in Drained <=> sync' \in Drained
          /\ sync \in {"cancel", "gathering"} <=> sync' \in {"cancel", "gathering"}
      BY <2>3 DEF MainSignal, CallArrives, ServersReset, QueueCounts, QueuePublishes, Drained
    <3> QED BY <2>1, <3>1 DEF ServersInv
  <2> QED BY <1>3, <2>2, <2>3 DEF Replies
<1>4. ASSUME NEW s \in Samples,
             \/ TaskSubmit(s) \/ TaskComplete(s) \/ TaskReturn(s)
             \/ ServerAdmit(s) \/ ServerAnswer(s) \/ ServerError(s) \/ QueuePut(s)
      PROVE  ServersInv'
  <2>1. /\ UNCHANGED <<sync, server_paused>>
        /\ \E t \in TaskState :
             /\ task' = [task EXCEPT ![s] = t]
             /\ \/ t \in {"none", "requested", "cut"}
                \/ task[s] \in {"generating", "complete", "putting"}
                \/ task[s] = "requested" /\ ~server_paused
    BY <1>4 DEF TaskSubmit, TaskComplete, TaskReturn, ServerAdmit, ServerAnswer, ServerError,
       QueuePut, Finish, Rejects, TaskState
  <2> QED BY <1>1, <2>1 DEF ServersInv
<1>5. CASE Processor
  <2>1. /\ UNCHANGED <<sync, server_paused>>
        /\ \/ task' = task
           \/ task' = [task EXCEPT ![hand] = "created"]
    BY <1>5 DEF Processor, ProcCheck, ProcBlock, ProcSetPaused, ProcLoopDone,
       ProcCollectBegin, ProcCollect, ProcCollectNothing, ProcIdle, TakeCancelled,
       TakePending, TakeWait, ProcSubmit
  <2> QED BY <1>1, <2>1 DEF ServersInv
<1>6. CASE FeedSamples \/ Monitor \/ MainCoroutine \/ MonitorTimer
  <2>1. UNCHANGED <<sync, server_paused, task>>
    BY <1>6 DEF FeedSamples, Monitor, MonitorTick, MonitorBlock, MonitorUnpause, MonitorLook,
       MainCoroutine, MainWake, MainBlock, MainStop, MonitorTimer
  <2> QED BY <2>1 DEF ServersInv
<1>7. CASE Trainer \/ Transfer \/ MainClear \/ UNCHANGED vars
  <2>1. /\ UNCHANGED <<task, server_paused>>
        /\ \/ sync' = sync
           \/ sync = "idle" /\ sync' = "pauseSent"
           \/ sync \in {"paused", "transfer"} /\ sync' \in {"transfer", "updateSent"}
    BY <1>7 DEF Trainer, TrainerLog, TrainerGet, TrainerStep, SyncWeights, FinalLog,
       FinalDecide, FinalValidLog, LastCallOver, Transfer, TransferBegin, TransferEnd,
       MainClear, vars
  <2> QED BY <2>1 DEF ServersInv, Drained
<1> QED BY <1>2, <1>3, <1>4, <1>5, <1>6, <1>7
   DEF Next, Rollout, RollNext, EventLoop, Tasks, Generation, Terminated

(* While the weights are replaced nothing is generated: pause() has waited *)
(* for every task, and the paused servers send back what is submitted.     *)
THEOREM TransferAlone ==
  ASSUME PartialRollout
  PROVE  Spec => []NoGenerationInTransfer
<1>1. Init => ServersInv
  BY DEF Init, RollInit, ServersInv, Drained
<1>2. SystemInv /\ ServersInv /\ [Next]_vars => ServersInv'
  BY ServersInvStep DEF SystemInv
<1>3. ServersInv => NoGenerationInTransfer
  BY DEF ServersInv, NoGenerationInTransfer, Drained
<1> QED BY <1>1, <1>2, <1>3, SystemInvHolds, PTL DEF Spec

-----------------------------------------------------------------------------
(* Stamps.  While a task generates or waits to stamp its sample, the       *)
(* rollouter's version is that of the weights.                             *)
Stamped(s) == task[s] = "putting" \/ s \in ToSet(queue) \cup ToSet(batch)

StampInv ==
  \A s \in Samples :
    /\ made_by[s] \subseteq 0..weights
    /\ task[s] \in {"generating", "complete"} => weights \in made_by[s]
    /\ Stamped(s) => stamp[s] \in made_by[s] /\ \A v \in made_by[s] : v <= stamp[s]

(* The steps that write what a sample's versions are. *)
LEMMA HistorySteps ==
  ASSUME [Next]_vars
  PROVE  \/ \E s \in Samples : TaskComplete(s) \/ ServerAdmit(s) \/ ServerAnswer(s)
         \/ UNCHANGED <<stamp, made_by>>
<1> USE DEF histVars, rollVars
<1>1. CASE EventLoop
  <2>1. CASE Processor
    BY <2>1 DEF Processor, ProcCheck, ProcBlock, ProcSetPaused, ProcLoopDone,
       ProcCollectBegin, ProcCollect, ProcCollectNothing, ProcIdle, TakeCancelled,
       TakePending, TakeWait, ProcSubmit
  <2>2. CASE Tasks
    BY <2>2 DEF Tasks, TaskSubmit, TaskReturn
  <2>3. CASE FeedSamples \/ Monitor \/ MainCoroutine
    BY <2>3 DEF FeedSamples, Monitor, MonitorTick, MonitorBlock, MonitorUnpause, MonitorLook,
       MainCoroutine, MainWake, MainBlock, MainStop
  <2>4. CASE SyncCalls
    BY <2>4 DEF SyncCalls, SyncBlock, PauseBegin, PauseCancelled, PauseGathered, PauseEnd,
       UpdateBegin, UpdateCounted, UpdateEnd, ResumeServers, ResumeEnd, ResumeEffect
  <2> QED BY <1>1, <2>1, <2>2, <2>3, <2>4 DEF EventLoop
<1>2. CASE MonitorTimer \/ Replies
  BY <1>2 DEF MonitorTimer, Replies, MainSignal, CallArrives, ServersCancel, ServersReset,
     QueueCounts, QueuePublishes, ServersResume
<1>3. CASE \E s \in Samples : Generation(s) \/ ServerError(s)
  BY <1>3 DEF Generation, QueuePut, ServerError
<1>4. CASE Trainer \/ Transfer \/ MainClear \/ UNCHANGED vars
  BY <1>4 DEF Trainer, TrainerLog, TrainerGet, TrainerStep, SyncWeights, FinalLog,
     FinalDecide, FinalValidLog, Transfer, TransferBegin, TransferEnd, MainClear, vars
<1> QED BY <1>1, <1>2, <1>3, <1>4 DEF Next, Rollout, RollNext, Terminated

(* Only a task that stamps its sample makes it a stamped one, only the     *)
(* servers' admission starts a generation.                                 *)
LEMMA StampedSteps ==
  ASSUME TypeInv, SampleInv, [Next]_vars, NEW s \in Samples
  PROVE  /\ Stamped(s)' => Stamped(s) \/ TaskComplete(s)
         /\ task'[s] \in {"generating", "complete"} =>
              task[s] \in {"generating", "complete"} \/ (ServerAdmit(s) /\ ~server_paused)
         /\ task'[s] = "putting" => task[s] = "putting" \/ TaskComplete(s)
<1> USE DEF queueVars, taskVars, procVars, mqVars, trainerVars, rollVars, histVars
<1>1. SampleLines /\ task \in [Samples -> TaskState]
  BY DEF SampleInv, TypeInv, SampleTypes
<1>2. CASE UNCHANGED placeVars
  BY <1>2 DEF Stamped, placeVars
<1>3. CASE UNCHANGED trainerVars /\ (FeedSamples \/ TakeCancelled \/ TakePending \/ ProcSubmit)
  <2>1. UNCHANGED <<queue, batch>> /\ (task' = task \/ task' = [task EXCEPT ![hand] = "created"])
    BY <1>3 DEF FeedSamples, TakeCancelled, TakePending, ProcSubmit
  <2> QED BY <1>1, <2>1 DEF Stamped
<1>4. CASE UNCHANGED trainerVars /\ MainSignal
  <2>1. PutSample(STOP) /\ Evict /\ UNCHANGED <<task, batch>> /\ main = "signalling"
    BY <1>4 DEF MainSignal
  <2>2. ToSet(queue') = (ToSet(queue) \ Fallen) \cup {STOP} /\ STOP \notin Samples
    BY <1>1, <2>1, PutMoves, Constants DEF SampleLines
  <2> QED BY <2>1, <2>2 DEF Stamped
<1>5. ASSUME UNCHANGED trainerVars, NEW r \in Samples, QueuePut(r)
      PROVE  /\ Stamped(s)' => Stamped(s)
             /\ task'[s] \in {"generating", "complete"} => task[s] \in {"generating", "complete"}
             /\ task'[s] = "putting" => task[s] = "putting"
  <2>1. /\ PutSample(r) /\ Evict /\ batch' = batch /\ task[r] = "putting"
        /\ task' = [task EXCEPT ![r] = "put"]
    BY <1>5 DEF QueuePut
  <2>2. r \notin ToSet(queue) /\ r \in Payload
    BY <2>1, Constants DEF SampleInv, Located, LocatedAt, UnderWay
  <2>3. ToSet(queue') = (ToSet(queue) \ Fallen) \cup {r}
    BY <1>1, <2>1, <2>2, PutMoves
  <2>4. task'[s] = IF s = r THEN "put" ELSE task[s]
    BY <1>1, <2>1
  <2> QED BY <2>1, <2>3, <2>4 DEF Stamped
<1>6. ASSUME UNCHANGED trainerVars, NEW r \in Samples,
             \/ TaskSubmit(r) \/ TaskComplete(r) \/ TaskReturn(r)
             \/ ServerAdmit(r) \/ ServerAnswer(r) \/ ServerError(r)
      PROVE  /\ Stamped(s)' => Stamped(s) \/ TaskComplete(s)
             /\ task'[s] \in {"generating", "complete"} =>
                  task[s] \in {"generating", "complete"} \/ (ServerAdmit(s) /\ ~server_paused)
             /\ task'[s] = "putting" => task[s] = "putting" \/ TaskComplete(s)
  <2>1. /\ UNCHANGED <<queue, batch>>
        /\ \E t \in TaskState :
             /\ task' = [task EXCEPT ![r] = t]
             /\ t = "putting" => TaskComplete(r)
             /\ t = "generating" => ServerAdmit(r) /\ ~server_paused
             /\ t = "complete" => task[r] = "generating"
    BY <1>6 DEF TaskSubmit, TaskComplete, TaskReturn, ServerAdmit, ServerAnswer, ServerError,
       Finish, TaskState, Rejects
  <2> QED BY <1>1, <2>1 DEF Stamped
<1>7. CASE TrainerGet \/ TrainerStep \/ MainClear
  <2>1. task' = task
    BY <1>7 DEF TrainerGet, TrainerStep, MainClear
  <2>2. Line(queue, Payload) /\ Line(batch, Samples) /\ queue \in Seq(Payload)
        /\ \A S : ToSet(<<>>) = {} /\ Line(<<>>, S)
    BY <1>1, EmptyLine DEF SampleLines, Line
  <2>3. s \in ToSet(queue') \cup ToSet(batch') => s \in ToSet(queue) \cup ToSet(batch)
    <3>1. CASE TrainerGet
      <4>1. CASE queue = <<>>
        BY <1>7, <2>2, <3>1, <4>1
           DEF TrainerGet, GetSample, Recheck, Take, Wait, ReturnNone
      <4>2. CASE queue # <<>>
        <5>1. /\ queue' = Tail(queue)
              /\ batch' = batch \/ (Head(queue) # STOP /\ batch' = Append(batch, Head(queue)))
          BY <3>1, <4>2 DEF TrainerGet, GetSample, Recheck, Take, Wait, ReturnNone, Receive
        <5>2. ToSet(queue') \subseteq ToSet(queue) /\ Head(queue) \in ToSet(queue)
              /\ Head(queue) \in Payload
          BY <2>2, <4>2, <5>1, ShorterLine
        <5>3. ASSUME Head(queue) # STOP
              PROVE  ToSet(Append(batch, Head(queue))) = ToSet(batch) \cup {Head(queue)}
          <6>1. Head(queue) \in Samples
            BY <5>2, <5>3, Constants
          <6>2. Head(queue) \notin ToSet(batch)
            BY <5>2, <6>1 DEF SampleInv, Located, LocatedAt
          <6> QED BY <2>2, <6>1, <6>2, LongerLine
        <5> QED BY <5>1, <5>2, <5>3
      <4> QED BY <4>1, <4>2
    <3>2. CASE TrainerStep
      BY <2>2, <3>2 DEF TrainerStep
    <3>3. CASE MainClear
      BY <2>2, <3>3 DEF MainClear, ClearQueue
    <3> QED BY <1>7, <3>1, <3>2, <3>3
  <2> QED BY <2>1, <2>3 DEF Stamped
<1> QED BY <1>2, <1>3, <1>4, <1>5, <1>6, <1>7, MovingSteps DEF Tasks, Generation

(* A sample is stamped with the version that made its last part.           *)
LEMMA StampInvStep ==
  ASSUME SystemInv, ServersInv, StampInv, [Next]_vars
  PROVE  StampInv'
<1>1. VersionsInv /\ TypeInv /\ SampleInv
  BY DEF SystemInv
<1>2. /\ task \in [Samples -> TaskState] /\ stamp \in [Samples -> Nat]
      /\ made_by \in [Samples -> SUBSET (0..trainer_version)]
      /\ weights \in Nat
  BY <1>1 DEF TypeInv, SampleTypes, TrainerTypes, VersionsInv
<1> SUFFICES ASSUME NEW s \in Samples
             PROVE  /\ made_by'[s] \subseteq 0..weights'
                    /\ task'[s] \in {"generating", "complete"} => weights' \in made_by'[s]
                    /\ Stamped(s)' => stamp'[s] \in made_by'[s]
                                      /\ \A v \in made_by'[s] : v <= stamp'[s]
  BY DEF StampInv
<1>3. /\ made_by[s] \subseteq 0..weights
      /\ task[s] \in {"generating", "complete"} => weights \in made_by[s]
      /\ Stamped(s) => stamp[s] \in made_by[s] /\ \A v \in made_by[s] : v <= stamp[s]
  BY DEF StampInv
<1>4. /\ Stamped(s)' => Stamped(s) \/ TaskComplete(s)
      /\ task'[s] \in {"generating", "complete"} =>
           task[s] \in {"generating", "complete"} \/ (ServerAdmit(s) /\ ~server_paused)
  BY <1>1, StampedSteps
<1>5. weights' = weights \/ (sync = "transfer" /\ weights' = weights + 1
                              /\ UNCHANGED <<task, stamp, made_by>>)
  <2>1. CASE Rollout
    BY <2>1, RolloutSteps
  <2>2. CASE Trainer \/ MainClear \/ UNCHANGED vars
    BY <2>2 DEF Trainer, TrainerLog, TrainerGet, TrainerStep, SyncWeights, FinalLog,
       FinalDecide, FinalValidLog, MainClear, vars, rollVars, serverVars
  <2>3. CASE Transfer
    BY <1>1, <2>3 DEF Transfer, TransferBegin, TransferEnd, taskVars, serverVars, histVars,
       VersionsInv, VersionsAtPhase, Pausing, Arriving, Updated
  <2> QED BY <2>1, <2>2, <2>3 DEF Next, Terminated
<1>6. CASE sync = "transfer" /\ weights' = weights + 1 /\ UNCHANGED <<task, stamp, made_by>>
  <2>1. task[s] \notin {"generating", "complete"}
    BY <1>6 DEF ServersInv, Drained
  <2>2. Stamped(s)' => Stamped(s)
    BY <1>4, <1>6, <2>1 DEF TaskComplete
  <2> QED BY <1>2, <1>3, <1>6, <2>1, <2>2
<1>7. CASE weights' = weights /\ TaskComplete(s)
  <2>1. /\ task[s] = "complete" /\ stamp' = [stamp EXCEPT ![s] = current_param_version]
        /\ made_by' = made_by
    BY <1>7 DEF TaskComplete, Stamp
  <2>2. sync \notin Drained
    BY <2>1 DEF ServersInv
  <2>3. current_param_version = weights
    BY <1>1, <2>2 DEF VersionsInv, VersionsAtPhase, Arriving, Drained
  <2>4. stamp'[s] = weights
    BY <1>2, <2>1, <2>3
  <2> QED BY <1>2, <1>3, <1>7, <2>1, <2>4
<1>8. CASE weights' = weights /\ ~TaskComplete(s)
  <2>1. CASE UNCHANGED <<stamp, made_by>>
    <3>1. ServerAdmit(s) /\ ~server_paused => weights \in made_by'[s]
      BY <1>2 DEF ServerAdmit, Rejects
    <3> QED BY <1>3, <1>4, <1>8, <2>1, <3>1
  <2>2. ASSUME NEW r \in Samples, TaskComplete(r)
        PROVE  made_by' = made_by /\ stamp'[s] = stamp[s] /\ ~ServerAdmit(s)
    <3>1. r # s
      BY <1>8, <2>2
    <3>2. /\ task' = [task EXCEPT ![r] = "putting"]
          /\ stamp' = [stamp EXCEPT ![r] = current_param_version] /\ made_by' = made_by
      BY <2>2 DEF TaskComplete, Stamp
    <3>3. task'[s] = task[s]
      BY <1>2, <3>1, <3>2
    <3> QED BY <1>2, <3>1, <3>2, <3>3 DEF ServerAdmit
  <2>3. ASSUME NEW r \in Samples, ServerAdmit(r) \/ ServerAnswer(r)
        PROVE  /\ made_by'[s] \subseteq 0..weights'
               /\ task'[s] \in {"generating", "complete"} => weights' \in made_by'[s]
               /\ Stamped(s)' => stamp'[s] \in made_by'[s]
                                 /\ \A v \in made_by'[s] : v <= stamp'[s]
    <3>1. /\ task[r] \in {"requested", "generating"} /\ stamp' = stamp
          /\ \E t \in {"cut", "generating", "complete"} : task' = [task EXCEPT ![r] = t]
          /\ \/ made_by' = [made_by EXCEPT ![r] = @ \cup {weights}]
             \/ made_by' = made_by /\ task' = [task EXCEPT ![r] = "cut"]
      BY <2>3 DEF ServerAdmit, ServerAnswer, Rejects
    <3>2. CASE r = s
      <4>1. ~Stamped(s)
        BY <1>1, <3>1, <3>2 DEF SampleInv, Located, LocatedAt, Stamped, UnderWay
      <4>2. CASE made_by' = [made_by EXCEPT ![r] = @ \cup {weights}]
        <5>1. made_by'[s] = made_by[s] \cup {weights}
          BY <1>2, <3>2, <4>2
        <5> QED BY <1>2, <1>3, <1>4, <1>8, <4>1, <5>1
      <4>3. CASE made_by' = made_by /\ task' = [task EXCEPT ![r] = "cut"]
        BY <1>2, <1>3, <1>4, <1>8, <3>2, <4>1, <4>3
      <4> QED BY <3>1, <4>2, <4>3
    <3>3. CASE r # s
      <4>1. task'[s] = task[s] /\ made_by'[s] = made_by[s]
        BY <1>2, <3>1, <3>3
      <4> QED BY <1>3, <1>4, <1>8, <3>1, <4>1
    <3> QED BY <3>2, <3>3
  <2> QED BY <1>3, <1>4, <1>8, <2>1, <2>2, <2>3, HistorySteps
<1> QED BY <1>5, <1>6, <1>7, <1>8

-----------------------------------------------------------------------------
(* Ages.  The trainer counts what it takes; what the queue holds is at     *)
(* most MaxRequired samples behind.  Interval samples are taken between    *)
(* two synchronisations.                                                   *)
LEMMA Monotone ==
  ASSUME NEW a \in Int, NEW b \in Int, NEW c \in Nat, a <= b
  PROVE  a * c <= b * c
  OBVIOUS

LEMMA Distributes ==
  ASSUME NEW a \in Int, NEW b \in Int, NEW c \in Int
  PROVE  (a + b) * c = a * c + b * c /\ (a - b) * c = a * c - b * c
  OBVIOUS

Interval == Required * Trigger

(* The arithmetic of an interval.                                          *)
LEMMA Intervals ==
  /\ Interval \in Nat \ {0}
  /\ \A v \in Int : (v + 1) * Interval = v * Interval + Interval
  /\ \A k \in 1..Trigger : (k - 1) * Required + Required <= Interval
  /\ (Trigger - 1) * Required + Required = Interval
  /\ \A k \in Int : k * Required = (k - 1) * Required + Required
  /\ 100 * MaxRequired <= (100 + StalenessPct) * Interval
<1>1. Required \in Nat \ {0} /\ Trigger \in Nat \ {0} /\ StalenessPct \in Nat
  BY Constants
<1>2. Interval \in Nat \ {0}
  BY <1>1 DEF Interval
<1>3. \A v \in Int : (v + 1) * Interval = v * Interval + Interval
  BY <1>2, Distributes
<1>4. \A k \in Int : k * Required = (k - 1) * Required + Required
  BY <1>1
<1>5. (Trigger - 1) * Required + Required = Interval
  BY <1>1 DEF Interval
<1>6. ASSUME NEW k \in 1..Trigger
      PROVE  (k - 1) * Required + Required <= Interval
  <2>1. (k - 1) * Required <= (Trigger - 1) * Required
    BY <1>1, Monotone
  <2>2. (k - 1) * Required \in Int /\ (Trigger - 1) * Required \in Int
    BY <1>1
  <2> QED BY <1>1, <1>2, <1>5, <2>1, <2>2
<1>7. 100 * MaxRequired <= (100 + StalenessPct) * Interval
  <2>1. Required * (100 + StalenessPct) * Trigger = (100 + StalenessPct) * Interval
    BY <1>1 DEF Interval
  <2>2. (100 + StalenessPct) * Interval \in Nat
    BY <1>1, <1>2
  <2>3. \A n \in Nat : 100 * (n \div 100) <= n
    OBVIOUS
  <2> QED BY <2>1, <2>2, <2>3 DEF MaxRequired
<1> QED BY <1>2, <1>3, <1>4, <1>5, <1>6, <1>7

(* Old samples are not too old. *)
LEMMA AgeFromPosition ==
  ASSUME NEW v \in Nat, NEW t \in Nat,
         t * Interval + 1 <= (v + 1) * Interval + MaxRequired
  PROVE  t - v <= AgeBound
<1> DEFINE c == (StalenessPct + 99) \div 100
           k == t - v - 1
<1>1. Interval \in Nat \ {0} /\ StalenessPct \in Nat /\ MaxRequired \in Nat
      /\ 100 * MaxRequired <= (100 + StalenessPct) * Interval
  BY Constants, Intervals
<1>2. c \in Nat /\ 100 * c >= StalenessPct
  BY <1>1
<1> HIDE DEF c
<1>3. k * Interval = t * Interval - (v + 1) * Interval
  BY <1>1, Distributes
<1>4. k \in Int /\ t * Interval \in Int /\ (v + 1) * Interval \in Int
  BY <1>1
<1> HIDE DEF k
<1>5. k * Interval < MaxRequired
  BY <1>1, <1>3, <1>4
<1>6. k <= c
  <2> SUFFICES ASSUME k >= c + 1 PROVE FALSE
    BY <1>2, <1>4
  <2>1. (c + 1) * Interval <= k * Interval
    BY <1>1, <1>2, <1>4, Monotone
  <2>2. (100 + StalenessPct) * Interval <= (100 * (c + 1)) * Interval
    <3>1. 100 + StalenessPct <= 100 * (c + 1)
      BY <1>1, <1>2
    <3> QED BY <1>1, <1>2, <3>1, Monotone
  <2>3. (100 * (c + 1)) * Interval = 100 * ((c + 1) * Interval)
    BY <1>1, <1>2
  <2>4. (c + 1) * Interval \in Int /\ k * Interval \in Int
        /\ (100 + StalenessPct) * Interval \in Int
    BY <1>1, <1>2, <1>4
  <2> QED BY <1>1, <1>5, <2>1, <2>2, <2>3, <2>4
<1> QED BY <1>2, <1>4, <1>6 DEF k, c, AgeBound
Taken == trainer_version * Interval + (local_trigger_step - 1) * Required + Len(batch)

Looping == {"start", "collect", "train", "waitValid", "sync", "log"}

BatchAt ==
  /\ trainer = "collect" => Len(batch) < Required
  /\ trainer = "train" => Len(batch) = Required
  /\ trainer \in {"start", "waitValid", "sync", "log"} => batch = <<>>
  /\ trainer \in {"waitValid", "sync"} => local_trigger_step = 1

(* A sample may still be taken after as many others as its stamp allows.   *)
InTime(s, taken) == taken <= (stamp[s] + 1) * Interval + MaxRequired

AgeInv ==
  /\ BatchAt
  /\ \A s \in Samples : task[s] = "putting" => stamp[s] = weights
  /\ trainer \in Looping =>
       /\ \A i \in 1..Len(queue) : queue[i] \in Samples => InTime(queue[i], Taken + i)
       /\ \A s \in ToSet(batch) : InTime(s, trainer_version * Interval + 1)

(* Not more than one synchronisation's samples are taken beyond the        *)
(* weights' version.                                                       *)
LEMMA TakenSoFar ==
  ASSUME SystemInv, BatchAt, trainer \in Looping, sync \notin Drained
  PROVE  Taken \in Nat /\ Taken <= (weights + 1) * Interval
<1>1. VersionsInv /\ TrainerTypes
  BY DEF SystemInv, TypeInv
<1>2. /\ trainer_version \in Nat /\ weights \in Nat /\ local_trigger_step \in 1..Trigger
      /\ Len(batch) \in Nat /\ Required \in Nat \ {0} /\ Trigger \in Nat \ {0}
  BY <1>1, Constants DEF VersionsInv, TrainerTypes
<1>3. /\ Interval \in Nat \ {0} /\ (weights + 1) * Interval = weights * Interval + Interval
      /\ (local_trigger_step - 1) * Required + Required <= Interval
  BY <1>2, Intervals
<1>4. Len(batch) <= Required
  <2>1. Len(<<>>) = 0
    OBVIOUS
  <2> QED BY <1>2, <2>1 DEF BatchAt, Looping
<1>5. \/ trainer_version = weights
      \/ trainer_version = weights + 1 /\ batch = <<>> /\ local_trigger_step = 1
  BY <1>1, <1>2 DEF VersionsInv, VersionsAtPhase, TrainerAhead, BatchAt, Looping, Drained,
     Pausing, Arriving, Updated
<1>6. /\ (local_trigger_step - 1) * Required \in Nat /\ trainer_version * Interval \in Nat
      /\ weights * Interval \in Nat /\ (weights + 1) * Interval \in Nat
  BY <1>2, <1>3
<1>7. CASE trainer_version = weights
  BY <1>2, <1>3, <1>4, <1>6, <1>7 DEF Taken
<1>8. CASE trainer_version = weights + 1 /\ batch = <<>> /\ local_trigger_step = 1
  <2>1. Len(batch) = 0 /\ (local_trigger_step - 1) * Required = 0
    BY <1>2, <1>8
  <2> QED BY <1>6, <1>8, <2>1 DEF Taken
<1> QED BY <1>5, <1>7, <1>8

(* A stamped sample is not stamped again.                                  *)
LEMMA KeptStamps ==
  ASSUME SystemInv, [Next]_vars, NEW s \in Samples, Stamped(s)
  PROVE  stamp'[s] = stamp[s]
<1>1. stamp \in [Samples -> Nat] /\ SampleInv
  BY DEF SystemInv, TypeInv, SampleTypes
<1>2. CASE UNCHANGED stamp
  BY <1>2
<1>3. ASSUME NEW r \in Samples, TaskComplete(r) \/ ServerAdmit(r) \/ ServerAnswer(r)
      PROVE  stamp'[s] = stamp[s]
  <2>1. CASE TaskComplete(r)
    <3>1. task[r] = "complete" /\ stamp' = [stamp EXCEPT ![r] = current_param_version]
      BY <2>1 DEF TaskComplete, Stamp
    <3>2. r # s
      BY <1>1, <3>1 DEF SampleInv, Located, LocatedAt, Stamped, UnderWay
    <3> QED BY <1>1, <3>1, <3>2
  <2>2. CASE ServerAdmit(r) \/ ServerAnswer(r)
    BY <2>2 DEF ServerAdmit, ServerAnswer
  <2> QED BY <1>3, <2>1, <2>2
<1> QED BY <1>2, <1>3, HistorySteps

(* A put moves nothing backwards. *)
LEMMA PutPositions ==
  ASSUME queue \in Seq(Payload), Len(queue) <= max_queue_size, NEW x \in Payload,
         queue' = Append(Evicted, x)
  PROVE  \A i \in 1..Len(queue') :
           \/ queue'[i] = x /\ i <= MaxRequired
           \/ \E j \in 1..Len(queue) : i <= j /\ queue'[i] = queue[j]
<1>1. /\ Evicted \in Seq(Payload) /\ Len(Evicted) < max_queue_size
  BY QueueTyped
<1>2. /\ Len(queue') = Len(Evicted) + 1 /\ queue'[Len(Evicted) + 1] = x
      /\ \A i \in 1..Len(Evicted) : queue'[i] = Evicted[i]
      /\ Len(Evicted) \in Nat /\ Len(queue) \in Nat
  BY <1>1, AppendProperties
<1>3. \A i \in 1..Len(Evicted) : \E j \in 1..Len(queue) : i <= j /\ Evicted[i] = queue[j]
  <2>1. CASE Full
    <3>1. queue # <<>> /\ Evicted = Tail(queue)
      BY <2>1, Constants DEF Full, Evicted
    <3>2. /\ Len(Evicted) = Len(queue) - 1
          /\ \A i \in 1..Len(Evicted) : Evicted[i] = queue[i + 1]
      BY <3>1
    <3>3. \A i \in 1..Len(Evicted) : i + 1 \in 1..Len(queue) /\ i <= i + 1
      BY <1>2, <3>2
    <3> QED BY <3>2, <3>3
  <2>2. CASE ~Full
    BY <1>2, <2>2 DEF Evicted
  <2> QED BY <2>1, <2>2
<1>4. SUFFICES ASSUME NEW i \in 1..Len(queue')
               PROVE  \/ queue'[i] = x /\ i <= MaxRequired
                      \/ \E j \in 1..Len(queue) : i <= j /\ queue'[i] = queue[j]
  OBVIOUS
<1>5. CASE i = Len(Evicted) + 1
  BY <1>1, <1>2, <1>5, Constants
<1>6. CASE i # Len(Evicted) + 1
  <2>1. i \in 1..Len(Evicted)
    BY <1>2, <1>6
  <2> QED BY <1>2, <1>3, <2>1
<1> QED BY <1>5, <1>6

(* What the trainer took is a number.                                      *)
LEMMA TakenTyped ==
  ASSUME TypeInv, VersionsInv
  PROVE  Taken \in Int
<1>1. /\ trainer_version \in Int /\ local_trigger_step \in Int /\ Len(batch) \in Int
      /\ Required \in Int /\ Interval \in Int
  BY Intervals, Constants DEF TypeInv, TrainerTypes, VersionsInv
<1>2. trainer_version * Interval \in Int /\ (local_trigger_step - 1) * Required \in Int
  BY <1>1
<1> QED BY <1>1, <1>2 DEF Taken

(* The rollouter's steps. *)
LEMMA RolloutAges ==
  ASSUME SystemInv, ServersInv, AgeInv, Rollout
  PROVE  AgeInv'
<1>1. /\ UNCHANGED trainerVars /\ UNCHANGED weights /\ [Next]_vars
      /\ VersionsInv /\ TypeInv /\ SampleInv
  BY RolloutSteps DEF SystemInv, Rollout, Next
<1>2. /\ UNCHANGED <<trainer, batch, trainer_version, local_trigger_step>>
      /\ Taken' = Taken
  BY <1>1 DEF trainerVars, Taken
<1>3. BatchAt'
  BY <1>2 DEF AgeInv, BatchAt
<1>4. ASSUME NEW s \in Samples, task'[s] = "putting"
      PROVE  stamp'[s] = weights'
  <2>1. CASE task[s] = "putting"
    BY <1>1, <2>1, KeptStamps DEF AgeInv, Stamped
  <2>2. CASE TaskComplete(s)
    <3>1. task[s] = "complete" /\ stamp' = [stamp EXCEPT ![s] = current_param_version]
      BY <2>2 DEF TaskComplete, Stamp
    <3>2. sync \notin Drained
      BY <3>1 DEF ServersInv
    <3>3. current_param_version = weights
      BY <1>1, <3>2 DEF VersionsInv, VersionsAtPhase, Arriving, Drained
    <3> QED BY <1>1, <3>1, <3>3 DEF TypeInv, SampleTypes
  <2> QED BY <1>1, <1>4, <2>1, <2>2, StampedSteps
<1>5. ASSUME trainer \in Looping
      PROVE  \A s \in ToSet(batch') : InTime(s, trainer_version * Interval + 1)'
  <2>1. \A s \in ToSet(batch) : s \in Samples /\ Stamped(s)
    BY <1>1 DEF SampleInv, SampleLines, Line, Stamped, ToSet
  <2>2. \A s \in ToSet(batch) : InTime(s, trainer_version * Interval + 1)
    BY <1>5 DEF AgeInv
  <2> QED BY <1>1, <1>2, <2>1, <2>2, KeptStamps DEF InTime
<1>6. ASSUME trainer \in Looping, NEW i \in 1..Len(queue'), queue'[i] \in Samples
      PROVE  Taken' + i <= (stamp'[queue'[i]] + 1) * Interval + MaxRequired
  <2>1. /\ \A j \in 1..Len(queue) : queue[j] \in Samples => InTime(queue[j], Taken + j)
        /\ queue \in Seq(Payload) /\ Len(queue) <= max_queue_size
        /\ queue' \in Seq(Payload)
    <3>1. MessageTypes /\ MessageTypes'
      BY <1>1, MessageTypesStep DEF TypeInv
    <3> QED BY <1>6, <3>1 DEF AgeInv, MessageTypes
  <2>2. ASSUME NEW j \in 1..Len(queue), i <= j, queue'[i] = queue[j]
        PROVE  Taken' + i <= (stamp'[queue'[i]] + 1) * Interval + MaxRequired
    <3>1. Stamped(queue[j])
      BY <2>1 DEF Stamped, ToSet
    <3>2. stamp'[queue[j]] = stamp[queue[j]]
      BY <1>1, <1>6, <2>2, <3>1, KeptStamps
    <3>3. Taken + j <= (stamp[queue[j]] + 1) * Interval + MaxRequired
      BY <1>6, <2>1, <2>2 DEF InTime
    <3>4. Taken \in Int /\ (stamp[queue[j]] + 1) * Interval \in Int /\ MaxRequired \in Int
          /\ Len(queue) \in Nat /\ Len(queue') \in Nat
      <4>1. stamp[queue[j]] \in Nat /\ Interval \in Nat /\ MaxRequired \in Nat
        BY <1>1, <1>6, <2>2, Intervals, Constants DEF TypeInv, SampleTypes
      <4> QED BY <1>1, <2>1, <4>1, TakenTyped
    <3>5. Taken + i <= (stamp[queue[j]] + 1) * Interval + MaxRequired
      BY <2>2, <3>3, <3>4
    <3> QED BY <1>2, <2>2, <3>2, <3>5
  <2>3. CASE queue' = queue
    <3>1. i \in 1..Len(queue) /\ i <= i
      BY <2>3
    <3> QED BY <2>2, <2>3, <3>1
  <2>4. ASSUME NEW s \in Samples, QueuePut(s)
        PROVE  Taken' + i <= (stamp'[queue'[i]] + 1) * Interval + MaxRequired
    <3>1. queue' = Append(Evicted, s) /\ task[s] = "putting" /\ UNCHANGED stamp /\ s \in Payload
      BY <2>4, Constants DEF QueuePut, PutSample
    <3>2. CASE \E j \in 1..Len(queue) : i <= j /\ queue'[i] = queue[j]
      BY <2>2, <3>2
    <3>3. CASE queue'[i] = s /\ i <= MaxRequired
      <4>1. sync \notin Drained /\ stamp[s] = weights
        BY <3>1 DEF ServersInv, AgeInv
      <4>2. Taken \in Nat /\ Taken <= (weights + 1) * Interval
        BY <1>6, <4>1, TakenSoFar DEF AgeInv
      <4>3. (weights + 1) * Interval \in Int /\ MaxRequired \in Int /\ Len(queue') \in Nat
        <5>1. weights \in Int /\ Interval \in Int /\ MaxRequired \in Int
          BY <1>1, Intervals, Constants DEF VersionsInv
        <5> QED BY <2>1, <5>1
      <4>4. Taken + i <= (weights + 1) * Interval + MaxRequired
        BY <3>3, <4>2, <4>3
      <4> QED BY <1>2, <3>1, <3>3, <4>1, <4>4
    <3> QED BY <2>1, <3>1, <3>2, <3>3, PutPositions
  <2>5. CASE MainSignal
    <3>1. queue' = Append(Evicted, STOP) /\ STOP \in Payload /\ STOP \notin Samples
      BY <2>5, Constants DEF MainSignal, PutSample
    <3> QED BY <1>6, <2>1, <2>2, <3>1, PutPositions
  <2>6. \/ queue' = queue \/ MainSignal \/ \E s \in Samples : QueuePut(s)
    <3>1. CASE TrainerGet \/ TrainerStep \/ MainClear
      <4>1. trainer' = trainer /\ batch' = batch
        BY <1>2
      <4>2. CASE MainClear
        BY <1>6, <4>2 DEF MainClear, Finished, Looping
      <4>3. CASE TrainerStep
        BY <4>3 DEF TrainerStep, mqVars
      <4>4. CASE TrainerGet
        BY <4>1, <4>4 DEF TrainerGet, Receive, GetSample, Recheck, Take, Wait, ReturnNone
      <4> QED BY <3>1, <4>2, <4>3, <4>4
    <3>2. CASE FeedSamples \/ TakeCancelled \/ TakePending \/ ProcSubmit \/ Tasks
      BY <3>2 DEF FeedSamples, TakeCancelled, TakePending, ProcSubmit, Tasks, TaskSubmit,
         TaskComplete, TaskReturn, mqVars
    <3>3. CASE \E s \in Samples : Generation(s) \/ ServerError(s)
      BY <3>3 DEF Generation, ServerAdmit, ServerAnswer, ServerError, mqVars
    <3>4. CASE UNCHANGED placeVars
      BY <3>4 DEF placeVars
    <3> QED BY <1>1, <3>1, <3>2, <3>3, <3>4, MovingSteps
  <2> QED BY <2>3, <2>4, <2>5, <2>6
<1> QED BY <1>2, <1>3, <1>4, <1>5, <1>6 DEF AgeInv, InTime

(* The others' steps: they stamp nothing, and no task is about to put its  *)
(* sample while the weights are replaced.                                  *)
LEMMA OtherSteps ==
  ASSUME SystemInv, ServersInv, AgeInv, Trainer \/ Transfer \/ MainClear \/ UNCHANGED vars
  PROVE  /\ UNCHANGED <<task, stamp>>
         /\ \A s \in Samples : task'[s] = "putting" => stamp'[s] = weights'
<1> USE DEF rollVars, taskVars, histVars, serverVars
<1>1. CASE Trainer \/ MainClear \/ UNCHANGED vars
  <2>1. UNCHANGED <<task, stamp, weights>>
    BY <1>1 DEF Trainer, TrainerLog, TrainerGet, TrainerStep, SyncWeights, FinalLog,
       FinalDecide, FinalValidLog, MainClear, vars
  <2> QED BY <2>1 DEF AgeInv
<1>2. CASE Transfer
  <2>1. UNCHANGED <<task, stamp>> /\ sync \in {"paused", "transfer"}
    BY <1>2 DEF Transfer, TransferBegin, TransferEnd
  <2>2. \A s \in Samples : task[s] # "putting"
    BY <2>1 DEF ServersInv, Drained
  <2> QED BY <2>1, <2>2
<1> QED BY <1>1, <1>2

(* Nothing is taken: the ages are what they were. *)
LEMMA AgesKept ==
  ASSUME AgeInv, BatchAt', UNCHANGED stamp,
         \A s \in Samples : task'[s] = "putting" => stamp'[s] = weights',
         \/ trainer' \notin Looping
         \/ /\ UNCHANGED <<queue, batch, trainer_version, local_trigger_step>>
            /\ trainer \in Looping
  PROVE  AgeInv'
<1>1. CASE trainer' \notin Looping
  BY <1>1 DEF AgeInv
<1>2. CASE /\ UNCHANGED <<queue, batch, trainer_version, local_trigger_step>>
           /\ trainer \in Looping
  <2>1. Taken' = Taken
    BY <1>2 DEF Taken
  <2>2. /\ \A i \in 1..Len(queue) : queue[i] \in Samples => InTime(queue[i], Taken + i)
        /\ \A s \in ToSet(batch) : InTime(s, trainer_version * Interval + 1)
    BY <1>2 DEF AgeInv
  <2>3. /\ \A i \in 1..Len(queue') : queue'[i] \in Samples =>
             Taken' + i <= (stamp'[queue'[i]] + 1) * Interval + MaxRequired
        /\ \A s \in ToSet(batch') :
             trainer_version' * Interval + 1 <= (stamp'[s] + 1) * Interval + MaxRequired
    BY <1>2, <2>1, <2>2 DEF InTime
  <2> QED BY <2>3 DEF AgeInv, InTime
<1> QED BY <1>1, <1>2

(* The sample taken was the first of the queue. *)
LEMMA TakingAges ==
  ASSUME SystemInv, ServersInv, AgeInv, TrainerGet, queue # <<>>, Head(queue) # STOP
  PROVE  AgeInv'
<1>1. /\ TypeInv /\ VersionsInv /\ SampleInv
      /\ UNCHANGED <<stamp, trainer_version, local_trigger_step>>
      /\ \A s \in Samples : task'[s] = "putting" => stamp'[s] = weights'
  BY OtherSteps DEF SystemInv, Trainer, TrainerGet
<1>2. /\ trainer = "collect" /\ queue' = Tail(queue) /\ batch' = Append(batch, Head(queue))
      /\ trainer' = IF Len(batch) + 1 = Required THEN "train" ELSE "collect"
  BY DEF TrainerGet, GetSample, Recheck, Take, Wait, ReturnNone, Receive
<1>3. /\ queue \in Seq(Payload) /\ Line(queue, Payload) /\ Line(batch, Samples)
      /\ Len(batch) \in Nat /\ Len(batch) < Required /\ Required \in Nat \ {0}
      /\ trainer_version \in Nat /\ local_trigger_step \in 1..Trigger
  BY <1>1, <1>2, Constants
     DEF SampleInv, SampleLines, Line, BatchAt, AgeInv, VersionsInv, TypeInv, TrainerTypes
<1>4. /\ Head(queue) = queue[1] /\ Len(queue) \in Nat \ {0} /\ Len(queue') = Len(queue) - 1
      /\ \A i \in 1..Len(queue') : queue'[i] = queue[i + 1]
      /\ Head(queue) \in Payload /\ Head(queue) \in ToSet(queue)
  <2>1. Head(queue) \in Payload /\ Head(queue) \in ToSet(queue)
    BY <1>3, ShorterLine
  <2> QED BY <1>2, <1>3, <2>1
<1>5. /\ Head(queue) \in Samples /\ Len(batch') = Len(batch) + 1
      /\ ToSet(batch') = ToSet(batch) \cup {Head(queue)}
  <2>1. Head(queue) \in Samples
    BY <1>4, Constants
  <2>2. Head(queue) \notin ToSet(batch)
    BY <1>1, <1>4, <2>1 DEF SampleInv, Located, LocatedAt
  <2>3. batch \in Seq(Samples)
    BY <1>3 DEF Line
  <2>4. Len(batch') = Len(batch) + 1
    BY <1>2, <2>1, <2>3
  <2> QED BY <1>2, <1>3, <2>1, <2>2, <2>4, LongerLine
<1>6. BatchAt'
  BY <1>1, <1>2, <1>3, <1>5 DEF BatchAt
<1>7. /\ Taken' = Taken + 1 /\ Taken \in Int
      /\ trainer_version * Interval + 1 <= Taken + 1
      /\ trainer_version * Interval \in Int
  <2>1. Interval \in Nat /\ Taken \in Int
    BY <1>1, Intervals, TakenTyped
  <2>2. /\ trainer_version * Interval \in Int
        /\ (local_trigger_step - 1) * Required \in Nat
    BY <1>3, <2>1, Constants
  <2>3. Taken' = trainer_version * Interval + (local_trigger_step - 1) * Required
                   + (Len(batch) + 1)
    BY <1>1, <1>5 DEF Taken
  <2> DEFINE x == trainer_version * Interval
             y == (local_trigger_step - 1) * Required
             l == Len(batch)
  <2>4. x \in Int /\ y \in Nat /\ l \in Nat /\ Taken = x + y + l /\ Taken' = x + y + (l + 1)
    BY <1>3, <2>2, <2>3 DEF Taken
  <2> HIDE DEF x, y, l
  <2>5. Taken' = Taken + 1 /\ Taken \in Int /\ x + 1 <= Taken + 1
    BY <2>4
  <2> QED BY <2>4, <2>5 DEF x
<1>8. /\ \A i \in 1..Len(queue) : queue[i] \in Samples =>
           Taken + i <= (stamp[queue[i]] + 1) * Interval + MaxRequired
      /\ \A s \in ToSet(batch) :
           trainer_version * Interval + 1 <= (stamp[s] + 1) * Interval + MaxRequired
  BY <1>2 DEF AgeInv, InTime, Looping
<1>9. ASSUME NEW i \in 1..Len(queue'), queue'[i] \in Samples
      PROVE  Taken' + i <= (stamp'[queue'[i]] + 1) * Interval + MaxRequired
  <2>1. i + 1 \in 1..Len(queue) /\ queue'[i] = queue[i + 1] /\ i \in Int
    BY <1>4
  <2>2. Taken' + i = Taken + (i + 1)
    BY <1>7, <2>1
  <2>3. Taken + (i + 1) <= (stamp[queue[i + 1]] + 1) * Interval + MaxRequired
    BY <1>8, <1>9, <2>1
  <2> QED BY <1>1, <2>1, <2>2, <2>3
<1>10. ASSUME NEW s \in ToSet(batch')
       PROVE  trainer_version' * Interval + 1 <= (stamp'[s] + 1) * Interval + MaxRequired
  <2>1. CASE s \in ToSet(batch)
    BY <1>1, <1>8, <2>1
  <2>2. CASE s = Head(queue)
    <3>1. 1 \in 1..Len(queue) /\ queue[1] = s /\ s \in Samples
      BY <1>4, <1>5, <2>2
    <3>2. Taken + 1 <= (stamp[s] + 1) * Interval + MaxRequired
      BY <1>8, <3>1
    <3>3. (stamp[s] + 1) * Interval + MaxRequired \in Int
      <4>1. stamp[s] \in Int /\ Interval \in Int /\ MaxRequired \in Int
        BY <1>1, <3>1, Intervals, Constants DEF TypeInv, SampleTypes
      <4> QED BY <4>1
    <3>4. trainer_version * Interval + 1 <= (stamp[s] + 1) * Interval + MaxRequired
      BY <1>7, <3>2, <3>3
    <3> QED BY <1>1, <3>4
  <2> QED BY <1>5, <1>10, <2>1, <2>2
<1> QED BY <1>1, <1>6, <1>9, <1>10 DEF AgeInv, InTime

(* A full batch is trained on, and counted into its interval. *)
LEMMA TrainingAges ==
  ASSUME SystemInv, ServersInv, AgeInv, TrainerStep
  PROVE  AgeInv'
<1>1. /\ TypeInv /\ VersionsInv /\ UNCHANGED <<stamp, queue>>
      /\ \A s \in Samples : task'[s] = "putting" => stamp'[s] = weights'
  BY OtherSteps DEF SystemInv, Trainer, TrainerStep, mqVars
<1>2. /\ batch' = <<>> /\ Len(batch) = Required
      /\ \/ /\ local_trigger_step >= Trigger /\ local_trigger_step' = 1
            /\ trainer_version' = trainer_version + 1 /\ trainer' = "waitValid"
         \/ /\ trainer' = "log" /\ trainer_version' = trainer_version
            /\ local_trigger_step' = local_trigger_step + 1
  BY DEF TrainerStep, SyncDue, AgeInv, BatchAt
<1>3. /\ trainer_version \in Nat /\ local_trigger_step \in 1..Trigger
      /\ Required \in Nat /\ Trigger \in Nat \ {0} /\ Interval \in Nat /\ trainer = "train"
  BY <1>1, Constants, Intervals DEF VersionsInv, TypeInv, TrainerTypes, TrainerStep
<1>4. BatchAt'
  BY <1>2 DEF BatchAt
<1>5. Taken' = Taken
  <2>1. Taken' = trainer_version' * Interval + (local_trigger_step' - 1) * Required
    <3>1. Len(batch') = 0 /\ trainer_version' * Interval \in Int
          /\ (local_trigger_step' - 1) * Required \in Int
      BY <1>2, <1>3
    <3> QED BY <3>1 DEF Taken
  <2>2. Taken = trainer_version * Interval + (local_trigger_step - 1) * Required + Required
    BY <1>2 DEF Taken
  <2>3. trainer_version * Interval \in Int /\ (local_trigger_step - 1) * Required \in Int
        /\ (local_trigger_step' - 1) * Required \in Int
    BY <1>2, <1>3
  <2>4. CASE local_trigger_step >= Trigger /\ trainer_version' = trainer_version + 1
             /\ local_trigger_step' = 1
    <3>1. (local_trigger_step - 1) * Required + Required = Interval
      <4>1. local_trigger_step = Trigger
        BY <1>3, <2>4
      <4> QED BY <4>1, Intervals
    <3>2. trainer_version' * Interval = trainer_version * Interval + Interval
      BY <1>3, <2>4, Intervals
    <3>3. (local_trigger_step' - 1) * Required = 0
      BY <1>3, <2>4
    <3> QED BY <1>3, <2>1, <2>2, <2>3, <3>1, <3>2, <3>3
  <2>5. CASE trainer_version' = trainer_version /\ local_trigger_step' = local_trigger_step + 1
    <3>1. (local_trigger_step' - 1) * Required = (local_trigger_step - 1) * Required + Required
      <4>1. local_trigger_step' - 1 = local_trigger_step /\ local_trigger_step \in Int
        BY <1>3, <2>5
      <4> QED BY <4>1, Intervals
    <3> QED BY <1>3, <2>1, <2>2, <2>3, <2>5, <3>1
  <2> QED BY <1>2, <2>4, <2>5
<1>6. \A i \in 1..Len(queue') : queue'[i] \in Samples =>
        Taken' + i <= (stamp'[queue'[i]] + 1) * Interval + MaxRequired
  BY <1>1, <1>3, <1>5 DEF AgeInv, InTime, Looping
<1>7. ToSet(batch') = {}
  BY <1>2, EmptyLine
<1> QED BY <1>1, <1>4, <1>6, <1>7 DEF AgeInv, InTime

(* The ages, by every step.                                                *)
LEMMA AgeInvStep ==
  ASSUME SystemInv, ServersInv, AgeInv, [Next]_vars
  PROVE  AgeInv'
<1>1. CASE Rollout
  BY <1>1, RolloutAges
<1>2. CASE TrainerStep
  BY <1>2, TrainingAges
<1>3. CASE TrainerGet
  <2>1. CASE queue # <<>> /\ Head(queue) # STOP
    BY <1>3, <2>1, TakingAges
  <2>2. CASE ~(queue # <<>> /\ Head(queue) # STOP)
    <3>1. \/ trainer' = "finalWait"
          \/ UNCHANGED <<queue, trainer, batch, trainer_version, local_trigger_step>>
             /\ trainer = "collect"
      BY <1>3, <2>2
         DEF TrainerGet, GetSample, Recheck, Take, Wait, ReturnNone, Receive
    <3>2. BatchAt' /\ (trainer' \notin Looping \/
             (UNCHANGED <<queue, batch, trainer_version, local_trigger_step>>
                /\ trainer \in Looping))
      BY <3>1 DEF AgeInv, BatchAt, Looping
    <3> QED BY <1>3, <3>2, OtherSteps, AgesKept DEF Trainer
  <2> QED BY <2>1, <2>2
<1>4. ASSUME \/ TrainerLog("start", "collect") \/ TrainerLog("log", "collect")
             \/ SyncWeights("waitValid", "sync") \/ TransferBegin \/ TransferEnd
             \/ UNCHANGED vars /\ trainer \in Looping
      PROVE  AgeInv'
  <2>1. UNCHANGED <<queue, batch, trainer_version, local_trigger_step>>
    BY <1>4 DEF TrainerLog, LogValidation, GetValidate, SyncWeights, TransferBegin,
       TransferEnd, UpdateParamVersion, mqVars, trainerVars, vars
  <2>2. /\ Len(<<>>) = 0 /\ Required \in Nat \ {0}
        /\ sync \in {"paused", "transfer"} => trainer \in {"sync", "finalSync"}
    BY Constants DEF SystemInv, VersionsInv, VersionsAtPhase, Pausing, Arriving, Updated
  <2>3. \/ trainer = "start" /\ trainer' = "collect"
        \/ trainer = "log" /\ trainer' = "collect"
        \/ trainer = "waitValid" /\ trainer' = "sync"
        \/ trainer = "sync" /\ trainer' = "log"
        \/ trainer = "finalSync" /\ trainer' \in {"finalSync", "finalValid"}
        \/ trainer \in Looping /\ trainer' = trainer
    BY <1>4, <2>2 DEF TrainerLog, SyncWeights, TransferBegin, TransferEnd, trainerVars, vars,
       Looping
  <2>4. BatchAt' /\ (trainer' \notin Looping \/ trainer \in Looping)
    BY <2>1, <2>2, <2>3 DEF AgeInv, BatchAt, Looping
  <2>5. Trainer \/ Transfer \/ UNCHANGED vars
    BY <1>4 DEF Trainer, Transfer
  <2> QED BY <2>1, <2>4, <2>5, OtherSteps, AgesKept
<1>5. ASSUME \/ FinalLog \/ FinalDecide \/ SyncWeights("finalTrigger", "finalSync")
             \/ FinalValidLog \/ MainClear \/ (UNCHANGED vars /\ trainer \notin Looping)
      PROVE  AgeInv'
  <2>1. \/ trainer' \in {"final", "finalTrigger", "finalSync", "done"}
        \/ UNCHANGED <<trainer, batch, local_trigger_step>> /\ trainer \notin Looping
    BY <1>5 DEF FinalLog, FinalDecide, SyncWeights, FinalValidLog, TrainerLog, MainClear,
       Finished, vars, trainerVars, Looping
  <2>2. BatchAt' /\ trainer' \notin Looping
    BY <2>1 DEF BatchAt, Looping
  <2>3. Trainer \/ MainClear \/ UNCHANGED vars
    BY <1>5 DEF Trainer
  <2> QED BY <2>2, <2>3, OtherSteps, AgesKept
<1> QED BY <1>1, <1>2, <1>3, <1>4, <1>5 DEF Next, Trainer, Transfer, Terminated

(* With partial rollout, a batch the trainer collects or trains on is at   *)
(* most ceil(threshold) + 1 versions old, and the stamps that say so are   *)
(* true, whatever the sizes, the threshold and the interleaving.           *)
THEOREM BatchesFresh ==
  ASSUME PartialRollout
  PROVE  Spec => []FreshBatch
<1>1. Init => ServersInv /\ StampInv /\ AgeInv
  <2>1. ASSUME Init PROVE ServersInv
    BY <2>1 DEF Init, RollInit, ServersInv, Drained
  <2>2. ASSUME Init PROVE StampInv
    <3>1. /\ queue = <<>> /\ batch = <<>> /\ \A s \in Samples : task[s] = "none"
          /\ \A s \in Samples : made_by[s] = {}
      BY <2>2 DEF Init, RollInit, MQInit
    <3> QED BY <3>1, EmptyLine DEF StampInv, Stamped
  <2>3. ASSUME Init PROVE AgeInv
    <3>1. /\ queue = <<>> /\ batch = <<>> /\ \A s \in Samples : task[s] = "none"
          /\ trainer = "start"
      BY <2>3 DEF Init, RollInit, MQInit
    <3>2. Len(<<>>) = 0 /\ ToSet(<<>>) = {}
      BY EmptyLine
    <3> QED BY <3>1, <3>2 DEF AgeInv, BatchAt
  <2> QED BY <2>1, <2>2, <2>3
<1>2. SystemInv /\ ServersInv /\ StampInv /\ AgeInv /\ [Next]_vars
        => (ServersInv /\ StampInv /\ AgeInv)'
  BY ServersInvStep, StampInvStep, AgeInvStep DEF SystemInv
<1>3. SystemInv /\ StampInv /\ AgeInv => FreshBatch
  <2> SUFFICES ASSUME SystemInv, StampInv, AgeInv
               PROVE  FreshBatch
    OBVIOUS
  <2>1. TypeInv /\ VersionsInv /\ SampleInv
    BY DEF SystemInv
  <2>2. ASSUME NEW s \in Samples, Stamped(s)
        PROVE  stamp[s] = MaxOf(made_by[s])
    <3>1. /\ stamp[s] \in made_by[s] /\ made_by[s] \subseteq Int
          /\ \A v \in made_by[s] : v <= stamp[s]
      BY <2>1, <2>2 DEF StampInv, VersionsInv
    <3>2. \A v \in made_by[s] : (\A w \in made_by[s] : w <= v) => v = stamp[s]
      BY <3>1
    <3>3. \E v \in made_by[s] : \A w \in made_by[s] : w <= v
      BY <3>1
    <3> QED BY <3>2, <3>3 DEF MaxOf
  <2>3. StampMatchesWeights
    BY <2>2 DEF StampMatchesWeights, Stamped
  <2>4. ASSUME trainer \in {"collect", "train"}, NEW s \in ToSet(batch)
        PROVE  trainer_version - stamp[s] <= AgeBound
    <3>1. trainer_version * Interval + 1 <= (stamp[s] + 1) * Interval + MaxRequired
      BY <2>4 DEF AgeInv, InTime, Looping
    <3>2. s \in Samples
      BY <2>1, <2>4 DEF SampleInv, SampleLines, Line, ToSet
    <3>3. stamp[s] \in Nat /\ trainer_version \in Nat
      BY <2>1, <3>2 DEF TypeInv, SampleTypes, VersionsInv
    <3> QED BY <3>1, <3>3, AgeFromPosition
  <2> QED BY <2>3, <2>4 DEF FreshBatch
<1> QED BY <1>1, <1>2, <1>3, SystemInvHolds, PTL DEF Spec

-----------------------------------------------------------------------------
(* The samples outstanding.  What the tasks and the cancel queue hold is   *)
(* what an update reads first, what the queue holds is added in a reply.   *)
Carried == {s \in Samples : task[s] \in UnderWay \/ s \in ToSet(cancelled)}
Held == {s \in Samples : s \in Carried \/ s \in ToSet(queue)}

(* The recount of update_param_version is not below what it has read so    *)
(* far, as it is at that moment; a sample is taken only below the limit.   *)
CountInv ==
  /\ StalenessCounted
  /\ ppc = "take" => Cardinality(Outstanding) <= MaxRequired
  /\ sync = "countSent" => Cardinality(Carried) <= recount
  /\ sync = "count" => Cardinality(Held) <= recount

LEMMA SampleSets ==
  ASSUME NEW A, NEW B, A \subseteq Samples, B \subseteq Samples
  PROVE  /\ Cardinality(A) \in Nat /\ Cardinality(B) \in Nat
         /\ A \subseteq B => Cardinality(A) <= Cardinality(B)
         /\ Cardinality(A \cup B) <= Cardinality(A) + Cardinality(B)
         /\ \A s : Cardinality(A \cup {s}) <= Cardinality(A) + 1
<1>1. IsFiniteSet(A) /\ IsFiniteSet(B)
  <2>1. IsFiniteSet(Samples)
    BY Constants, FS_Interval
  <2> QED BY <2>1, FS_Subset
<1>2. Cardinality(A) \in Nat /\ Cardinality(B) \in Nat
  BY <1>1, FS_CardinalityType
<1>3. A \subseteq B => Cardinality(A) <= Cardinality(B)
  BY <1>1, FS_Subset
<1>4. Cardinality(A \cup B) <= Cardinality(A) + Cardinality(B)
  <2>1. Cardinality(A \cup B) = Cardinality(A) + Cardinality(B) - Cardinality(A \cap B)
    BY <1>1, FS_Union
  <2>2. IsFiniteSet(A \cap B)
    BY <1>1, FS_Subset
  <2>3. Cardinality(A \cap B) \in Nat
    BY <2>2, FS_CardinalityType
  <2> QED BY <1>2, <2>1, <2>3
<1>5. ASSUME NEW s PROVE Cardinality(A \cup {s}) <= Cardinality(A) + 1
  <2>1. Cardinality(A \cup {s}) = IF s \in A THEN Cardinality(A) ELSE Cardinality(A) + 1
    BY <1>1, FS_AddElement
  <2> QED BY <1>2, <2>1
<1> QED BY <1>2, <1>3, <1>4, <1>5

(* A queue has no more members than places. *)
LEMMA MembersOfLine ==
  ASSUME NEW S, NEW q \in Seq(S)
  PROVE  /\ Len(q) \in Nat /\ IsFiniteSet(ToSet(q))
         /\ Cardinality(ToSet(q)) \in Nat /\ Cardinality(ToSet(q)) <= Len(q)
<1>1. Len(q) \in Nat /\ DOMAIN q = 1..Len(q)
  OBVIOUS
<1>2. IsFiniteSet(1..Len(q)) /\ Cardinality(1..Len(q)) = Len(q)
  <2> DEFINE n == Len(q)
  <2>1. n \in Nat /\ n \in Int /\ 1 \in Int
    BY <1>1
  <2> HIDE DEF n
  <2>2. IsFiniteSet(1..n) /\ Cardinality(1..n) = IF 1 > n THEN 0 ELSE n - 1 + 1
    BY <2>1, FS_Interval
  <2>3. IsFiniteSet(1..n) /\ Cardinality(1..n) = n
    BY <2>1, <2>2
  <2> QED BY <2>3 DEF n
<1>3. ToSet(q) = {q[i] : i \in 1..Len(q)}
  BY <1>1 DEF ToSet
<1>4. q \in Surjection(1..Len(q), ToSet(q))
  BY <1>1, <1>3 DEF Surjection
<1>5. IsFiniteSet(ToSet(q)) /\ Cardinality(ToSet(q)) <= Cardinality(1..Len(q))
  BY <1>2, <1>4, FS_Surjection
<1>6. Cardinality(ToSet(q)) \in Nat
  BY <1>5, FS_CardinalityType
<1> QED BY <1>1, <1>2, <1>5, <1>6

(* Only a sample taken from the pending queue is new among the outstanding *)
(* ones, and only a submitted one among those of the tasks.                *)
LEMMA OutstandingSteps ==
  ASSUME TypeInv, SampleInv, [Next]_vars
  PROVE  /\ \/ Outstanding' \subseteq Outstanding
            \/ TakePending /\ Outstanding' \subseteq Outstanding \cup {hand'}
         /\ \/ ProcSubmit
            \/ Carried' \subseteq Carried /\ Held' \subseteq Held
<1>1. /\ hand \in Samples => task[hand] \notin UnderWay
      /\ task \in [Samples -> TaskState] /\ SampleLines
      /\ NoSample \notin Samples /\ STOP \notin Samples /\ Samples \subseteq Payload
  BY Constants DEF SampleInv, Located, LocatedAt, TypeInv, SampleTypes, NoSample
<1>2. CASE UNCHANGED <<hand, task, cancelled, queue>>
  BY <1>2 DEF Outstanding, Carried, Held
<1>3. CASE FeedSamples
  BY <1>2, <1>3 DEF FeedSamples, mqVars, taskVars, procVars
<1>4. CASE TakeCancelled
  <2>1. /\ UNCHANGED <<task, queue>> /\ hand' = Head(cancelled)
        /\ cancelled' = Tail(cancelled) /\ cancelled # <<>> /\ ppc = "take"
    BY <1>4 DEF TakeCancelled, mqVars, taskVars
  <2>2. Head(cancelled) \in ToSet(cancelled) /\ ToSet(cancelled') \subseteq ToSet(cancelled)
    BY <1>1, <2>1, ShorterLine DEF SampleLines
  <2> QED BY <2>1, <2>2 DEF Outstanding, Carried, Held
<1>5. CASE TakePending
  <2>1. UNCHANGED <<task, cancelled, queue>>
    BY <1>5 DEF TakePending, mqVars, taskVars
  <2> QED BY <1>5, <2>1 DEF Outstanding, Carried, Held
<1>6. CASE ProcSubmit
  <2>1. UNCHANGED <<cancelled, queue>> /\ hand \in Samples
    BY <1>6 DEF ProcSubmit, mqVars, queueVars, TypeInv, InHand
  <2>2. \/ UNCHANGED <<hand, task>>
        \/ hand' = NoSample /\ task' = [task EXCEPT ![hand] = "created"]
    BY <1>6 DEF ProcSubmit
  <2> QED BY <1>1, <1>6, <2>1, <2>2 DEF Outstanding
<1>7. ASSUME NEW s \in Samples, TaskSubmit(s) \/ TaskComplete(s) \/ TaskReturn(s)
                                \/ ServerAdmit(s) \/ ServerAnswer(s) \/ ServerError(s)
      PROVE  /\ Outstanding' \subseteq Outstanding
             /\ Carried' \subseteq Carried /\ Held' \subseteq Held
  <2>1. /\ UNCHANGED <<hand, queue>>
        /\ \/ task[s] \in UnderWay /\ UNCHANGED cancelled
           \/ task'[s] \notin UnderWay /\ UNCHANGED cancelled
           \/ task[s] = "cut" /\ cancelled' = Append(cancelled, s) /\ task'[s] = "none"
        /\ \A r \in Samples : r # s => task'[r] = task[r]
    BY <1>1, <1>7 DEF TaskSubmit, TaskComplete, TaskReturn, ServerAdmit, ServerAnswer,
       ServerError, Finish, Requeue, UnderWay, mqVars, procVars, queueVars
  <2>2. cancelled' = Append(cancelled, s) /\ task[s] = "cut"
          => ToSet(cancelled') = ToSet(cancelled) \cup {s}
    <3>1. task[s] = "cut" => s \notin ToSet(cancelled)
      BY DEF SampleInv, Located, LocatedAt, UnderWay
    <3> QED BY <1>1, <3>1, LongerLine, ZenonT(60) DEF SampleLines
  <2> QED BY <2>1, <2>2 DEF Outstanding, Carried, Held, UnderWay
<1>8. ASSUME NEW s \in Samples, QueuePut(s)
      PROVE  /\ Outstanding' \subseteq Outstanding
             /\ Carried' \subseteq Carried /\ Held' \subseteq Held
  <2>1. /\ UNCHANGED <<hand, cancelled>> /\ task[s] = "putting"
        /\ task' = [task EXCEPT ![s] = "put"] /\ PutSample(s) /\ Evict
    BY <1>8 DEF QueuePut, procVars, queueVars
  <2>2. s \notin ToSet(queue)
    BY <2>1 DEF SampleInv, Located, LocatedAt, UnderWay
  <2>3. ToSet(queue') \subseteq ToSet(queue) \cup {s}
    BY <1>1, <2>1, <2>2, PutMoves
  <2> QED BY <1>1, <2>1, <2>3 DEF Outstanding, Carried, Held, UnderWay
<1>9. CASE MainSignal
  <2>1. /\ UNCHANGED <<hand, cancelled, task>> /\ PutSample(STOP) /\ Evict
        /\ main = "signalling"
    BY <1>9 DEF MainSignal, procVars, queueVars, taskVars
  <2>2. STOP \notin ToSet(queue)
    BY <1>1, <2>1 DEF SampleLines
  <2>3. ToSet(queue') \subseteq ToSet(queue) \cup {STOP}
    BY <1>1, <2>1, <2>2, PutMoves, Constants
  <2> QED BY <1>1, <2>1, <2>3 DEF Outstanding, Carried, Held
<1>10. CASE TrainerGet \/ TrainerStep \/ MainClear
  <2>1. /\ UNCHANGED <<hand, cancelled, task>>
        /\ \/ queue' = queue \/ queue' = <<>>
           \/ queue # <<>> /\ queue' = Tail(queue)
    BY <1>10 DEF TrainerGet, TrainerStep, MainClear, rollVars, procVars, queueVars, taskVars,
       GetSample, Recheck, Take, Wait, ReturnNone, ClearQueue, mqVars
  <2>2. ToSet(queue') \subseteq ToSet(queue)
    BY <1>1, <2>1, EmptyLine, ShorterLine, ZenonT(60) DEF SampleLines
  <2> QED BY <2>1, <2>2 DEF Outstanding, Carried, Held
<1>11. CASE UNCHANGED placeVars
  BY <1>2, <1>11 DEF placeVars
<1> QED BY <1>3, <1>4, <1>5, <1>6, <1>7, <1>8, <1>9, <1>10, <1>11, MovingSteps
   DEF Tasks, Generation

(* The steps that count: a sample taken is counted, an update reads its    *)
(* terms and sets the count, and only the check lets the processor take.   *)
LEMMA CountingSteps ==
  ASSUME TypeInv, [Next]_vars
  PROVE  /\ \/ staleness_samples' = staleness_samples /\ ~TakePending
            \/ TakePending /\ staleness_samples' = staleness_samples + 1
            \/ UpdateCounted /\ staleness_samples' = recount /\ ~TakePending
         /\ TakePending => ppc = "take" /\ ppc' # "take"
         /\ ppc' = "take" => ppc = "take" \/ (ProcCheck /\ staleness_samples < MaxRequired)
         /\ sync' = "countSent" => \/ UpdateBegin /\ recount' = Recount
                                   \/ sync = "countSent" /\ recount' = recount
         /\ sync' = "count" => \/ QueueCounts /\ recount' = recount + Len(queue)
                               \/ sync = "count" /\ recount' = recount
<1> USE DEF flagVars, procVars, syncVars, rollVars
<1>1. staleness_samples \in Nat /\ MaxRequired \in Nat
  BY Constants DEF TypeInv, ControlTypes
<1>2. TakePending => ppc = "take" /\ ppc' # "take" /\ staleness_samples' = staleness_samples + 1
  BY DEF TakePending, TypeInv, InHand, GoOn
<1>3. staleness_samples' = staleness_samples => ~TakePending
  BY <1>1, <1>2
<1>4. CASE ProcCheck
  BY <1>1, <1>3, <1>4 DEF ProcCheck, GoOn, ShouldPause
<1>5. CASE TakePending
  BY <1>2, <1>5 DEF TakePending
<1>6. CASE Processor /\ ~ProcCheck /\ ~TakePending
  BY <1>6 DEF Processor, ProcBlock, ProcSetPaused, ProcLoopDone, ProcCollectBegin, ProcCollect,
     ProcCollectNothing, ProcIdle, TakeCancelled, TakeWait, ProcSubmit, GoOn, Suspend, Stop
<1>7. CASE Tasks \/ FeedSamples
  BY <1>3, <1>7 DEF Tasks, TaskSubmit, TaskComplete, TaskReturn, FeedSamples
<1>8. CASE Monitor \/ MainCoroutine \/ MonitorTimer
  BY <1>3, <1>8 DEF Monitor, MonitorTick, MonitorBlock, MonitorUnpause, MonitorLook,
     MainCoroutine, MainWake, MainBlock, MainStop, MonitorTimer
<1>9. CASE UpdateCounted
  <2>1. ~TakePending
    BY <1>9, Names DEF UpdateCounted, TakePending, Running
  <2> QED BY <1>9, <2>1 DEF UpdateCounted
<1>10. CASE SyncCalls /\ ~UpdateCounted
  BY <1>3, <1>10 DEF SyncCalls, SyncBlock, PauseBegin, PauseCancelled, PauseGathered, PauseEnd,
     GatherTasks, UpdateBegin, UpdateEnd, ResumeServers, ResumeEnd, ResumeEffect
<1>11. CASE Replies
  BY <1>3, <1>11 DEF Replies, MainSignal, CallArrives, ServersCancel, ServersReset, QueueCounts,
     QueuePublishes, ServersResume
<1>12. CASE \E s \in Samples : Generation(s) \/ ServerError(s)
  BY <1>3, <1>12 DEF Generation, ServerAdmit, ServerAnswer, ServerError, QueuePut
<1>13. CASE Trainer
  BY <1>3, <1>13 DEF Trainer, TrainerLog, TrainerGet, TrainerStep, SyncWeights, FinalLog,
     FinalDecide, FinalValidLog
<1>14. CASE Transfer \/ MainClear \/ UNCHANGED vars
  BY <1>3, <1>14 DEF Transfer, TransferBegin, TransferEnd, MainClear, vars
<1> QED BY <1>4, <1>5, <1>6, <1>7, <1>8, <1>9, <1>10, <1>11, <1>12, <1>13, <1>14
   DEF Next, Rollout, RollNext, EventLoop, Terminated

(* A task is created under the lock: not while an update counts.           *)
LEMMA NoneSubmittedInCount ==
  ASSUME LoopInv, sync \in Inside
  PROVE  ~ProcSubmit
<1>1. owner = Sync
  BY LockersIn DEF LoopInv, LockInv
<1> QED BY <1>1, Names DEF ProcSubmit, ProcHasLock, LockFree, Nobody, Sync, Proc

LEMMA CountInvStep == SystemInv /\ CountInv /\ [Next]_vars => CountInv'
<1> SUFFICES ASSUME SystemInv, CountInv, [Next]_vars
             PROVE  CountInv'
  OBVIOUS
<1>1. TypeInv /\ SampleInv /\ LoopInv /\ TasksInv
  BY DEF SystemInv
<1>2. /\ Outstanding \subseteq Samples /\ Carried \subseteq Samples /\ Held \subseteq Samples
      /\ Outstanding' \subseteq Samples /\ Carried' \subseteq Samples /\ Held' \subseteq Samples
  BY DEF Outstanding, Carried, Held
<1>3. staleness_samples \in Nat /\ recount \in Nat /\ MaxRequired \in Nat /\ Len(queue) \in Nat
  BY <1>1, Constants DEF TypeInv, ControlTypes, MessageTypes
<1>4. \/ Cardinality(Outstanding') <= Cardinality(Outstanding)
      \/ TakePending /\ Cardinality(Outstanding') <= Cardinality(Outstanding) + 1
  <2>1. CASE Outstanding' \subseteq Outstanding
    BY <1>2, <2>1, SampleSets
  <2>2. CASE TakePending /\ Outstanding' \subseteq Outstanding \cup {hand'}
    <3> DEFINE O == Outstanding \cup {hand'}
               P == Outstanding'
               H == hand'
    <3>1. P = P \cap Samples /\ P \subseteq Outstanding \cup {H}
      BY <1>2, <2>2
    <3>2. PICK N \in SUBSET Samples : N = (Outstanding \cup {H}) \cap Samples
      OBVIOUS
    <3>3. N = Outstanding \/ N = Outstanding \cup {H}
      BY <1>2, <3>2
    <3>4. P \subseteq N
      BY <3>1, <3>2
    <3> HIDE DEF P, H
    <3>5. Cardinality(P) <= Cardinality(N) /\ Cardinality(P) \in Nat /\ Cardinality(N) \in Nat
      BY <3>1, <3>2, <3>4, SampleSets
    <3>6. Cardinality(Outstanding) \in Nat
          /\ Cardinality(Outstanding \cup {H}) <= Cardinality(Outstanding) + 1
      BY <1>2, SampleSets
    <3>7. Cardinality(N) <= Cardinality(Outstanding) + 1
      BY <3>3, <3>5, <3>6, SMTT(60)
    <3>8. Cardinality(P) <= Cardinality(Outstanding) + 1
      BY <3>5, <3>6, <3>7
    <3> QED BY <2>2, <3>8 DEF P
  <2> QED BY <1>1, <2>1, <2>2, OutstandingSteps
<1>5. sync' \in {"countSent", "count"} /\ sync \in {"countSent", "count"}
        => /\ Cardinality(Carried') <= Cardinality(Carried)
           /\ Cardinality(Held') <= Cardinality(Held)
  <2>1. sync \in {"countSent", "count"} => Carried' \subseteq Carried /\ Held' \subseteq Held
    BY <1>1, OutstandingSteps, NoneSubmittedInCount DEF Inside
  <2> QED BY <1>2, <2>1, SampleSets
<1>6. /\ Cardinality(Outstanding) \in Nat /\ Cardinality(Carried) \in Nat
      /\ Cardinality(Held) \in Nat /\ Cardinality(Outstanding') \in Nat
      /\ Cardinality(Carried') \in Nat /\ Cardinality(Held') \in Nat
  BY <1>2, SampleSets
<1>7. sync = "count" => Cardinality(Outstanding) <= recount + 1
  <2>1. Outstanding \subseteq Held \cup {hand}
    BY DEF Outstanding, Held, Carried
  <2>2. CASE hand \in Samples
    <3>1. Held \cup {hand} \subseteq Samples
      BY <1>2, <2>2
    <3>2. Cardinality(Outstanding) <= Cardinality(Held \cup {hand})
      BY <1>2, <2>1, <3>1, SampleSets
    <3>3. Cardinality(Held \cup {hand}) <= Cardinality(Held) + 1
      BY <1>2, SampleSets
    <3>4. Cardinality(Held \cup {hand}) \in Nat
      BY <3>1, SampleSets
    <3> QED BY <1>3, <1>6, <3>2, <3>3, <3>4 DEF CountInv
  <2>3. CASE hand \notin Samples
    <3>1. Outstanding \subseteq Held
      BY <1>2, <2>1, <2>3
    <3>2. Cardinality(Outstanding) <= Cardinality(Held)
      BY <1>2, <3>1, SampleSets
    <3> QED BY <1>3, <1>6, <3>2 DEF CountInv
  <2> QED BY <2>2, <2>3
<1>8. Cardinality(Carried) <= Recount
  <2>1. cancelled \in Seq(Samples) /\ active \subseteq Samples
    BY <1>1 DEF TypeInv, SampleTypes
  <2>2. Carried \subseteq active \cup ToSet(cancelled) /\ ToSet(cancelled) \subseteq Samples
    BY <1>1, <2>1 DEF Carried, LoopInv, Resting, UnderWay, ToSet
  <2>3. Cardinality(Carried) <= Cardinality(active \cup ToSet(cancelled))
        /\ Cardinality(active \cup ToSet(cancelled)) \in Nat
    <3>1. active \cup ToSet(cancelled) \subseteq Samples
      BY <2>1, <2>2
    <3> QED BY <1>2, <2>2, <3>1, SampleSets
  <2>4. Cardinality(active \cup ToSet(cancelled)) <= Cardinality(active) + Cardinality(ToSet(cancelled))
    BY <2>1, <2>2, SampleSets
  <2>5. /\ Cardinality(ToSet(cancelled)) <= Len(cancelled) /\ Len(cancelled) \in Nat
        /\ Cardinality(ToSet(cancelled)) \in Nat
    BY <2>1, MembersOfLine
  <2>6. /\ Cardinality(active) \in Nat /\ finished.ok \in Nat /\ finished.bad \in Nat
    BY <1>1, CountedTasks
  <2> QED BY <1>6, <2>3, <2>4, <2>5, <2>6, SMTT(60) DEF Recount, ActiveTasks
<1>9. Cardinality(Held) <= Cardinality(Carried) + Len(queue)
  <2> DEFINE Q == {s \in Samples : s \in ToSet(queue)}
  <2>1. Held = Carried \cup Q /\ Q \subseteq Samples
    BY DEF Held, Carried
  <2>2. Q \subseteq ToSet(queue)
    OBVIOUS
  <2> HIDE DEF Q
  <2>3. Cardinality(Held) <= Cardinality(Carried) + Cardinality(Q) /\ Cardinality(Q) \in Nat
    BY <1>2, <2>1, SampleSets
  <2>4. queue \in Seq(Payload)
    BY <1>1 DEF TypeInv, MessageTypes
  <2>5. /\ IsFiniteSet(ToSet(queue)) /\ Cardinality(ToSet(queue)) <= Len(queue)
        /\ Cardinality(ToSet(queue)) \in Nat
    BY <2>4, MembersOfLine
  <2>6. Cardinality(Q) <= Cardinality(ToSet(queue))
    BY <2>2, <2>5, FS_Subset
  <2> QED BY <1>3, <1>6, <2>3, <2>5, <2>6
<1>10. /\ Cardinality(Outstanding) <= staleness_samples + 1
       /\ Cardinality(Outstanding) <= MaxRequired + 1
       /\ ppc = "take" => Cardinality(Outstanding) <= MaxRequired
       /\ sync = "countSent" => Cardinality(Carried) <= recount
       /\ sync = "count" => Cardinality(Held) <= recount
  BY DEF CountInv, StalenessCounted
<1>11. /\ Cardinality(Outstanding') <= staleness_samples' + 1
       /\ Cardinality(Outstanding') <= MaxRequired + 1
       /\ ppc' = "take" => Cardinality(Outstanding') <= MaxRequired
  <2>1. UpdateCounted => sync = "count" /\ ppc' = ppc
    BY DEF UpdateCounted, procVars
  <2>2. ProcCheck => staleness_samples' = staleness_samples
    BY DEF ProcCheck, flagVars
  <2> QED BY <1>1, <1>3, <1>4, <1>6, <1>7, <1>10, <2>1, <2>2, CountingSteps, SMTT(60)
<1>12. sync' = "countSent" => Cardinality(Carried') <= recount'
  <2>1. CASE UpdateBegin /\ recount' = Recount
    <3>1. Carried' = Carried
      BY <2>1 DEF UpdateBegin, Carried, taskVars, queueVars
    <3> QED BY <1>8, <2>1, <3>1
  <2>2. CASE sync = "countSent" /\ recount' = recount
    BY <1>3, <1>5, <1>6, <1>10, <2>2
  <2> QED BY <1>1, <2>1, <2>2, CountingSteps
<1>13. sync' = "count" => Cardinality(Held') <= recount'
  <2>1. CASE QueueCounts /\ recount' = recount + Len(queue)
    <3>1. Held' = Held /\ sync = "countSent"
      BY <2>1 DEF QueueCounts, Held, Carried, taskVars, queueVars, mqVars
    <3> QED BY <1>3, <1>6, <1>9, <1>10, <2>1, <3>1
  <2>2. CASE sync = "count" /\ recount' = recount
    BY <1>3, <1>5, <1>6, <1>10, <2>2
  <2> QED BY <1>1, <2>1, <2>2, CountingSteps
<1> QED BY <1>11, <1>12, <1>13 DEF CountInv, StalenessCounted

(* staleness_samples, which the processor counts up and an update counts   *)
(* afresh from three readings at two moments, never misses more than one   *)
(* of the samples that are outstanding, and they never exceed the limit by *)
(* more than one, whatever the sizes, the threshold and the interleaving.  *)
THEOREM CountMissesOne == Spec => []StalenessCounted
<1>1. Init => CountInv
  <2> SUFFICES ASSUME Init PROVE CountInv
    OBVIOUS
  <2>1. /\ queue = <<>> /\ cancelled = <<>> /\ hand = NoSample /\ staleness_samples = 0
        /\ \A s \in Samples : task[s] = "none"
    BY DEF Init, RollInit
  <2>2. ppc = "check" /\ sync = "idle"
    BY DEF Init, RollInit
  <2>3. Outstanding = {}
    BY <2>1, EmptyLine, Constants DEF Outstanding, UnderWay, NoSample
  <2>4. Cardinality({}) = 0
    BY FS_EmptySet
  <2> QED BY <2>1, <2>2, <2>3, <2>4, Constants DEF CountInv, StalenessCounted
<1>2. CountInv => StalenessCounted
  BY DEF CountInv
<1> QED BY <1>1, <1>2, CountInvStep, SystemInvHolds, PTL DEF Spec

-----------------------------------------------------------------------------
(* The samples come in their order.  Got of them were taken from the       *)
(* pending queue; the end signal, if it was taken, counts too.             *)
Got == fed - Len(pending)

(* What the trainer has collected or trained on. *)
Consumed == trained \cup ToSet(batch)

FlowInv ==
  /\ Got \in 0..DONE
  /\ \A i \in 1..Len(pending) : pending[i] = Got + i
  /\ BatchAt
  /\ trainer \in Looping => Cardinality(Consumed) = Taken

(* The processor stops before the trainer sees the None sample. *)
EndInv ==
  /\ pmode = "stop" <=> ppc \in {"exited", "failed"}
  /\ trainer \notin Looping => pmode = "stop"
  /\ ppc \in {"final", "exited"} => Got = DONE /\ hand = DONE
  /\ ppc = "exited" => active = {}
  /\ finished.bad > 0 => failed # {}
  /\ sync = "cancelSent" => PartialRollout
  /\ server_paused => PartialRollout /\ sync \in Drained \cup {"cancel", "gathering"}
  /\ cleared > 0 => trainer = "done"

(* The feeder puts and the processor takes in the order of the dataset.    *)
LEMMA FedInOrder ==
  ASSUME TypeInv, SampleInv, FlowInv, [Next]_vars
  PROVE  /\ Got' \in 0..DONE /\ \A i \in 1..Len(pending') : pending'[i] = Got' + i
         /\ TakePending => Got' = Got + 1 /\ hand' = Got'
         /\ ~TakePending => Got' = Got
<1>1. /\ pending \in Seq(1..DONE) /\ fed \in 0..DONE /\ DONE \in Nat /\ Len(pending) \in Nat
      /\ Got \in 0..DONE /\ \A i \in 1..Len(pending) : pending[i] = Got + i
      /\ Len(pending) <= PendingCap
  BY Constants DEF TypeInv, SampleTypes, FlowInv
<1>2. CASE FeedSamples
  <2>1. PICK last \in fed..DONE : /\ pending' = pending \o SubSeq(Dataset, fed + 1, last)
                                  /\ fed' = last
    <3> DEFINE room == PendingCap - Len(pending)
               last == IF fed + room < DONE THEN fed + room ELSE DONE
    <3>1. pending' = pending \o SubSeq(Dataset, fed + 1, last) /\ fed' = last
      BY <1>2 DEF FeedSamples
    <3>2. room \in Nat
      BY <1>1, Constants
    <3> HIDE DEF room
    <3>3. last \in fed..DONE
      BY <1>1, <3>2
    <3> HIDE DEF last
    <3> QED BY <3>1, <3>3
  <2> DEFINE new == SubSeq(Dataset, fed + 1, last)
  <2>2. /\ new \in Seq(1..DONE) /\ Len(new) = last - fed
        /\ \A i \in 1..(last - fed) : new[i] = fed + i
    <3>1. \A i \in (fed + 1)..last : Dataset[i] = i /\ Dataset[i] \in 1..DONE
      BY <1>1 DEF Dataset
    <3>2. /\ new \in Seq(1..DONE)
          /\ Len(new) = IF fed + 1 <= last THEN last - (fed + 1) + 1 ELSE 0
          /\ \A i \in 1..(last - (fed + 1) + 1) : new[i] = Dataset[(fed + 1) + i - 1]
      BY <1>1, <3>1, SubSeqProperties
    <3>3. last - (fed + 1) + 1 = last - fed /\ (~(fed + 1 <= last) => last - fed = 0)
      BY <1>1
    <3>4. \A i \in 1..(last - fed) : (fed + 1) + i - 1 = fed + i /\ fed + i \in (fed + 1)..last
      BY <1>1
    <3> QED BY <3>1, <3>2, <3>3, <3>4
  <2> HIDE DEF new
  <2>3. /\ Len(pending') = Len(pending) + (last - fed)
        /\ \A i \in 1..(Len(pending) + (last - fed)) :
             pending'[i] = IF i <= Len(pending) THEN pending[i] ELSE new[i - Len(pending)]
    <3>1. pending' = pending \o new
      BY <2>1 DEF new
    <3>2. pending \in Seq(1..DONE) /\ new \in Seq(1..DONE)
      BY <1>1, <2>2
    <3>3. /\ Len(pending \o new) = Len(pending) + Len(new)
          /\ \A i \in 1..(Len(pending) + Len(new)) :
               (pending \o new)[i] = IF i <= Len(pending) THEN pending[i] ELSE new[i - Len(pending)]
      BY <3>2, ConcatProperties
    <3> QED BY <2>2, <3>1, <3>3
  <2>4. Got' = Got
    BY <1>1, <2>1, <2>3 DEF Got
  <2>5. ASSUME NEW i \in 1..Len(pending')
        PROVE  pending'[i] = Got' + i
    <3>1. i \in 1..(Len(pending) + (last - fed))
      BY <2>3
    <3>2. CASE i <= Len(pending)
      <4>1. i \in 1..Len(pending) /\ pending'[i] = pending[i]
        BY <1>1, <2>3, <3>1, <3>2
      <4> QED BY <1>1, <2>4, <4>1
    <3>3. CASE ~(i <= Len(pending))
      <4>1. /\ i - Len(pending) \in 1..(last - fed)
            /\ fed + (i - Len(pending)) = Got + i
        BY <1>1, <3>1, <3>3 DEF Got
      <4> QED BY <2>2, <2>3, <2>4, <3>1, <3>3, <4>1
    <3> QED BY <3>2, <3>3
  <2>6. ~TakePending
    BY <1>2, Names DEF FeedSamples, TakePending, Running
  <2> QED BY <1>1, <2>4, <2>5, <2>6
<1>3. CASE TakePending
  <2>1. /\ pending # <<>> /\ hand' = Head(pending) /\ pending' = Tail(pending)
        /\ fed' = fed
    BY <1>3 DEF TakePending
  <2>2. /\ Len(pending) >= 1 /\ Len(pending') = Len(pending) - 1 /\ Head(pending) = pending[1]
        /\ \A i \in 1..Len(pending') : pending'[i] = pending[i + 1]
    BY <1>1, <2>1
  <2>3. Got' = Got + 1 /\ Got + Len(pending) = fed
    BY <1>1, <2>1, <2>2 DEF Got
  <2>4. hand' = Got'
    <3>1. 1 \in 1..Len(pending)
      BY <1>1, <2>2
    <3> QED BY <1>1, <2>1, <2>2, <2>3, <3>1
  <2>5. ASSUME NEW i \in 1..Len(pending')
        PROVE  pending'[i] = Got' + i
    <3>1. i + 1 \in 1..Len(pending) /\ pending'[i] = pending[i + 1] /\ i \in Int
      BY <1>1, <2>2
    <3>2. pending[i + 1] = Got + (i + 1)
      BY <1>1, <3>1
    <3> QED BY <1>1, <2>3, <3>1, <3>2
  <2> QED BY <1>1, <1>3, <2>2, <2>3, <2>4, <2>5
<1>4. CASE UNCHANGED <<pending, fed>>
  <2>1. ~TakePending
    BY <1>1, <1>4 DEF TakePending
  <2> QED BY <1>1, <1>4, <2>1 DEF Got
<1>5. \/ FeedSamples \/ TakePending \/ UNCHANGED <<pending, fed>>
  <2> USE DEF queueVars, rollVars
  <2>1. CASE \/ TakeCancelled \/ ProcSubmit \/ Tasks \/ MainSignal
             \/ \E s \in Samples : Generation(s) \/ ServerError(s)
    BY <2>1 DEF TakeCancelled, ProcSubmit, Tasks, TaskSubmit, TaskComplete, TaskReturn, MainSignal,
       Generation, ServerAdmit, ServerAnswer, QueuePut, ServerError
  <2>2. CASE TrainerGet \/ TrainerStep \/ MainClear
    BY <2>2 DEF TrainerGet, TrainerStep, MainClear
  <2>3. CASE UNCHANGED placeVars
    BY <2>3 DEF placeVars
  <2> QED BY <2>1, <2>2, <2>3, MovingSteps
<1> QED BY <1>2, <1>3, <1>4, <1>5

(* What the trainer took, by every step: one more with each sample it      *)
(* collects, and a full batch is counted into its interval.                *)
LEMMA TakenSteps ==
  ASSUME VersionsInv, TypeInv, SampleInv, BatchAt, [Next]_vars
  PROVE  /\ BatchAt'
         /\ trainer' \in Looping => trainer \in Looping
         /\ trainer' \in Looping =>
              \/ /\ TrainerGet /\ queue # <<>> /\ Head(queue) \in Samples
                 /\ queue' = Tail(queue) /\ Consumed' = Consumed \cup {Head(queue)}
                 /\ Head(queue) \notin Consumed /\ Taken' = Taken + 1
              \/ Consumed' = Consumed /\ Taken' = Taken /\ (queue' = queue \/ Rollout)
<1>1. /\ trainer_version \in Nat /\ local_trigger_step \in 1..Trigger
      /\ Required \in Nat \ {0} /\ Trigger \in Nat \ {0} /\ Interval \in Nat /\ Taken \in Int
      /\ batch \in Seq(Samples) /\ Len(batch) \in Nat
      /\ Line(queue, Payload) /\ Line(batch, Samples)
      /\ Len(<<>>) = 0 /\ ToSet(<<>>) = {}
  <2>1. Line(queue, Payload) /\ Line(batch, Samples)
    BY DEF SampleInv, SampleLines
  <2>2. \A S : Line(<<>>, S) /\ ToSet(<<>>) = {}
    BY EmptyLine
  <2>3. /\ Required \in Nat \ {0} /\ Trigger \in Nat \ {0} /\ Interval \in Nat /\ Taken \in Int
    BY Constants, Intervals, TakenTyped
  <2>4. batch \in Seq(Samples)
    BY DEF TypeInv, TrainerTypes
  <2> QED BY <2>1, <2>2, <2>3, <2>4 DEF VersionsInv, TypeInv, TrainerTypes
<1>2. CASE Rollout
  BY <1>2 DEF Rollout, trainerVars, BatchAt, Consumed, Taken
<1>3. CASE TrainerStep
  <2>1. /\ batch' = <<>> /\ Len(batch) = Required /\ trainer = "train"
        /\ trained' = trained \cup ToSet(batch) /\ queue' = queue
        /\ \/ /\ local_trigger_step >= Trigger /\ local_trigger_step' = 1
              /\ trainer_version' = trainer_version + 1 /\ trainer' = "waitValid"
           \/ /\ trainer' = "log" /\ trainer_version' = trainer_version
              /\ local_trigger_step' = local_trigger_step + 1
    BY <1>3 DEF TrainerStep, SyncDue, BatchAt, mqVars
  <2>2. BatchAt' /\ Consumed' = Consumed
    BY <1>1, <2>1 DEF BatchAt, Consumed
  <2>3. Taken' = Taken
    <3>1. Taken' = trainer_version' * Interval + (local_trigger_step' - 1) * Required
      <4>1. Len(batch') = 0 /\ trainer_version' * Interval \in Int
            /\ (local_trigger_step' - 1) * Required \in Int
        BY <1>1, <2>1
      <4> QED BY <4>1 DEF Taken
    <3>2. Taken = trainer_version * Interval + (local_trigger_step - 1) * Required + Required
      BY <2>1 DEF Taken
    <3>3. trainer_version * Interval \in Int /\ (local_trigger_step - 1) * Required \in Int
          /\ (local_trigger_step' - 1) * Required \in Int
      BY <1>1, <2>1
    <3>4. CASE local_trigger_step >= Trigger /\ trainer_version' = trainer_version + 1
               /\ local_trigger_step' = 1
      <4>1. (local_trigger_step - 1) * Required + Required = Interval
        <5>1. local_trigger_step = Trigger
          BY <1>1, <3>4
        <5> QED BY <5>1, Intervals
      <4>2. trainer_version' * Interval = trainer_version * Interval + Interval
        BY <1>1, <3>4, Intervals
      <4>3. (local_trigger_step' - 1) * Required = 0
        BY <1>1, <3>4
      <4> QED BY <1>1, <3>1, <3>2, <3>3, <4>1, <4>2, <4>3
    <3>5. CASE trainer_version' = trainer_version
               /\ local_trigger_step' = local_trigger_step + 1
      <4>1. (local_trigger_step' - 1) * Required = (local_trigger_step - 1) * Required + Required
        <5>1. local_trigger_step' - 1 = local_trigger_step /\ local_trigger_step \in Int
          BY <1>1, <3>5
        <5> QED BY <5>1, Intervals
      <4> QED BY <1>1, <3>1, <3>2, <3>3, <3>5, <4>1
    <3> QED BY <2>1, <3>4, <3>5
  <2> QED BY <2>1, <2>2, <2>3 DEF Looping
<1>4. CASE TrainerGet /\ queue # <<>> /\ Head(queue) # STOP
  <2>1. /\ trainer = "collect" /\ queue' = Tail(queue) /\ batch' = Append(batch, Head(queue))
        /\ trainer' = IF Len(batch) + 1 = Required THEN "train" ELSE "collect"
        /\ UNCHANGED <<trainer_version, local_trigger_step, trained>>
    BY <1>4 DEF TrainerGet, GetSample, Recheck, Take, Wait, ReturnNone, Receive
  <2>2. Head(queue) \in Payload /\ Head(queue) \in ToSet(queue)
    BY <1>1, <1>4, ShorterLine
  <2>3. Head(queue) \in Samples
    BY <1>4, <2>2, Constants
  <2>4. Head(queue) \notin ToSet(batch) /\ Head(queue) \notin trained
    BY <2>2, <2>3 DEF SampleInv, Located, LocatedAt
  <2>5. Len(batch') = Len(batch) + 1 /\ ToSet(batch') = ToSet(batch) \cup {Head(queue)}
    <3>1. Len(batch') = Len(batch) + 1
      BY <1>1, <2>1, <2>3
    <3> QED BY <1>1, <2>1, <2>3, <2>4, <3>1, LongerLine
  <2>6. BatchAt'
    BY <1>1, <2>1, <2>5 DEF BatchAt
  <2>7. Taken' = Taken + 1
    <3>1. trainer_version * Interval \in Int /\ (local_trigger_step - 1) * Required \in Int
      BY <1>1
    <3>2. Taken' = trainer_version * Interval + (local_trigger_step - 1) * Required
                     + (Len(batch) + 1)
      BY <2>1, <2>5 DEF Taken
    <3> QED BY <1>1, <3>1, <3>2 DEF Taken
  <2>8. Consumed' = Consumed \cup {Head(queue)} /\ Head(queue) \notin Consumed
    BY <2>1, <2>4, <2>5 DEF Consumed
  <2> QED BY <1>4, <2>1, <2>3, <2>6, <2>7, <2>8 DEF Looping
<1>5. CASE TrainerGet /\ ~(queue # <<>> /\ Head(queue) # STOP)
  <2>1. /\ UNCHANGED <<batch, trainer_version, local_trigger_step, trained>>
        /\ trainer = "collect"
        /\ \/ trainer' = "finalWait"
           \/ trainer' = "collect" /\ queue' = queue
    BY <1>5 DEF TrainerGet, GetSample, Recheck, Take, Wait, ReturnNone, Receive
  <2> QED BY <2>1 DEF BatchAt, Taken, Consumed, Looping
<1>6. ASSUME \/ TrainerLog("start", "collect") \/ TrainerLog("log", "collect")
             \/ SyncWeights("waitValid", "sync") \/ TransferBegin \/ TransferEnd
             \/ UNCHANGED vars /\ trainer \in Looping
      PROVE  /\ BatchAt' /\ Consumed' = Consumed /\ Taken' = Taken /\ queue' = queue
             /\ trainer' \in Looping => trainer \in Looping
  <2>1. UNCHANGED <<queue, batch, trainer_version, local_trigger_step, trained>>
    BY <1>6 DEF TrainerLog, LogValidation, GetValidate, SyncWeights, TransferBegin,
       TransferEnd, UpdateParamVersion, mqVars, trainerVars, vars
  <2>2. sync \in {"paused", "transfer"} => trainer \in {"sync", "finalSync"}
    BY DEF VersionsInv, VersionsAtPhase, Pausing, Arriving, Updated
  <2>3. \/ trainer = "start" /\ trainer' = "collect"
        \/ trainer = "log" /\ trainer' = "collect"
        \/ trainer = "waitValid" /\ trainer' = "sync"
        \/ trainer = "sync" /\ trainer' \in {"sync", "log"}
        \/ trainer = "finalSync" /\ trainer' \in {"finalSync", "finalValid"}
        \/ trainer \in Looping /\ trainer' = trainer
    BY <1>6, <2>2 DEF TrainerLog, SyncWeights, TransferBegin, TransferEnd, trainerVars, vars,
       Looping
  <2>4. BatchAt' /\ (trainer' \notin Looping \/ trainer \in Looping)
    BY <1>1, <2>1, <2>3 DEF BatchAt, Looping
  <2> QED BY <2>1, <2>4 DEF Consumed, Taken
<1>7. ASSUME \/ FinalLog \/ FinalDecide \/ SyncWeights("finalTrigger", "finalSync")
             \/ FinalValidLog \/ MainClear \/ (UNCHANGED vars /\ trainer \notin Looping)
      PROVE  BatchAt' /\ trainer' \notin Looping
  <2>1. \/ trainer' \in {"final", "finalTrigger", "finalSync", "done"}
        \/ UNCHANGED <<trainer, batch, local_trigger_step>> /\ trainer \notin Looping
    BY <1>7 DEF FinalLog, FinalDecide, SyncWeights, FinalValidLog, TrainerLog, MainClear,
       Finished, vars, trainerVars, Looping
  <2> QED BY <2>1 DEF BatchAt, Looping
<1> QED BY <1>2, <1>3, <1>4, <1>5, <1>6, <1>7 DEF Next, Trainer, Transfer, Terminated

(* The order and the count of what was taken are kept. *)
LEMMA FlowInvStep == SystemInv /\ FlowInv /\ [Next]_vars => FlowInv'
<1> SUFFICES ASSUME SystemInv, FlowInv, [Next]_vars PROVE FlowInv'
  OBVIOUS
<1>1. VersionsInv /\ TypeInv /\ SampleInv /\ BatchAt
  BY DEF SystemInv, FlowInv
<1>2. /\ Got' \in 0..DONE /\ \A i \in 1..Len(pending') : pending'[i] = Got' + i
  BY <1>1, FedInOrder
<1>3. ASSUME trainer' \in Looping
      PROVE  Cardinality(Consumed') = Taken'
  <2>1. trainer \in Looping /\ Cardinality(Consumed) = Taken
    BY <1>1, <1>3, TakenSteps DEF FlowInv
  <2>2. CASE Consumed' = Consumed /\ Taken' = Taken
    BY <2>1, <2>2
  <2>3. CASE Head(queue) \in Samples /\ Consumed' = Consumed \cup {Head(queue)}
             /\ Head(queue) \notin Consumed /\ Taken' = Taken + 1
    <3>1. IsFiniteSet(Consumed)
      <4>1. IsFiniteSet(Samples)
        BY Constants, FS_Interval
      <4>2. Consumed \subseteq Samples
        BY <1>1 DEF Consumed, TypeInv, TrainerTypes, ToSet
      <4> QED BY <4>1, <4>2, FS_Subset
    <3>2. Cardinality(Consumed') = Cardinality(Consumed) + 1
      BY <2>3, <3>1, FS_AddElement
    <3> QED BY <2>1, <2>3, <3>2
  <2> QED BY <1>1, <1>3, <2>2, <2>3, TakenSteps
<1>4. BatchAt'
  BY <1>1, TakenSteps
<1> QED BY <1>2, <1>3, <1>4 DEF FlowInv

(* The steps that move the processor, and the others. *)
LEMMA OnlyProcessorMoves ==
  ASSUME [Next]_vars
  PROVE  \/ Processor /\ UNCHANGED trainerVars
         \/ /\ UNCHANGED <<ppc, hand, done_bound>>
            /\ pmode' = pmode \/ (pmode = "cond" /\ pmode' = "woken")
<1> USE DEF procVars, rollVars
<1>1. CASE Rollout /\ Processor
  BY <1>1 DEF Rollout
<1>2. CASE Tasks \/ FeedSamples
  BY <1>2 DEF Tasks, TaskSubmit, TaskComplete, TaskReturn, FeedSamples
<1>3. CASE Monitor \/ MainCoroutine \/ MonitorTimer
  BY <1>3 DEF Monitor, MonitorTick, MonitorBlock, MonitorUnpause, MonitorLook, NotifyProcessor,
     MainCoroutine, MainWake, MainBlock, MainStop, MonitorTimer
<1>4. CASE SyncCalls
  BY <1>4 DEF SyncCalls, SyncBlock, PauseBegin, PauseCancelled, PauseGathered, PauseEnd,
     UpdateBegin,
     UpdateCounted, UpdateEnd, ResumeServers, ResumeEnd, ResumeEffect, NotifyProcessor
<1>5. CASE Replies
  BY <1>5 DEF Replies, MainSignal, CallArrives, ServersCancel, ServersReset, QueueCounts,
     QueuePublishes, ServersResume
<1>6. CASE \E s \in Samples : Generation(s) \/ ServerError(s)
  BY <1>6 DEF Generation, ServerAdmit, ServerAnswer, ServerError, QueuePut
<1>7. CASE Trainer
  BY <1>7 DEF Trainer, TrainerLog, TrainerGet, TrainerStep, SyncWeights, FinalLog,
              FinalDecide, FinalValidLog
<1>8. CASE Transfer \/ MainClear \/ UNCHANGED vars
  BY <1>8 DEF Transfer, TransferBegin, TransferEnd, MainClear, vars
<1> QED BY <1>1, <1>2, <1>3, <1>4, <1>5, <1>6, <1>7, <1>8
   DEF Next, Rollout, RollNext, EventLoop, Terminated

(* Where the processor goes. *)
LEMMA ProcessorWay ==
  ASSUME TypeInv, Processor
  PROVE  /\ pmode # "stop" /\ Running(Proc)
         /\ ppc' \in {"take", "pause"} => ProcCheck \/ ppc' = ppc
         /\ ppc' = "final" => ppc = "final" \/ (TakePending /\ hand' = DONE)
         /\ pmode' = "stop" => \/ ProcLoopDone /\ ppc = "final" /\ ppc' = "exited" /\ active = {}
                               \/ ProcCollect /\ ppc' = "failed" /\ finished.bad > 0
                               \/ ProcCollectNothing /\ ppc' = "failed" /\ ~done_bound
         /\ pmode' # "stop" => ppc' \notin {"exited", "failed"} \/ ppc' = ppc
         /\ hand' # hand => \/ TakeCancelled /\ ppc' = "limit"
                            \/ TakePending /\ ppc = "take" /\ ppc' \in {"limit", "final"}
                            \/ ProcSubmit /\ hand' = NoSample /\ ppc' = "check"
         /\ ppc \in {"final", "exited", "failed"} => hand' = hand
<1>1. /\ pmode = "get" => ppc = "take"
      /\ ppc \in {"check", "pause", "drain", "idle", "take"} => hand = NoSample
      /\ hand \in 0..DONE
  BY DEF TypeInv, InHand, ControlTypes
<1> USE DEF GoOn, Suspend, Stop
<1>2. CASE ProcCheck \/ ProcBlock \/ ProcSetPaused \/ ProcCollectBegin
  BY <1>1, <1>2 DEF ProcCheck, ProcBlock, ProcSetPaused, ProcCollectBegin, ProcHasLock,
     WantsLock, Enqueue
<1>3. CASE ProcLoopDone
  <2>1. ppc = "final" => active = {}
    BY <1>3, CountedTasks, FS_EmptySet DEF ProcLoopDone, MustCollect, ActiveTasks
  <2> QED BY <1>1, <1>3, <2>1 DEF ProcLoopDone
<1>4. CASE ProcCollect \/ ProcCollectNothing \/ ProcIdle
  BY <1>1, <1>4 DEF ProcCollect, ProcCollectNothing, ProcIdle, ProcHasLock, WantsLock
<1>5. CASE TakeCancelled \/ TakePending \/ TakeWait
  BY <1>1, <1>5 DEF TakeCancelled, TakePending, TakeWait
<1>6. CASE ProcSubmit
  BY <1>1, <1>6 DEF ProcSubmit, ProcHasLock, WantsLock
<1> QED BY <1>2, <1>3, <1>4, <1>5, <1>6 DEF Processor

(* A failure is not forgotten. *)
LEMMA FailedGrow ==
  ASSUME TypeInv, [Next]_vars
  PROVE  failed \subseteq failed' /\ (failed' # failed => \E s \in Samples : ServerError(s))
<1>1. CASE \E s \in Samples : ServerError(s)
  BY <1>1 DEF ServerError
<1>2. CASE FeedSamples \/ TakeCancelled \/ TakePending \/ ProcSubmit \/ Tasks \/ MainSignal
           \/ \E s \in Samples : Generation(s)
  BY <1>2 DEF FeedSamples, TakeCancelled, TakePending, ProcSubmit, Tasks, TaskSubmit,
     TaskComplete, TaskReturn, MainSignal, Generation, ServerAdmit, ServerAnswer, QueuePut, histVars
<1>3. CASE TrainerGet \/ TrainerStep \/ MainClear
  BY <1>3 DEF TrainerGet, TrainerStep, MainClear, rollVars, histVars
<1>4. CASE UNCHANGED placeVars
  BY <1>4 DEF placeVars
<1> QED BY <1>1, <1>2, <1>3, <1>4, MovingSteps

(* A sample is in one place; those taken are neither unfed nor pending. *)
LEMMA PlaceOf ==
  ASSUME SampleInv, NEW s \in Samples
  PROVE  \E p \in Places : LocatedAt(s, p)
  BY DEF SampleInv, Located

(* The end of the run comes in its order. *)
LEMMA EndInvStep == SystemInv /\ FlowInv /\ EndInv /\ [Next]_vars => EndInv'
<1> SUFFICES ASSUME SystemInv, FlowInv, EndInv, [Next]_vars PROVE EndInv'
  OBVIOUS
<1>1. /\ VersionsInv /\ TypeInv /\ LoopInv /\ SampleInv /\ BatchAt
      /\ pmode = "stop" <=> ppc \in {"exited", "failed"}
      /\ trainer \notin Looping => pmode = "stop"
      /\ ppc \in {"final", "exited"} => Got = DONE /\ hand = DONE
      /\ ppc = "exited" => active = {}
      /\ DONE \in Nat
  BY Constants DEF SystemInv, FlowInv, EndInv
<1>2. pmode' = "stop" <=> ppc' \in {"exited", "failed"}
  <2>1. CASE Processor
    BY <1>1, <2>1, ProcessorWay
  <2>2. CASE /\ UNCHANGED <<ppc, hand, done_bound>>
             /\ pmode' = pmode \/ (pmode = "cond" /\ pmode' = "woken")
    BY <1>1, <2>2
  <2> QED BY <2>1, <2>2, OnlyProcessorMoves
<1>3. pmode = "stop" => pmode' = "stop" /\ ~Processor
  BY <1>1, ProcessorWay, OnlyProcessorMoves
<1>4. trainer' \notin Looping => pmode' = "stop"
  <2>1. CASE trainer \notin Looping
    BY <1>1, <1>3, <2>1
  <2>2. ASSUME trainer \in Looping, trainer' \notin Looping
        PROVE  TrainerGet /\ queue # <<>> /\ Head(queue) = STOP
    <3>1. CASE Rollout \/ MainClear \/ UNCHANGED vars
      BY <2>2, <3>1 DEF Rollout, MainClear, trainerVars, vars
    <3>2. CASE Trainer
      BY <2>2, <3>2 DEF Trainer, TrainerLog, TrainerGet, Receive, TrainerStep, SyncWeights,
         FinalLog, FinalDecide, FinalValidLog, Looping, trainerVars
    <3>3. CASE Transfer
      BY <2>2, <3>3 DEF Transfer, TransferBegin, TransferEnd, Looping, trainerVars
    <3> QED BY <3>1, <3>2, <3>3 DEF Next, Terminated
  <2>3. queue # <<>> /\ Head(queue) = STOP => pmode = "stop"
    <3>1. Line(queue, Payload) /\ (main \in {"streaming", "signalling"} => STOP \notin ToSet(queue))
      BY <1>1 DEF SampleInv, SampleLines
    <3>2. queue # <<>> => Head(queue) \in ToSet(queue)
      BY <3>1, ShorterLine
    <3> QED BY <1>1, <3>1, <3>2 DEF LoopInv, Resting
  <2> QED BY <1>3, <2>1, <2>2, <2>3
<1>5. ppc' \in {"final", "exited"} => Got' = DONE /\ hand' = DONE
  <2>1. CASE Processor
    <3>1. CASE ppc \in {"final", "exited"}
      <4>1. ~TakePending
        BY <1>1, <3>1 DEF TakePending, TypeInv, InHand
      <4> QED BY <1>1, <2>1, <3>1, <4>1, ProcessorWay, FedInOrder
    <3>2. CASE ppc \notin {"final", "exited"} /\ TakePending /\ hand' = DONE
      BY <1>1, <3>2, FedInOrder
    <3> QED BY <1>1, <2>1, <3>1, <3>2, ProcessorWay
  <2>2. CASE ~Processor
    <3>1. UNCHANGED <<ppc, hand>> /\ ~TakePending
      BY <2>2, OnlyProcessorMoves DEF Processor
    <3> QED BY <1>1, <3>1, FedInOrder
  <2> QED BY <2>1, <2>2
<1>6. ppc' = "exited" => active' = {}
  <2>1. CASE ppc = "exited"
    <3>1. ~Processor /\ ~ProcSubmit
      BY <1>1, <1>3, <2>1 DEF Processor
    <3>2. active' \subseteq active
      BY <1>1, <3>1, TaskCountSteps DEF TaskReturn, Finish, PauseGathered, ProcCollect
    <3> QED BY <1>1, <2>1, <3>2
  <2>2. CASE ppc # "exited" /\ ppc' = "exited"
    <3>1. Processor /\ pmode' = "stop"
      BY <1>2, <2>2, OnlyProcessorMoves
    <3>2. ProcLoopDone /\ active = {}
      BY <1>1, <2>2, <3>1, ProcessorWay
    <3> QED BY <3>2 DEF ProcLoopDone, taskVars
  <2> QED BY <2>1, <2>2
<1>7. finished'.bad > 0 => failed' # {}
  <2>1. failed \subseteq failed'
    BY <1>1, FailedGrow
  <2>2. CASE finished'.bad = finished.bad \/ finished'.bad = 0
    BY <2>1, <2>2 DEF EndInv
  <2>3. ASSUME NEW s \in Samples, TaskReturn(s)
        PROVE  finished'.bad = finished.bad \/ failed # {}
    <3>1. task[s] = "error" => s \in failed
      BY <1>1, PlaceOf DEF LocatedAt
    <3>2. finished = [ok |-> finished.ok, bad |-> finished.bad]
      BY <1>1, CountedTasks
    <3> QED BY <2>3, <3>1, <3>2 DEF TaskReturn, Finish
  <2>4. ProcCollect \/ PauseGathered => finished'.bad = 0
    BY DEF ProcCollect, PauseGathered
  <2>5. ProcSubmit => finished' = finished
    BY DEF ProcSubmit
  <2> QED BY <1>1, <2>1, <2>2, <2>3, <2>4, <2>5, TaskCountSteps
<1>8. /\ server_paused' => PartialRollout /\ sync' \in Drained \cup {"cancel", "gathering"}
      /\ sync' = "cancelSent" => PartialRollout
  <2>1. /\ server_paused => PartialRollout /\ sync \in Drained \cup {"cancel", "gathering"}
        /\ sync = "cancelSent" => PartialRollout
    BY DEF EndInv
  <2> USE DEF serverVars, syncVars, rollVars, Drained
  <2>2. CASE Processor \/ Tasks \/ FeedSamples \/ Monitor \/ MainCoroutine \/ MonitorTimer
    BY <2>1, <2>2 DEF Processor, ProcCheck, ProcBlock, ProcSetPaused, ProcLoopDone,
       ProcCollectBegin,
       ProcCollect, ProcCollectNothing, ProcIdle, TakeCancelled, TakePending, TakeWait, ProcSubmit,
       Tasks, TaskSubmit, TaskComplete, TaskReturn, FeedSamples, Monitor, MonitorTick, MonitorBlock,
       MonitorUnpause, MonitorLook, MainCoroutine, MainWake, MainBlock, MainStop, MonitorTimer
  <2>3. CASE SyncCalls
    BY <2>1, <2>3 DEF SyncCalls, SyncBlock, SyncEnters, PauseBegin, PauseCancelled, PauseGathered,
       PauseEnd, GatherTasks, UpdateBegin, UpdateCounted, UpdateEnd, ResumeServers, ResumeEnd,
       ResumeEffect
  <2>4. CASE Replies
    BY <2>1, <2>4 DEF Replies, MainSignal, CallArrives, ServersCancel, ServersReset, QueueCounts,
       QueuePublishes, ServersResume
  <2>5. CASE \E s \in Samples : Generation(s) \/ ServerError(s)
    BY <2>1, <2>5 DEF Generation, ServerAdmit, ServerAnswer, ServerError, QueuePut
  <2>6. CASE Trainer
    BY <2>1, <2>6 DEF Trainer, TrainerLog, TrainerGet, TrainerStep, SyncWeights, LastCallOver,
       FinalLog,
              FinalDecide, FinalValidLog
  <2>7. CASE Transfer \/ MainClear \/ UNCHANGED vars
    BY <2>1, <2>7 DEF Transfer, TransferBegin, TransferEnd, MainClear, vars
  <2> QED BY <2>2, <2>3, <2>4, <2>5, <2>6, <2>7 DEF Next, Rollout, RollNext, EventLoop, Terminated
<1>9. cleared' > 0 => trainer' = "done"
  <2>1. cleared > 0 => trainer = "done"
    BY DEF EndInv
  <2> USE DEF mqVars, mqCounters, trainerVars
  <2>2. CASE MainClear
    BY <2>2 DEF MainClear, Finished
  <2>3. CASE TrainerGet \/ TrainerStep
    BY <2>1, <2>3 DEF TrainerGet, TrainerStep, GetSample, Recheck, Take, Wait, ReturnNone
  <2>4. CASE UNCHANGED cleared
    <3>1. trainer = "done" => trainer' = "done"
      <4>1. CASE Rollout \/ MainClear \/ UNCHANGED vars
        BY <4>1 DEF Rollout, MainClear, vars
      <4>2. CASE Trainer
        BY <4>2 DEF Trainer, TrainerLog, TrainerGet, TrainerStep, SyncWeights, FinalLog,
                FinalDecide, FinalValidLog
      <4>3. CASE Transfer
        <5>1. sync \in {"paused", "transfer"} => trainer # "done"
          BY <1>1 DEF VersionsInv, VersionsAtPhase, Pausing, Arriving, Updated
        <5> QED BY <4>3, <5>1 DEF Transfer, TransferBegin, TransferEnd
      <4> QED BY <4>1, <4>2, <4>3 DEF Next, Terminated
    <3> QED BY <2>1, <2>4, <3>1
  <2>5. CASE UNCHANGED trainerVars
             /\ (FeedSamples \/ TakeCancelled \/ TakePending \/ ProcSubmit \/ Tasks \/ MainSignal
                 \/ \E s \in Samples : Generation(s) \/ ServerError(s))
    <3>1. UNCHANGED cleared
      BY <2>5 DEF FeedSamples, TakeCancelled, TakePending, ProcSubmit, Tasks, TaskSubmit,
         TaskComplete,
         TaskReturn, MainSignal, PutSample, Generation, ServerAdmit, ServerAnswer, QueuePut,
         ServerError
    <3> QED BY <2>4, <3>1
  <2>6. CASE UNCHANGED placeVars
    BY <2>4, <2>6 DEF placeVars
  <2> QED BY <1>1, <2>2, <2>3, <2>5, <2>6, MovingSteps
<1> QED BY <1>2, <1>4, <1>5, <1>6, <1>7, <1>8, <1>9 DEF EndInv

(* Samples that are neither waiting to be taken nor with the trainer.      *)
AtWork == Outstanding \cup failed

(* The samples behind Got are those nobody has taken. *)
LEMMA BehindGot ==
  ASSUME SystemInv, FlowInv, NEW s \in Samples
  PROVE  /\ s > Got => /\ s > fed \/ s \in ToSet(pending)
                       /\ s \notin Consumed \cup AtWork /\ task[s] = "none"
         /\ s \in Consumed => s \notin AtWork
         /\ s <= Got => \/ s \in Consumed \cup AtWork
                        \/ s \in dropped \/ cleared > 0
<1>1. /\ SampleInv /\ pending \in Seq(1..DONE) /\ fed \in 0..DONE /\ DONE \in Nat
      /\ Len(pending) \in Nat /\ Got \in 0..DONE /\ s \in Nat
      /\ \A i \in 1..Len(pending) : pending[i] = Got + i
      /\ task \in [Samples -> TaskState] /\ Got = fed - Len(pending)
  BY Constants DEF SystemInv, TypeInv, SampleTypes, FlowInv, Got
<1>2. s > fed \/ s \in ToSet(pending) <=> s > Got
  <2>1. ASSUME s \in ToSet(pending) PROVE s > Got
    <3>1. PICK i \in 1..Len(pending) : pending[i] = s
      BY <1>1, <2>1 DEF ToSet
    <3> QED BY <1>1, <3>1
  <2>2. ASSUME s > Got, ~(s > fed) PROVE s \in ToSet(pending)
    <3>1. s - Got \in 1..Len(pending) /\ Got + (s - Got) = s
      BY <1>1, <2>2
    <3>2. pending[s - Got] = s
      BY <1>1, <3>1
    <3> QED BY <1>1, <3>1, <3>2 DEF ToSet
  <2>3. s > fed => s > Got
    BY <1>1
  <2> QED BY <2>1, <2>2, <2>3
<1>3. PICK p \in Places : LocatedAt(s, p)
  BY <1>1, PlaceOf
<1>4. s > Got <=> p \in {"unfed", "pending"}
  BY <1>2, <1>3 DEF LocatedAt
<1>5. s > Got => s \notin Consumed \cup AtWork /\ task[s] = "none"
  BY <1>1, <1>3, <1>4 DEF LocatedAt, Consumed, AtWork, Outstanding, TaskState, UnderWay
<1>6. s \in Consumed => s \notin AtWork
  BY <1>3 DEF LocatedAt, Consumed, AtWork, Outstanding
<1>7. s <= Got => s \in Consumed \cup AtWork \/ s \in dropped \/ cleared > 0
  <2>1. s <= Got => p \notin {"unfed", "pending"}
    BY <1>1, <1>4
  <2> QED BY <1>3, <2>1 DEF LocatedAt, Consumed, AtWork, Outstanding, Places
<1> QED BY <1>2, <1>5, <1>6, <1>7

(* The trainer has caught up with the rollouter. *)
Caught ==
  /\ Got = trainer_version * Interval /\ Got = Taken /\ Got \in 0..Total
  /\ Consumed = 1..Got
  /\ hand = NoSample /\ cancelled = <<>> /\ queue = <<>> /\ batch = <<>> /\ failed = {}
  /\ \A s \in Samples : task[s] \in {"none", "put"}
  /\ ppc \in {"check", "pause", "drain", "idle", "take"} /\ pmode # "stop"

Survives == ppc = "failed" => failed # {}

(* Sets of samples that are as many as all of them. *)
LEMMA FullInterval ==
  ASSUME NEW n \in Nat, NEW A, A \subseteq 1..n, n <= Cardinality(A)
  PROVE  A = 1..n /\ Cardinality(A) = n
<1>1. IsFiniteSet(1..n) /\ Cardinality(1..n) = n
  BY FS_Interval
<1>2. /\ Cardinality(A) <= Cardinality(1..n) /\ Cardinality(A) \in Nat
      /\ Cardinality(A) = Cardinality(1..n) => A = 1..n
  <2>1. IsFiniteSet(A)
    BY <1>1, FS_Subset
  <2> QED BY <1>1, <2>1, FS_Subset, FS_CardinalityType
<1> QED BY <1>1, <1>2

(* A trainer that has been given as many intervals as the rollouter has    *)
(* taken has everything that was taken.                                    *)
LEMMA CaughtUp ==
  ASSUME SystemInv, FlowInv, EndInv, Survives, trainer \in Looping,
         Got <= trainer_version * Interval
  PROVE  Caught
<1>1. /\ VersionsInv /\ TypeInv /\ SampleInv /\ SampleLines /\ LoopInv
      /\ Got \in 0..DONE /\ Total \in Nat /\ DONE = Total + 1 /\ Samples = 1..Total
      /\ trainer_version \in Nat /\ local_trigger_step \in 1..Trigger /\ Len(batch) \in Nat
      /\ Required \in Nat \ {0} /\ Interval \in Nat \ {0} /\ Trigger \in Nat
      /\ Cardinality(Consumed) = Taken
  <2>1. Cardinality(Consumed) = Taken
    BY DEF FlowInv
  <2>2. VersionsInv /\ TypeInv /\ SampleInv /\ SampleLines /\ LoopInv /\ Got \in 0..DONE
    BY DEF SystemInv, SampleInv, FlowInv
  <2>3. /\ DONE = Total + 1 /\ Samples = 1..Total /\ Total \in Nat
        /\ Required \in Nat \ {0} /\ Interval \in Nat \ {0} /\ Trigger \in Nat
    BY Constants, Intervals
  <2>4. trainer_version \in Nat /\ local_trigger_step \in 1..Trigger /\ batch \in Seq(Samples)
    BY <2>2 DEF VersionsInv, TypeInv, TrainerTypes
  <2> QED BY <2>1, <2>2, <2>3, <2>4
<1>2. Consumed \subseteq Samples
  <2>1. batch \in Seq(Samples) /\ trained \subseteq Samples
    BY <1>1 DEF TypeInv, TrainerTypes
  <2> QED BY <2>1 DEF Consumed, ToSet
<1>3. Consumed \subseteq 1..Got
  <2>1. ASSUME NEW s \in Consumed PROVE s \in 1..Got
    <3>1. s \in Samples /\ ~(s > Got)
      BY <1>2, BehindGot
    <3> QED BY <1>1, <3>1
  <2> QED BY <2>1
<1>4. /\ trainer_version * Interval \in Nat /\ (local_trigger_step - 1) * Required \in Nat
      /\ local_trigger_step # 1 => (local_trigger_step - 1) * Required >= 1
  <2>1. /\ local_trigger_step - 1 \in Nat
        /\ local_trigger_step # 1 => local_trigger_step - 1 \in Nat \ {0}
    BY <1>1
  <2>2. \A k \in Nat \ {0} : k * Required >= 1
    BY <1>1
  <2> QED BY <1>1, <2>1, <2>2
<1>5. Taken \in Nat /\ Taken >= trainer_version * Interval
      /\ (Taken = trainer_version * Interval => local_trigger_step = 1 /\ Len(batch) = 0)
  BY <1>1, <1>4 DEF Taken
<1>6. Consumed = 1..Got /\ Taken = Got /\ Got = trainer_version * Interval
  <2>1. Got <= Cardinality(Consumed) /\ Got \in Nat
    BY <1>1, <1>4, <1>5
  <2>2. Consumed = 1..Got /\ Cardinality(Consumed) = Got
    BY <1>3, <2>1, FullInterval
  <2> QED BY <1>1, <1>4, <1>5, <2>1, <2>2
<1>7. Got \in 0..Total
  <2>1. Got # DONE
    BY <1>1, <1>2, <1>6
  <2> QED BY <1>1, <2>1
<1>8. batch = <<>>
  <2>1. Len(batch) = 0 /\ batch \in Seq(Samples)
    BY <1>1, <1>5, <1>6 DEF TypeInv, TrainerTypes
  <2> QED BY <2>1
<1>9. ASSUME NEW s \in Samples
      PROVE  s \notin AtWork /\ task[s] \in {"none", "put"}
  <2>1. task[s] = "error" => s \in AtWork
    BY <1>1, PlaceOf DEF LocatedAt, AtWork
  <2>2. task[s] \in UnderWay => s \in AtWork
    BY DEF AtWork, Outstanding
  <2>3. task[s] \in TaskState
    BY <1>1 DEF TypeInv, SampleTypes
  <2>4. CASE s > Got
    BY <2>4, BehindGot
  <2>5. CASE ~(s > Got)
    <3>1. s \in Consumed
      BY <1>1, <1>6, <2>5
    <3> QED BY <2>1, <2>2, <2>3, <3>1, BehindGot DEF TaskState, UnderWay
  <2> QED BY <2>4, <2>5
<1>10. /\ failed = {} /\ hand \notin Samples
       /\ \A s \in Samples : s \notin ToSet(cancelled) \cup ToSet(queue)
  BY <1>1, <1>9 DEF AtWork, Outstanding, TypeInv, SampleTypes
<1>11. ppc \in {"check", "pause", "drain", "idle", "take"} /\ pmode # "stop" /\ hand = NoSample
  <2>1. ppc \notin {"limit", "submit"}
    BY <1>1, <1>10 DEF TypeInv, InHand
  <2>2. ppc \notin {"final", "exited", "failed"}
    BY <1>1, <1>7, <1>10 DEF EndInv, Survives
  <2>3. ppc \in {"check", "pause", "drain", "idle", "take"}
    BY <1>1, <2>1, <2>2 DEF TypeInv, ControlTypes, LoopHead
  <2> QED BY <1>1, <2>3 DEF TypeInv, InHand, EndInv
<1>12. cancelled = <<>>
  <2>1. cancelled \in Seq(Samples)
    BY <1>1 DEF TypeInv, SampleTypes
  <2>2. cancelled # <<>> => Head(cancelled) \in Samples /\ Head(cancelled) \in ToSet(cancelled)
    BY <1>1, ShorterLine DEF SampleLines
  <2> QED BY <1>10, <2>2
<1>13. queue = <<>>
  <2>1. main = "streaming"
    BY <1>1, <1>11 DEF LoopInv, Resting
  <2>2. queue # <<>> => Head(queue) \in Payload /\ Head(queue) \in ToSet(queue)
    BY <1>1, ShorterLine DEF SampleLines
  <2> QED BY <1>1, <1>10, <2>1, <2>2, Constants DEF SampleLines
<1> QED BY <1>6, <1>7, <1>8, <1>9, <1>10, <1>11, <1>12, <1>13 DEF Caught

-----------------------------------------------------------------------------
(* Synchronous mode, in which MaxRequired is the number of samples of an   *)
(* interval.  staleness_samples counts the samples taken since the version *)
(* Base, the last one update_param_version is done with.                   *)
Uncounted == {"pauseSent", "pause", "pauseLock", "cancelSent", "cancel", "gathering",
              "resetSent", "reset", "paused", "transfer", "updateSent", "update",
              "updateLock", "countSent", "count"}
Resuming == {"publishSent", "publish", "resumeSent", "resume", "resumeLock", "restartSent",
             "restart"}
Still == (Uncounted \ {"pauseSent", "pause", "pauseLock"}) \cup Resuming
Gathered == {"resetSent", "reset", "paused", "transfer", "updateSent", "update", "updateLock"}
Silenced == {"paused", "transfer", "updateSent", "update", "updateLock", "countSent", "count"}
              \cup Resuming

Base == IF sync \in Uncounted THEN sync_version - 1 ELSE sync_version

(* As many samples are taken as an interval has. *)
PaceInv ==
  trainer \in Looping =>
    /\ staleness_samples = Got - Base * Interval
    /\ staleness_samples <= Interval
    /\ ppc = "take" => staleness_samples < Interval

(* A recovery decided before the last sample of an interval was taken      *)
(* comes before the processor can submit that sample.                      *)
MonitorFirst ==
  trainer \in Looping /\ monitor = "unpause" /\ staleness_samples = Interval =>
    /\ hand # NoSample /\ owner # Proc
    /\ \A i, j \in 1..Len(waiters) : waiters[i] = Proc /\ waiters[j] = Mon => j < i

(* From the pause to the end of the resume nothing moves but the protocol. *)
Quiet == {"check", "pause", "drain", "idle"}
StillInv ==
  trainer \in Looping =>
    /\ sync \in Still => paused
    /\ sync \in Gathered => ActiveTasks = 0
    /\ sync \in {"countSent", "count"} => recount = 0
    /\ sync \in Silenced => ~monitor_loop_trigger
    /\ sync \in Resuming => staleness_samples = 0 /\ monitor # "unpause" /\ ppc \in Quiet

(* Before the first asyncio.wait is over nobody has suspended in a section *)
(* but the processor in that wait; the tasks it just created did not run.  *)
FirstWait ==
  ~done_bound /\ pmode \notin {"wait", "stop"} =>
    /\ pmode \in {"run", "get"} /\ LockFree /\ sync = "idle"
    /\ ppc \in {"check", "take", "limit", "submit", "pause", "drain", "final"}
    /\ ppc # "drain" => ~paused
    /\ ppc \in {"pause", "drain"} => Got > 0
    /\ ppc \in {"check", "pause", "drain"} /\ Got > 0 =>
         pmode = "run" /\ Running(Proc) /\ \E s \in Samples : task[s] = "created"

(* There is room for what is at work, and for the None sample. *)
RoomInv ==
  /\ Cardinality(AtWork) <= Interval
  /\ ppc \in {"final", "exited"} => Cardinality(AtWork) < Interval
  /\ dropped = {}

(* No generation is cut. *)
Uncut ==
  trainer \in Looping \/ failed = {} => cancelled = <<>> /\ \A s \in Samples : task[s] # "cut"

(* A sample is made by the weights of the last synchronisation alone.      *)
FreshInv ==
  trainer \in Looping =>
    \A s \in Samples :
      /\ s > Got \/ s = hand \/ task[s] \in {"created", "requested"} => made_by[s] = {}
      /\ task[s] \in {"generating", "complete"} \/ Stamped(s) => made_by[s] = {weights}
      /\ Stamped(s) => stamp[s] = weights

(* The puts are those of the samples put since the last synchronisation.   *)
Queued == {s \in Samples : s \in ToSet(queue)}
PutInv ==
  trainer \in Looping =>
    put_since_update = Cardinality(Consumed \cup Queued) - weights * Interval

SyncInv ==
  /\ PaceInv /\ MonitorFirst /\ StillInv /\ FirstWait /\ RoomInv /\ Uncut /\ FreshInv
  /\ PutInv /\ Survives

BaseInv == SystemInv /\ FlowInv /\ EndInv

(* While a synchronisation is under way, and when one is due, the trainer  *)
(* has caught up, and neither the processor nor the monitor can go on.     *)
Emptied ==
  /\ Caught /\ monitor # "unpause" /\ ~Recovers /\ ppc \in Quiet
  /\ sync \notin Resuming => staleness_samples = Interval /\ Got = (Base + 1) * Interval

(* So a synchronisation finds the system empty.  Every step below leans on *)
(* it: what a pause, a transfer or a resume could disturb is not there.    *)
LEMMA EmptiedInSync ==
  ASSUME MaxRequired = Interval, BaseInv, SyncInv, trainer \in Looping,
         sync \in Uncounted \cup Resuming \/ trainer = "waitValid"
  PROVE  Emptied
<1>1. /\ SystemInv /\ FlowInv /\ EndInv /\ VersionsInv /\ TypeInv /\ Survives
      /\ PaceInv /\ MonitorFirst /\ StillInv
  BY DEF BaseInv, SystemInv, SyncInv
<1>2. /\ sync_version \in Nat /\ trainer_version \in Nat /\ Base \in Int /\ Interval \in Nat \ {0}
      /\ Got \in Nat /\ staleness_samples \in Nat
  <2>1. Got \in 0..DONE /\ DONE \in Nat
    BY <1>1, Constants DEF FlowInv
  <2> QED BY <1>1, <2>1, Intervals DEF VersionsInv, TypeInv, ControlTypes, Base
<1>3. /\ staleness_samples = Got - Base * Interval /\ staleness_samples <= Interval
      /\ Base * Interval \in Int /\ (Base + 1) * Interval = Base * Interval + Interval
      /\ trainer_version * Interval \in Int
  BY <1>1, <1>2, Intervals DEF PaceInv
<1>4. Uncounted \cap Resuming = {}
  BY DEF Uncounted, Resuming
<1>5. CASE sync \in Resuming
  <2>1. staleness_samples = 0 /\ monitor # "unpause" /\ ppc \in Quiet /\ ~monitor_loop_trigger
    BY <1>1, <1>5 DEF StillInv, Silenced
  <2>2. Base <= trainer_version
    BY <1>1, <1>2, <1>4, <1>5 DEF Base, VersionsInv, TrainerAhead
  <2>3. Base * Interval <= trainer_version * Interval
    BY <1>2, <2>2, Monotone
  <2>4. Got <= trainer_version * Interval
    BY <1>2, <1>3, <2>1, <2>3
  <2>5. Caught
    BY <1>1, <2>4, CaughtUp
  <2> QED BY <1>5, <2>1, <2>5 DEF Emptied, Recovers
<1>6. CASE sync \notin Resuming
  <2>1. Base + 1 <= trainer_version /\ Base + 1 \in Int
    BY <1>1, <1>2, <1>6 DEF Base, VersionsInv, TrainerAhead
  <2>2. (Base + 1) * Interval <= trainer_version * Interval
    BY <1>2, <2>1, Monotone
  <2>3. Got <= trainer_version * Interval
    BY <1>2, <1>3, <2>2
  <2>4. Caught
    BY <1>1, <2>3, CaughtUp
  <2>5. staleness_samples = Interval /\ Got = (Base + 1) * Interval
    BY <1>2, <1>3, <2>2, <2>4 DEF Caught
  <2>6. hand = NoSample /\ ppc \in {"check", "pause", "drain", "idle", "take"}
    BY <2>4 DEF Caught
  <2>7. monitor # "unpause"
    BY <1>1, <2>5, <2>6 DEF MonitorFirst
  <2>8. ppc \in Quiet
    BY <1>1, <1>2, <2>5, <2>6 DEF PaceInv, Quiet
  <2>9. ~Recovers
    BY <1>2, <2>5 DEF Recovers, ShouldPause
  <2> QED BY <2>4, <2>5, <2>7, <2>8, <2>9 DEF Emptied
<1> QED BY <1>5, <1>6

(* How a synchronisation goes on, and what clears paused. *)
LEMMA SyncWay ==
  ASSUME TypeInv, [Next]_vars
  PROVE  /\ sync' \in Still => sync \in Still \/ paused'
         /\ sync' \in Gathered => \/ sync \in Gathered \/ PauseGathered
                                  \/ ActiveTasks = 0 /\ UNCHANGED <<active, finished>>
         /\ sync' \in {"countSent", "count"} => \/ UpdateBegin \/ QueueCounts
                                                \/ sync' = sync /\ recount' = recount
         /\ sync' \in Silenced => sync \in Silenced \/ PauseEnd
         /\ sync' \in Resuming => sync \in Resuming \/ UpdateCounted
         /\ sync' # "idle" => \/ sync # "idle"
                             \/ /\ sync' = "pauseSent"
                                /\ trainer \in {"waitValid", "finalTrigger"}
         /\ \/ paused' = paused \/ paused'
            \/ (MonitorTick /\ Recovers) \/ MonitorUnpause \/ sync' = "idle"
         /\ monitor_loop_trigger' = monitor_loop_trigger \/ ~monitor_loop_trigger' \/ sync' = "idle"
         /\ monitor' = "unpause" => monitor = "unpause" \/ (MonitorBlock /\ Recovers)
<1> USE DEF flagVars, syncVars, rollVars, Still, Gathered, Silenced, Resuming, Uncounted
<1>1. CASE Processor
  BY <1>1 DEF Processor, ProcCheck, ProcBlock, ProcSetPaused, ProcLoopDone, ProcCollectBegin,
     ProcCollect, ProcCollectNothing, ProcIdle, TakeCancelled, TakePending, TakeWait, ProcSubmit
<1>2. CASE Tasks \/ FeedSamples
  BY <1>2 DEF Tasks, TaskSubmit, TaskComplete, TaskReturn, FeedSamples
<1>3. CASE Monitor
  BY <1>3 DEF Monitor, MonitorTick, MonitorBlock, MonitorUnpause, MonitorLook, MonitorTop
<1>4. CASE MainCoroutine \/ MonitorTimer
  BY <1>4 DEF MainCoroutine, MainWake, MainBlock, MainStop, MonitorTimer
<1>5. CASE SyncCalls
  BY <1>5, CountedTasks DEF SyncCalls, SyncBlock, SyncEnters, PauseBegin, PauseCancelled,
     PauseGathered, PauseEnd, GatherTasks, UpdateBegin, UpdateCounted, UpdateEnd, ResumeServers,
     ResumeEnd,
     ResumeEffect, taskVars
<1>6. CASE Replies
  BY <1>6 DEF Replies, MainSignal, CallArrives, ServersCancel, ServersReset, QueueCounts,
     QueuePublishes, ServersResume
<1>7. CASE \E s \in Samples : Generation(s) \/ ServerError(s)
  BY <1>7 DEF Generation, ServerAdmit, ServerAnswer, ServerError, QueuePut
<1>8. CASE Trainer
  BY <1>8 DEF Trainer, TrainerLog, TrainerGet, TrainerStep, SyncWeights, FinalLog,
              FinalDecide, FinalValidLog
<1>9. CASE Transfer \/ MainClear \/ UNCHANGED vars
  BY <1>9 DEF Transfer, TransferBegin, TransferEnd, MainClear, vars
<1> QED BY <1>1, <1>2, <1>3, <1>4, <1>5, <1>6, <1>7, <1>8, <1>9
   DEF Next, Rollout, RollNext, EventLoop, Terminated

(* The version whose samples are counted. *)
LEMMA BaseSteps ==
  ASSUME SystemInv, [Next]_vars
  PROVE  UpdateCounted \/ Base' = Base
<1>1. /\ sync_version \in Nat
      /\ trainer \in {"waitValid", "finalTrigger"} => trainer_version = sync_version + 1
  BY DEF SystemInv, VersionsInv, TrainerAhead
<1> USE DEF syncVars, rollVars, Uncounted, Base
<1>2. CASE Rollout /\ ~SyncCalls /\ ~(Replies /\ ~MainSignal)
  BY <1>2, QuietSteps, ProcessorSteps, MonitorSteps DEF Rollout, RollNext, EventLoop
<1>3. CASE Replies /\ ~MainSignal
  BY <1>3 DEF Replies, CallArrives, ServersCancel, ServersReset, QueueCounts,
     QueuePublishes, ServersResume
<1>4. CASE SyncCalls
  BY <1>4 DEF SyncCalls, SyncBlock, SyncEnters, PauseBegin, PauseCancelled, PauseGathered,
     PauseEnd, GatherTasks, UpdateBegin, UpdateEnd, ResumeServers, ResumeEnd, ResumeEffect
<1>5. CASE Trainer
  BY <1>1, <1>5 DEF Trainer, TrainerLog, TrainerGet, TrainerStep, SyncWeights, LastCallOver,
     FinalLog,
              FinalDecide, FinalValidLog
<1>6. CASE Transfer \/ MainClear \/ UNCHANGED vars
  BY <1>6 DEF Transfer, TransferBegin, TransferEnd, MainClear, vars
<1> QED BY <1>2, <1>3, <1>4, <1>5, <1>6 DEF Next, Terminated

(* What the invariants say, one by one. *)
LEMMA BaseParts ==
  ASSUME BaseInv
  PROVE  /\ SystemInv /\ FlowInv /\ EndInv
         /\ VersionsInv /\ TypeInv /\ LoopInv /\ SampleInv /\ BatchAt
         /\ Got \in Nat /\ Base \in Int /\ Interval \in Nat \ {0} /\ staleness_samples \in Nat
         /\ Base * Interval \in Int /\ (Base + 1) * Interval = Base * Interval + Interval
         /\ pmode # "stop" => trainer \in Looping
<1>1. /\ SystemInv /\ FlowInv /\ EndInv /\ VersionsInv /\ TypeInv /\ LoopInv /\ SampleInv /\ BatchAt
  BY DEF BaseInv, SystemInv, FlowInv
<1>2. Got \in 0..DONE /\ DONE \in Nat
  BY <1>1, Constants DEF FlowInv
<1>3. sync_version \in Nat /\ staleness_samples \in Nat
  BY <1>1 DEF VersionsInv, TypeInv, ControlTypes
<1>4. Base \in Int
  BY <1>3 DEF Base
<1>5. pmode # "stop" => trainer \in Looping
  BY <1>1 DEF EndInv
<1> QED BY <1>1, <1>2, <1>3, <1>4, <1>5, Intervals

(* The trainer does not come back into the loop of fit(). *)
LEMMA LoopingBefore ==
  ASSUME BaseInv, [Next]_vars, trainer' \in Looping
  PROVE  trainer \in Looping
  BY BaseParts, TakenSteps

(* Before the first wait no section of the processor finds nothing to collect. *)
LEMMA SurvivesStep ==
  ASSUME BaseInv, SyncInv, [Next]_vars
  PROVE  Survives'
<1>1. /\ TypeInv /\ LoopInv /\ Survives /\ FirstWait /\ EndInv
      /\ MaxConcurrent \in Nat \ {0} /\ ActiveTasks \in Nat
  BY BaseParts, CountedTasks, Constants DEF SyncInv
<1>2. failed # {} => failed' # {}
  BY BaseParts, FailedGrow
<1>3. ~(ProcCollectNothing /\ ~done_bound)
  <2> SUFFICES ASSUME ProcCollectNothing, ~done_bound PROVE FALSE
    OBVIOUS
  <2>1. /\ ActiveTasks = 0 /\ ppc \in {"drain", "limit", "final"} /\ pmode \notin {"wait", "stop"}
        /\ \/ pmode = "lock"
           \/ pmode = "woken"
           \/ pmode = "run" /\ (ppc \in {"pause", "idle", "submit"} \/ MustCollect)
    BY DEF ProcCollectNothing, ProcHasLock, WantsLock
  <2>2. MustCollect
    BY <1>1, <2>1 DEF FirstWait
  <2> QED BY <1>1, <2>1, <2>2 DEF MustCollect
<1>4. CASE Processor
  BY <1>1, <1>2, <1>3, <1>4, ProcessorWay DEF Survives, EndInv
<1>5. CASE ~Processor
  BY <1>1, <1>2, <1>5, OnlyProcessorMoves DEF Survives
<1> QED BY <1>4, <1>5

(* A sample taken is counted; what an update counts is nothing.            *)
LEMMA PaceInvStep ==
  ASSUME MaxRequired = Interval, BaseInv, SyncInv, [Next]_vars
  PROVE  PaceInv'
<1> SUFFICES ASSUME trainer' \in Looping
             PROVE  /\ staleness_samples' = Got' - Base' * Interval
                    /\ staleness_samples' <= Interval
                    /\ ppc' = "take" => staleness_samples' < Interval
  BY DEF PaceInv
<1>1. /\ SystemInv /\ TypeInv /\ SampleInv /\ FlowInv
      /\ Got \in Nat /\ Base \in Int /\ Interval \in Nat \ {0} /\ staleness_samples \in Nat
      /\ Base * Interval \in Int
  BY BaseParts
<1>2. /\ staleness_samples = Got - Base * Interval /\ staleness_samples <= Interval
      /\ ppc = "take" => staleness_samples < Interval
      /\ trainer \in Looping
  BY LoopingBefore DEF PaceInv, SyncInv
<1>3. CASE UpdateCounted
  <2>1. sync = "count" /\ sync' = "publishSent" /\ staleness_samples' = recount /\ ~TakePending
        /\ sync_version' = sync_version
    BY <1>1, <1>3, Names DEF UpdateCounted, TakePending, Running
  <2>2. Emptied
    BY <1>2, <2>1, EmptiedInSync DEF Uncounted
  <2>3. Got = (Base + 1) * Interval /\ recount = 0
    BY <1>2, <2>1, <2>2 DEF Emptied, Resuming, SyncInv, StillInv
  <2>4. Base' = Base + 1 /\ Got' = Got
    <3>1. sync_version \in Nat
      BY <1>1 DEF SystemInv, VersionsInv
    <3>2. Got' = Got
      BY <1>1, <2>1, FedInOrder
    <3> QED BY <2>1, <3>1, <3>2 DEF Base, Uncounted
  <2> QED BY <1>1, <2>1, <2>3, <2>4, Intervals
<1>4. CASE ~UpdateCounted /\ TakePending
  <2>1. Base' = Base /\ Got' = Got + 1 /\ staleness_samples' = staleness_samples + 1
        /\ ppc = "take" /\ ppc' # "take"
    BY <1>1, <1>4, BaseSteps, FedInOrder, CountingSteps
  <2> QED BY <1>1, <1>2, <2>1
<1>5. CASE ~UpdateCounted /\ ~TakePending
  <2>1. Base' = Base /\ Got' = Got /\ staleness_samples' = staleness_samples
    BY <1>1, <1>5, BaseSteps, FedInOrder, CountingSteps
  <2>2. ppc' = "take" => ppc = "take" \/ staleness_samples < Interval
    BY <1>1, CountingSteps
  <2> QED BY <1>1, <1>2, <2>1, <2>2
<1> QED BY <1>3, <1>4, <1>5

(* A task that is done is one of active_tasks.                             *)
LEMMA DoneIsActive ==
  ASSUME TypeInv, LoopInv, NEW s \in Samples, TaskReturn(s)
  PROVE  s \in active /\ ActiveTasks > 0
<1>1. task[s] # "none"
  BY DEF TaskReturn
<1>2. s \in active
  BY <1>1 DEF LoopInv, Resting
<1>3. /\ IsFiniteSet(active) /\ Cardinality(active) \in Nat
      /\ finished.ok \in Nat /\ finished.bad \in Nat
  BY CountedTasks
<1>4. Cardinality(active) # 0
  BY <1>2, <1>3, FS_EmptySet
<1> QED BY <1>2, <1>3, <1>4 DEF ActiveTasks

(* Without a task, and without one to create, there will be none. *)
LEMMA NoTaskLeft ==
  ASSUME TypeInv, LoopInv, ActiveTasks = 0, ppc \in Quiet, [Next]_vars
  PROVE  ActiveTasks' = 0
<1>1. /\ IsFiniteSet(active) /\ Cardinality(active) \in Nat
      /\ finished.ok \in Nat /\ finished.bad \in Nat
  BY CountedTasks
<1>2. active = {} /\ finished.ok = 0 /\ finished.bad = 0 /\ Cardinality({}) = 0
  BY <1>1, FS_EmptySet DEF ActiveTasks
<1>3. CASE UNCHANGED <<active, finished>>
  BY <1>3 DEF ActiveTasks
<1>4. CASE ProcCollect \/ PauseGathered
  <2>1. active' = {} /\ finished' = [ok |-> 0, bad |-> 0]
    BY <1>2, <1>4 DEF ProcCollect, PauseGathered
  <2> QED BY <1>2, <2>1 DEF ActiveTasks
<1>5. ~ProcSubmit
  BY DEF ProcSubmit, Quiet
<1>6. ASSUME NEW s \in Samples PROVE ~TaskReturn(s)
  BY <1>2, DoneIsActive
<1> QED BY <1>3, <1>4, <1>5, <1>6, TaskCountSteps

(* Where the processor goes from where it waits for a resume. *)
LEMMA QuietWay ==
  ASSUME TypeInv, Processor, ppc \in Quiet
  PROVE  ppc' \in Quiet \/ ppc' = "failed" \/ (ppc' = "take" /\ ~paused)
<1> USE DEF Quiet, GoOn, Suspend, Stop
<1>1. pmode = "get" => ppc = "take"
  BY DEF TypeInv, InHand
<1>2. CASE ProcCheck \/ ProcBlock \/ ProcSetPaused \/ ProcCollectBegin \/ ProcLoopDone
  BY <1>2 DEF ProcCheck, ProcBlock, ProcSetPaused, ProcCollectBegin, ProcLoopDone
<1>3. CASE ProcCollect \/ ProcCollectNothing \/ ProcIdle
  BY <1>3 DEF ProcCollect, ProcCollectNothing, ProcIdle
<1>4. CASE TakeCancelled \/ TakePending \/ TakeWait \/ ProcSubmit
  BY <1>1, <1>4 DEF TakeCancelled, TakePending, TakeWait, ProcSubmit
<1> QED BY <1>2, <1>3, <1>4 DEF Processor

(* Nothing else clears paused, starts a task or counts before the resume.  *)
LEMMA StillInvStep ==
  ASSUME MaxRequired = Interval, BaseInv, SyncInv, [Next]_vars
  PROVE  StillInv'
<1> SUFFICES ASSUME trainer' \in Looping
             PROVE  /\ sync' \in Still => paused'
                    /\ sync' \in Gathered => ActiveTasks' = 0
                    /\ sync' \in {"countSent", "count"} => recount' = 0
                    /\ sync' \in Silenced => ~monitor_loop_trigger'
                    /\ sync' \in Resuming => /\ staleness_samples' = 0 /\ monitor' # "unpause"
                                             /\ ppc' \in Quiet
  BY DEF StillInv
<1>1. /\ SystemInv /\ TypeInv /\ LoopInv /\ trainer \in Looping
      /\ sync \in Uncounted \cup Resuming => Emptied
  BY BaseParts, LoopingBefore, EmptiedInSync
<1>2. /\ sync \in Still => paused
      /\ sync \in Gathered => ActiveTasks = 0
      /\ sync \in {"countSent", "count"} => recount = 0
      /\ sync \in Silenced => ~monitor_loop_trigger
      /\ sync \in Resuming => staleness_samples = 0 /\ monitor # "unpause" /\ ppc \in Quiet
  BY <1>1 DEF StillInv, SyncInv
<1>3. /\ Still \subseteq Uncounted \cup Resuming /\ "idle" \notin Still
      /\ Gathered \subseteq Uncounted /\ {"countSent", "count"} \subseteq Uncounted
      /\ Silenced \subseteq Uncounted \cup Resuming /\ "idle" \notin Silenced
      /\ Resuming \subseteq Still
  BY DEF Still, Gathered, Silenced, Uncounted, Resuming
<1>4. /\ Emptied => monitor # "unpause" /\ ~Recovers /\ ppc \in Quiet
      /\ Emptied => cancelled = <<>> /\ queue = <<>> /\ failed = {}
  BY DEF Emptied, Caught
<1>5. sync' \in Still => paused'
  <2>1. CASE sync \in Still
    <3>1. paused /\ monitor # "unpause" /\ ~Recovers
      BY <1>1, <1>2, <1>3, <1>4, <2>1
    <3> QED BY <1>1, <1>3, <3>1, SyncWay DEF MonitorUnpause
  <2> QED BY <1>1, <2>1, SyncWay
<1>6. sync' \in Gathered => ActiveTasks' = 0
  <2>1. CASE sync \in Gathered
    BY <1>1, <1>2, <1>3, <1>4, <2>1, NoTaskLeft
  <2>2. CASE PauseGathered
    <3>1. active' = {} /\ finished' = [ok |-> 0, bad |-> 0] /\ Cardinality({}) = 0
      BY <2>2, FS_EmptySet DEF PauseGathered
    <3> QED BY <3>1 DEF ActiveTasks
  <2>3. CASE ActiveTasks = 0 /\ UNCHANGED <<active, finished>>
    BY <2>3 DEF ActiveTasks
  <2> QED BY <1>1, <2>1, <2>2, <2>3, SyncWay
<1>7. sync' \in {"countSent", "count"} => recount' = 0
  <2>1. CASE UpdateBegin
    <3>1. recount' = Recount /\ sync \in {"update", "updateLock"}
      BY <2>1 DEF UpdateBegin, SyncEnters
    <3>2. ActiveTasks = 0 /\ cancelled = <<>>
      BY <1>1, <1>2, <1>3, <1>4, <3>1 DEF Gathered
    <3> QED BY <3>1, <3>2 DEF Recount
  <2>2. CASE QueueCounts
    <3>1. recount' = recount + Len(queue) /\ sync = "countSent"
      BY <2>2 DEF QueueCounts
    <3> QED BY <1>1, <1>2, <1>3, <1>4, <3>1
  <2> QED BY <1>1, <1>2, <2>1, <2>2, SyncWay
<1>8. sync' \in Silenced => ~monitor_loop_trigger'
  BY <1>1, <1>2, <1>3, SyncWay DEF PauseEnd
<1>9. ASSUME sync' \in Resuming
      PROVE  staleness_samples' = 0 /\ monitor' # "unpause" /\ ppc' \in Quiet
  <2>1. /\ monitor # "unpause" /\ ~Recovers /\ ppc \in Quiet /\ Emptied
        /\ \/ UpdateCounted /\ sync = "count"
           \/ sync \in Resuming /\ ~UpdateCounted
    <3>1. \/ UpdateCounted /\ sync = "count"
          \/ sync \in Resuming /\ ~UpdateCounted
      BY <1>1, <1>9, SyncWay DEF UpdateCounted, Resuming
    <3> QED BY <1>1, <1>3, <1>4, <3>1
  <2>2. monitor' # "unpause"
    BY <1>1, <2>1, SyncWay
  <2>3. staleness_samples' = 0
    <3>1. CASE UpdateCounted /\ sync = "count"
      BY <1>2, <3>1 DEF UpdateCounted
    <3>2. CASE sync \in Resuming /\ ~UpdateCounted
      <4>1. ~TakePending
        BY <1>1, <2>1, CountingSteps DEF Quiet
      <4> QED BY <1>1, <1>2, <3>2, <4>1, CountingSteps
    <3> QED BY <2>1, <3>1, <3>2
  <2>4. ppc' \in Quiet
    <3>1. CASE ppc' = ppc
      BY <2>1, <3>1
    <3>2. CASE Processor
      <4>1. ~UpdateCounted /\ sync \in Resuming /\ paused
        <5>1. Running(Proc)
          BY <1>1, <3>2, ProcessorWay
        <5>2. ~UpdateCounted
          BY <5>1, Names DEF UpdateCounted, Running
        <5> QED BY <1>2, <1>3, <2>1, <5>2
      <4>2. ppc' # "failed"
        <5>1. failed' = failed
          <6>1. \A s \in Samples : ~ServerError(s)
            BY <2>1 DEF ServerError, Emptied, Caught
          <6> QED BY <1>1, <6>1, FailedGrow
        <5>2. Survives'
          BY SurvivesStep
        <5> QED BY <1>4, <2>1, <5>1, <5>2 DEF Survives
      <4> QED BY <1>1, <2>1, <3>2, <4>1, <4>2, QuietWay
    <3> QED BY <3>1, <3>2, OnlyProcessorMoves
  <2> QED BY <2>2, <2>3, <2>4
<1> QED BY <1>5, <1>6, <1>7, <1>8, <1>9

(* How the lock moves when it is not the processor that moves it. *)
LEMMA LockWay ==
  ASSUME [Next]_vars, ~Processor \/ (~ProcHasLock /\ pmode # "wait")
  PROVE  \/ UNCHANGED <<owner, waiters>>
         \/ MonitorUnpause
         \/ \E c \in Lockers : Enqueue(c) /\ (c = Mon => MonitorBlock)
         \/ Release /\ \/ MonitorLook
                       \/ Running(Main) /\ (LockFree \/ main = "locking")
                       \/ Running(Sync) /\ (LockFree \/ sync \in Inside \cup {"resumeLock"})
         \/ Hold(Sync) /\ Running(Sync)
            /\ (LockFree \/ sync \in {"pauseLock", "updateLock", "resumeLock"})
<1> USE DEF loopVars, rollVars
<1>1. CASE ProcBlock
  BY <1>1, Names DEF ProcBlock, Lockers
<1>2. CASE Processor /\ ~ProcBlock
  <2> ~ProcHasLock /\ pmode # "wait"
    BY <1>2
  <2>1. CASE ProcSetPaused \/ ProcCollectBegin \/ ProcCollect \/ ProcCollectNothing \/ ProcIdle
             \/ ProcSubmit
    BY <2>1 DEF ProcSetPaused, ProcCollectBegin, ProcCollect, ProcCollectNothing, ProcIdle,
       ProcSubmit
  <2>2. CASE ProcCheck \/ ProcLoopDone \/ TakeCancelled \/ TakePending \/ TakeWait
    BY <2>2 DEF ProcCheck, ProcLoopDone, TakeCancelled, TakePending, TakeWait
  <2> QED BY <1>2, <2>1, <2>2 DEF Processor
<1>3. CASE Tasks \/ FeedSamples
  BY <1>3 DEF Tasks, TaskSubmit, TaskComplete, TaskReturn, FeedSamples
<1>4. CASE MonitorBlock
  BY <1>4 DEF MonitorBlock, Lockers
<1>5. CASE MonitorTick \/ MonitorLook \/ MonitorUnpause \/ MonitorTimer
  BY <1>5 DEF MonitorTick, MonitorLook, MonitorTimer
<1>6. CASE MainBlock
  BY <1>6, Names DEF MainBlock, Lockers
<1>7. CASE MainWake \/ MainStop
  BY <1>7 DEF MainWake, MainStop
<1>8. CASE SyncBlock
  BY <1>8, Names DEF SyncBlock, Lockers
<1>9. CASE PauseBegin \/ UpdateBegin \/ ResumeServers
  BY <1>9 DEF PauseBegin, UpdateBegin, ResumeServers, SyncEnters
<1>10. CASE PauseEnd \/ UpdateEnd \/ ResumeEnd
  BY <1>10 DEF PauseEnd, UpdateEnd, ResumeEnd, ResumeEffect, SyncEnters, Inside
<1>11. CASE PauseCancelled \/ PauseGathered \/ UpdateCounted
  BY <1>11 DEF PauseCancelled, PauseGathered, UpdateCounted
<1>12. CASE Replies
  BY <1>12 DEF Replies, MainSignal, CallArrives, ServersCancel, ServersReset, QueueCounts,
     QueuePublishes, ServersResume
<1>13. CASE \E s \in Samples : Generation(s) \/ ServerError(s)
  BY <1>13 DEF Generation, ServerAdmit, ServerAnswer, ServerError, QueuePut
<1>14. CASE Trainer
  BY <1>14 DEF Trainer, TrainerLog, TrainerGet, TrainerStep, SyncWeights, FinalLog,
              FinalDecide, FinalValidLog
<1>15. CASE Transfer \/ MainClear \/ UNCHANGED vars
  BY <1>15 DEF Transfer, TransferBegin, TransferEnd, MainClear, vars
<1> QED BY <1>1, <1>2, <1>3, <1>4, <1>5, <1>6, <1>7, <1>8, <1>9, <1>10, <1>11, <1>12, <1>13,
   <1>14, <1>15
   DEF Next, Rollout, RollNext, EventLoop, Terminated, Monitor, MainCoroutine, SyncCalls

(* A recovery stays ahead of the submission of the last sample.            *)
LEMMA MonitorFirstStep ==
  ASSUME MaxRequired = Interval, BaseInv, SyncInv, [Next]_vars
  PROVE  MonitorFirst'
<1> SUFFICES ASSUME trainer' \in Looping, monitor' = "unpause", staleness_samples' = Interval
             PROVE  /\ hand' # NoSample /\ owner' # Proc
                    /\ \A i, j \in 1..Len(waiters') :
                         waiters'[i] = Proc /\ waiters'[j] = Mon => j < i
  BY DEF MonitorFirst
<1>1. /\ TypeInv /\ LoopInv /\ SampleInv /\ FlowInv /\ trainer \in Looping
      /\ Interval \in Nat \ {0} /\ staleness_samples \in Nat /\ Got \in Nat
  BY BaseParts, LoopingBefore
<1>2. /\ MonitorFirst /\ StillInv /\ Uncut
  BY DEF SyncInv
<1>3. monitor = "unpause"
  <2>1. ~(MonitorBlock /\ Recovers)
    BY <1>1 DEF MonitorBlock, Recovers, ShouldPause, flagVars
  <2> QED BY <1>1, <2>1, SyncWay
<1>4. ~UpdateCounted
  <2>1. UpdateCounted => staleness_samples' = 0
    BY <1>1, <1>2 DEF UpdateCounted, StillInv
  <2> QED BY <1>1, <2>1
<1>5. /\ Line(waiters, Coroutines) /\ ToSet(waiters) = Queuing \ {owner} /\ Mon \in Queuing
      /\ owner = Nobody \/ owner \in Holding \/ owner \in Queuing \cap ToSet(ready)
      /\ LockFree => waiters = <<>>
  BY <1>1, <1>3, LockersIn DEF LoopInv, LockInv
<1>6. ~LockFree
  <2>1. ToSet(<<>>) = {} /\ Mon # Nobody
    BY EmptyLine, Names
  <2> QED BY <1>5, <2>1 DEF LockFree
<1>7. CASE TakePending
  <2>1. hand' # NoSample
    BY <1>1, <1>7, FedInOrder DEF NoSample
  <2>2. pmode \in {"run", "get"} /\ UNCHANGED <<owner, waiters>>
    BY <1>7 DEF TakePending
  <2>3. Proc \notin Queuing \cup Holding
    BY <2>2, LockersIn
  <2>4. owner # Proc /\ Proc \notin ToSet(waiters)
    BY <1>5, <2>3, Names
  <2> QED BY <2>1, <2>2, <2>4 DEF ToSet
<1>8. CASE ~TakePending
  <2>1. staleness_samples = Interval
    BY <1>1, <1>4, <1>8, CountingSteps
  <2>2. /\ hand # NoSample /\ owner # Proc
        /\ \A i, j \in 1..Len(waiters) : waiters[i] = Proc /\ waiters[j] = Mon => j < i
    BY <1>1, <1>2, <1>3, <2>1 DEF MonitorFirst
  <2>3. ~ProcHasLock
    BY <1>6, <2>2 DEF ProcHasLock
  <2>4. ~TakeCancelled
    BY <1>1, <1>2 DEF Uncut, TakeCancelled
  <2>5. hand' # NoSample
    <3>1. CASE hand' = hand
      BY <2>2, <3>1
    <3>2. CASE Processor
      BY <1>1, <1>8, <2>2, <2>3, <2>4, <3>2, ProcessorWay DEF ProcSubmit
    <3> QED BY <3>1, <3>2, OnlyProcessorMoves
  <2>6. CASE UNCHANGED <<owner, waiters>>
    BY <2>2, <2>5, <2>6
  <2>7. CASE Hold(Sync)
    BY <2>2, <2>5, <2>7, Names DEF Hold
  <2>8. CASE \E c \in Lockers : Enqueue(c) /\ (c = Mon => MonitorBlock)
    <3>1. PICK c \in Lockers : Enqueue(c) /\ c # Mon
      BY <1>3, <2>8 DEF MonitorBlock
    <3>2. waiters' = Append(waiters, c) /\ owner' = owner
      BY <3>1 DEF Enqueue
    <3>3. waiters \in Seq(Coroutines) /\ c \in Coroutines
      BY <1>5, <3>1, LockersAre DEF Line
    <3>4. ASSUME NEW i \in 1..Len(waiters'), NEW j \in 1..Len(waiters'),
                 waiters'[i] = Proc, waiters'[j] = Mon
          PROVE  j < i
      <4>1. Len(waiters') = Len(waiters) + 1 /\ waiters'[Len(waiters) + 1] = c
            /\ \A k \in 1..Len(waiters) : waiters'[k] = waiters[k]
        BY <3>2, <3>3
      <4>2. j \in 1..Len(waiters)
        BY <3>1, <3>3, <3>4, <4>1
      <4>3. CASE i \in 1..Len(waiters)
        BY <2>2, <3>4, <4>1, <4>2, <4>3
      <4>4. CASE i = Len(waiters) + 1
        BY <3>3, <4>2, <4>4
      <4> QED BY <3>3, <3>4, <4>1, <4>3, <4>4
    <3> QED BY <2>2, <2>5, <3>2, <3>4
  <2>9. ASSUME Release, owner # Mon
        PROVE  /\ owner' # Proc
               /\ \A i, j \in 1..Len(waiters') : waiters'[i] = Proc /\ waiters'[j] = Mon => j < i
    <3>1. Mon \in ToSet(waiters) /\ waiters \in Seq(Coroutines)
      BY <1>5, <2>9 DEF Line
    <3>2. PICK m \in 1..Len(waiters) : waiters[m] = Mon
      BY <3>1 DEF ToSet
    <3>3. waiters # <<>> /\ owner' = waiters[1] /\ waiters' = Tail(waiters)
      BY <2>9, <3>1, <3>2 DEF Release
    <3>4. owner' # Proc
      <4>1. 1 \in 1..Len(waiters) /\ ~(m < 1)
        BY <3>1, <3>2
      <4> QED BY <2>2, <3>2, <3>3, <4>1
    <3>5. /\ Len(waiters') = Len(waiters) - 1 /\ Len(waiters) \in Nat
          /\ \A k \in 1..Len(waiters') : waiters'[k] = waiters[k + 1]
      BY <3>1, <3>3
    <3>6. ASSUME NEW i \in 1..Len(waiters'), NEW j \in 1..Len(waiters'),
                 waiters'[i] = Proc, waiters'[j] = Mon
          PROVE  j < i
      <4>1. i + 1 \in 1..Len(waiters) /\ j + 1 \in 1..Len(waiters)
        BY <3>5
      <4>2. waiters[i + 1] = Proc /\ waiters[j + 1] = Mon
        BY <3>5, <3>6
      <4>3. j + 1 < i + 1
        BY <2>2, <4>1, <4>2
      <4> QED BY <4>3
    <3> QED BY <3>4, <3>6
  <2>10. CASE Release /\ Running(Main) /\ main = "locking"
    <3>1. owner = Main
      BY <1>1, <2>10, OwnerRuns, LockersIn
    <3> QED BY <2>5, <2>9, <2>10, <3>1, Names
  <2>11. CASE Release /\ Running(Sync) /\ sync \in Inside \cup {"resumeLock"}
    <3>1. owner = Sync
      BY <1>1, <2>11, OwnerRuns, LockersIn
    <3> QED BY <2>5, <2>9, <2>11, <3>1, Names
  <2>12. pmode # "wait"
    <3>1. pmode = "wait" => owner = Proc
      BY <1>1, LockersIn DEF LoopInv, LockInv
    <3> QED BY <2>2, <3>1
  <2>13. ~MonitorUnpause /\ ~MonitorLook
    BY <1>3, <1>6 DEF MonitorUnpause, MonitorLook, MonitorTop
  <2> QED BY <1>6, <2>3, <2>6, <2>7, <2>8, <2>10, <2>11, <2>12, <2>13, LockWay
<1> QED BY <1>7, <1>8

(* Nothing is left to cut when the servers are told to. *)
LEMMA UncutStep ==
  ASSUME MaxRequired = Interval, BaseInv, SyncInv, [Next]_vars
  PROVE  Uncut'
<1> SUFFICES ASSUME trainer' \in Looping \/ failed' = {}
             PROVE  cancelled' = <<>> /\ \A s \in Samples : task'[s] # "cut"
  BY DEF Uncut
<1>1. /\ TypeInv /\ LoopInv /\ EndInv
      /\ trainer \in Looping \/ failed = {}
      /\ \A s \in Samples : s \in active <=> task[s] # "none"
      /\ task \in [Samples -> TaskState]
  BY BaseParts, LoopingBefore, FailedGrow DEF LoopInv, Resting, TypeInv, SampleTypes
<1>2. cancelled = <<>> /\ \A s \in Samples : task[s] # "cut"
  BY <1>1 DEF SyncInv, Uncut
<1>3. server_paused => \A s \in Samples : task[s] \notin {"requested", "generating"}
  <2> SUFFICES ASSUME server_paused PROVE \A s \in Samples : task[s] \in {"none", "put"}
    OBVIOUS
  <2>1. CASE trainer \in Looping
    <3>1. sync \in Uncounted \cup Resuming
      BY <1>1 DEF EndInv, Drained, Uncounted, Resuming
    <3>2. Emptied
      BY <2>1, <3>1, EmptiedInSync
    <3> QED BY <3>2 DEF Emptied, Caught
  <2>2. CASE trainer \notin Looping
    <3>1. ppc \in {"exited", "failed"} /\ (ppc = "exited" => active = {}) /\ failed = {}
      BY <1>1, <2>2 DEF EndInv
    <3>2. active = {}
      BY <3>1 DEF SyncInv, Survives
    <3> QED BY <1>1, <3>2
  <2> QED BY <2>1, <2>2
<1>4. CASE FeedSamples \/ TakeCancelled \/ TakePending \/ ProcSubmit \/ MainSignal
  BY <1>1, <1>2, <1>4 DEF FeedSamples, TakeCancelled, TakePending, ProcSubmit, MainSignal,
     queueVars, taskVars
<1>5. CASE Tasks
  BY <1>1, <1>2, <1>5 DEF Tasks, TaskSubmit, TaskComplete, TaskReturn, Finish, queueVars
<1>6. CASE \E s \in Samples : Generation(s) \/ ServerError(s)
  BY <1>1, <1>2, <1>3, <1>6 DEF Generation, ServerAdmit, Rejects, ServerAnswer, ServerError,
     QueuePut, queueVars
<1>7. CASE TrainerGet \/ TrainerStep \/ MainClear
  BY <1>2, <1>7 DEF TrainerGet, TrainerStep, MainClear, rollVars, queueVars, taskVars
<1>8. CASE UNCHANGED placeVars
  BY <1>2, <1>8 DEF placeVars
<1> QED BY <1>1, <1>4, <1>5, <1>6, <1>7, <1>8, MovingSteps

(* While the processor is the head of the event loop's queue, the rest of  *)
(* the world only appends to it.                                           *)
LEMMA HeadStays ==
  ASSUME TypeInv, LoopInv, [Next]_vars, Running(Proc), ~Processor
  PROVE  /\ Running(Proc)'
         /\ \A s \in Samples : task[s] = "created" => task'[s] = "created"
<1>1. ready \in Seq(Coroutines) /\ task \in [Samples -> TaskState]
  BY DEF LoopInv, LockInv, Line, TypeInv, SampleTypes
<1>2. ~Running(Feeder) /\ ~Running(Mon) /\ ~Running(Main) /\ ~Running(Sync)
      /\ \A s \in Samples : ~Running(Task(s))
  BY Names DEF Running
<1>3. ASSUME \/ UNCHANGED <<ready, task>>
             \/ UNCHANGED task /\ \E c \in Coroutines : Arrive(c)
             \/ \E s \in Samples : \/ ServerAdmit(s) \/ ServerAnswer(s) \/ ServerError(s)
                                   \/ QueuePut(s)
      PROVE  /\ Running(Proc)'
             /\ \A s \in Samples : task[s] = "created" => task'[s] = "created"
  <2>1. ready' = ready \/ \E c \in Coroutines : Arrive(c)
    BY <1>3, Names DEF ServerAdmit, ServerAnswer, ServerError, QueuePut
  <2>2. Running(Proc)'
    BY <1>1, <2>1 DEF Arrive, Running
  <2>3. \A s \in Samples : task[s] = "created" => task'[s] = "created"
    BY <1>1, <1>3 DEF ServerAdmit, ServerAnswer, ServerError, QueuePut
  <2> QED BY <2>2, <2>3
<1>4. CASE EventLoop \/ MonitorTick
  BY <1>2, <1>4 DEF EventLoop, FeedSamples, Tasks, TaskSubmit, TaskComplete, TaskReturn, Monitor,
     MonitorTick, MonitorBlock, MonitorUnpause, MonitorLook, MainCoroutine, MainWake, MainBlock,
     MainStop, SyncCalls, SyncBlock, SyncEnters, PauseBegin, PauseCancelled, PauseGathered,
     PauseEnd,
     UpdateBegin, UpdateCounted, UpdateEnd, ResumeServers, ResumeEnd
<1>5. CASE MonitorTimer \/ Replies
  <2>1. UNCHANGED task /\ \E c \in Coroutines : Arrive(c)
    BY <1>5, Names DEF MonitorTimer, Replies, MainSignal, CallArrives, ServersCancel, ServersReset,
       QueueCounts, QueuePublishes, ServersResume, taskVars
  <2> QED BY <1>3, <2>1
<1>6. CASE \E s \in Samples : Generation(s) \/ ServerError(s)
  BY <1>3, <1>6 DEF Generation
<1>7. CASE Trainer \/ Transfer \/ MainClear \/ UNCHANGED vars
  <2>1. UNCHANGED <<ready, task>>
    BY <1>7 DEF Trainer, TrainerLog, TrainerGet, TrainerStep, SyncWeights, FinalLog, FinalDecide,
       FinalValidLog, Transfer, TransferBegin, TransferEnd, MainClear, vars, rollVars, loopVars,
       taskVars
  <2> QED BY <1>3, <2>1
<1> QED BY <1>4, <1>5, <1>6, <1>7 DEF Next, Rollout, RollNext, Terminated

(* Nobody else takes the free lock or sets paused before a synchronisation. *)
LEMMA FreeStays ==
  ASSUME TypeInv, LoopInv, [Next]_vars, ~Processor, LockFree, sync = "idle", pmode # "stop"
  PROVE  LockFree' /\ (paused' => paused)
<1>1. ~Running(Main) /\ ~Running(Sync)
  BY RunningIsReady DEF LoopInv, Resting, Away
<1>2. ~(Running(Mon) /\ monitor \in {"unpause", "top"})
  BY OwnerRuns, LockersIn, Names DEF LockFree
<1>3. ~MonitorUnpause /\ ~MonitorLook /\ \A c \in Lockers : ~Enqueue(c)
  BY <1>2 DEF MonitorUnpause, MonitorLook, Enqueue
<1>4. LockFree'
  BY <1>1, <1>3, LockWay DEF LockFree
<1>5. paused' => paused
  <2> USE DEF flagVars, rollVars
  <2>1. CASE FeedSamples \/ Tasks \/ MonitorTimer \/ MainCoroutine \/ MainSignal
             \/ \E s \in Samples : Generation(s) \/ ServerError(s)
    BY <2>1, QuietSteps
  <2>2. CASE Monitor
    BY <1>3, <2>2 DEF Monitor, MonitorTick, MonitorBlock
  <2>3. ~SyncCalls
    BY <1>1 DEF SyncCalls, SyncBlock, SyncEnters, PauseBegin, PauseCancelled, PauseGathered,
       PauseEnd,
     UpdateBegin, UpdateCounted, UpdateEnd, ResumeServers, ResumeEnd
  <2>4. CASE Replies /\ ~MainSignal
    BY <2>4 DEF Replies, CallArrives, ServersCancel, ServersReset, QueueCounts, QueuePublishes,
       ServersResume
  <2>5. CASE Trainer \/ Transfer \/ MainClear \/ UNCHANGED vars
    BY <2>5, OutsideSteps DEF vars
  <2> QED BY <2>1, <2>2, <2>3, <2>4, <2>5 DEF Next, Rollout, RollNext, EventLoop, Terminated
<1> QED BY <1>4, <1>5

(* With the lock free a section of the processor leaves it free. *)
LEMMA FreeRelease ==
  ASSUME LoopInv, LockFree
  PROVE  /\ Granted = <<>> /\ waiters = <<>> /\ (Release => LockFree')
         /\ ~Enqueue(Proc)
         /\ Running(Proc) /\ Continue(<<>>) => Running(Proc)'
<1>1. waiters = <<>> /\ ready \in Seq(Coroutines)
  BY DEF LoopInv, LockInv, Line
<1>2. Running(Proc) /\ Continue(<<>>) => Running(Proc)'
  BY <1>1, ConcatProperties DEF Running, Continue
<1> QED BY <1>1, <1>2 DEF Granted, Release, LockFree, Enqueue

(* Before the first wait no other coroutine comes between the sections.    *)
LEMMA FirstWaitStep ==
  ASSUME MaxRequired = Interval, BaseInv, SyncInv, [Next]_vars
  PROVE  FirstWait'
<1> SUFFICES ASSUME ~done_bound', pmode' \notin {"wait", "stop"}
             PROVE  /\ pmode' \in {"run", "get"} /\ LockFree' /\ sync' = "idle"
                    /\ ppc' \in {"check", "take", "limit", "submit", "pause", "drain", "final"}
                    /\ ppc' # "drain" => ~paused'
                    /\ ppc' \in {"pause", "drain"} => Got' > 0
                    /\ ppc' \in {"check", "pause", "drain"} /\ Got' > 0 =>
                         /\ pmode' = "run" /\ Running(Proc)'
                         /\ \E s \in Samples : task'[s] = "created"
  BY DEF FirstWait
<1>1. /\ SystemInv /\ FlowInv /\ TypeInv /\ LoopInv /\ SampleInv /\ FirstWait /\ EndInv
      /\ Got \in Nat /\ Base \in Int /\ Interval \in Nat \ {0} /\ staleness_samples \in Nat
      /\ Base * Interval \in Int
  BY BaseParts DEF SyncInv
<1>2. ~done_bound /\ ~ProcCollect
  <2>1. Processor => done_bound' = done_bound \/ ProcCollect
    BY DEF Processor, ProcCheck, ProcBlock, ProcSetPaused, ProcLoopDone, ProcCollectBegin,
       ProcCollectNothing, ProcIdle, TakeCancelled, TakePending, TakeWait, ProcSubmit
  <2>2. ProcCollect => done_bound'
    BY DEF ProcCollect
  <2> QED BY <2>1, <2>2, OnlyProcessorMoves
<1>3. pmode \notin {"wait", "stop"}
  <2>1. pmode = "wait" => ~Processor
    BY <1>2 DEF Processor, ProcCheck, ProcBlock, ProcSetPaused, ProcLoopDone, ProcCollectBegin,
       ProcCollectNothing, ProcIdle, TakeCancelled, TakePending, TakeWait, ProcSubmit,
       ProcHasLock, WantsLock
  <2>2. pmode = "stop" => ~Processor
    BY <1>1, ProcessorWay
  <2> QED BY <2>1, <2>2, OnlyProcessorMoves
<1>4. /\ pmode \in {"run", "get"} /\ LockFree /\ sync = "idle"
      /\ ppc \in {"check", "take", "limit", "submit", "pause", "drain", "final"}
      /\ ppc # "drain" => ~paused
      /\ ppc \in {"pause", "drain"} => Got > 0
      /\ ppc \in {"check", "pause", "drain"} /\ Got > 0 =>
           pmode = "run" /\ Running(Proc) /\ \E s \in Samples : task[s] = "created"
  BY <1>1, <1>2, <1>3 DEF FirstWait
<1>5. trainer \in Looping /\ main = "streaming"
  BY <1>1, <1>3, BaseParts DEF LoopInv, Resting
<1>6. sync_version \in Nat /\ Base = sync_version /\ staleness_samples = Got - Base * Interval
  BY <1>1, <1>4, <1>5 DEF SystemInv, VersionsInv, Base, Uncounted, SyncInv, PaceInv
<1>7. Base * Interval \in Nat /\ (Base + 1) * Interval \in Nat \ {0}
  <2>1. Base \in Nat
    BY <1>6
  <2>2. \A k \in Nat : k * Interval \in Nat
    BY <1>1
  <2>3. Base * Interval \in Nat
    BY <2>1, <2>2
  <2> QED BY <1>1, <2>1, <2>3, BaseParts
<1>8. sync' = "idle"
  <2> SUFFICES ASSUME sync' # "idle" PROVE FALSE
    OBVIOUS
  <2>1. trainer = "waitValid"
    BY <1>1, <1>4, <1>5, SyncWay DEF Looping
  <2>2. Emptied
    BY <1>5, <2>1, EmptiedInSync
  <2>3. /\ Got > 0 /\ ppc \in {"check", "pause", "drain"}
        /\ \A s \in Samples : task[s] \in {"none", "put"}
    BY <1>1, <1>4, <1>7, <2>2 DEF Emptied, Resuming, Quiet, Caught
  <2> QED BY <1>4, <2>3
<1>9. CASE ~Processor
  <2>1. /\ UNCHANGED <<ppc, hand, done_bound>> /\ pmode' = pmode
        /\ Got' = Got
    <3>1. UNCHANGED <<ppc, hand, done_bound>> /\ pmode' = pmode
      BY <1>4, <1>9, OnlyProcessorMoves
    <3>2. ~TakePending
      BY <1>9 DEF Processor
    <3> QED BY <1>1, <3>1, <3>2, FedInOrder
  <2>2. LockFree' /\ (paused' => paused)
    BY <1>1, <1>3, <1>4, <1>9, FreeStays
  <2>3. ASSUME ppc' \in {"check", "pause", "drain"}, Got' > 0
        PROVE  Running(Proc)' /\ \E s \in Samples : task'[s] = "created"
    BY <1>1, <1>4, <1>9, <2>1, <2>3, HeadStays
  <2> QED BY <1>4, <1>8, <2>1, <2>2, <2>3
<1>10. CASE Processor
  <2> USE DEF GoOn, Suspend, Stop
  <2>1. ~TakePending => Got' = Got
    BY <1>1, FedInOrder
  <2>2. /\ Running(Proc) /\ Granted = <<>> /\ (Release => LockFree') /\ ~Enqueue(Proc)
        /\ Continue(<<>>) => Running(Proc)'
        /\ UNCHANGED owner => LockFree'
    BY <1>1, <1>4, <1>10, ProcessorWay, FreeRelease DEF LockFree
  <2>3. CASE ProcCheck
    <3>1. /\ pmode = "run" /\ ppc = "check" /\ ~paused /\ pmode' = "run" /\ Continue(<<>>)
          /\ ppc' = IF ShouldPause THEN "pause" ELSE "take"
          /\ UNCHANGED <<owner, paused, task>> /\ Got' = Got
      BY <1>4, <2>1, <2>3, Names DEF ProcCheck, TakePending, flagVars, taskVars
    <3>2. ShouldPause => Got > 0
      <4>1. CASE staleness_samples >= MaxRequired
        BY <1>1, <1>6, <1>7, <4>1
      <4>2. CASE Len(queue) >= max_queue_size
        <5>1. Line(queue, Payload) /\ STOP \notin ToSet(queue) /\ max_queue_size \in Nat \ {0}
          BY <1>1, <1>5, Constants DEF SampleInv, SampleLines
        <5>2. queue # <<>>
          BY <4>2, <5>1
        <5>3. Head(queue) \in Samples /\ Head(queue) \in ToSet(queue)
          BY <5>1, <5>2, ShorterLine, Constants
        <5>4. Head(queue) \in AtWork
          BY <5>3 DEF AtWork, Outstanding
        <5>5. ~(Head(queue) > Got) /\ Head(queue) \in Nat \ {0}
          BY <1>1, <5>3, <5>4, BehindGot, Constants
        <5> QED BY <1>1, <5>5
      <4> QED BY <4>1, <4>2 DEF ShouldPause
    <3> QED BY <1>4, <1>8, <2>2, <3>1, <3>2
  <2>4. ~ProcBlock /\ ~ProcIdle /\ ~ProcCollectBegin /\ ~ProcCollectNothing
    BY <1>2, <1>4, <2>2 DEF ProcBlock, ProcIdle, ProcCollectBegin, ProcCollectNothing
  <2>5. CASE ProcSetPaused
    <3>1. /\ ppc = "pause" /\ pmode' = "run" /\ ppc' = "drain" /\ Continue(<<>>) /\ Release
          /\ UNCHANGED task /\ ~TakePending
      BY <2>2, <2>5 DEF ProcSetPaused, TakePending, TypeInv, InHand, taskVars
    <3> QED BY <1>4, <1>8, <2>1, <2>2, <3>1
  <2>6. CASE ProcLoopDone
    <3>1. ppc # "drain"
      <4> SUFFICES ASSUME ppc = "drain" PROVE FALSE
        OBVIOUS
      <4>1. PICK s \in Samples : task[s] = "created"
        BY <1>4
      <4>2. s \in active
        BY <1>1, <4>1 DEF LoopInv, Resting
      <4>3. Cardinality(active) # 0
        BY <1>1, <4>2, CountedTasks, FS_EmptySet
      <4>4. ActiveTasks > 0
        BY <1>1, <4>3, CountedTasks DEF ActiveTasks
      <4> QED BY <2>6, <4>4 DEF ProcLoopDone, MustCollect
    <3>2. ppc = "limit" /\ pmode' = "run" /\ ppc' = "submit" /\ UNCHANGED <<owner, paused>>
      BY <2>6, <3>1 DEF ProcLoopDone, flagVars
    <3> QED BY <1>4, <1>8, <2>2, <3>2
  <2>7. CASE TakeCancelled \/ TakePending \/ TakeWait
    <3>1. ppc = "take"
      BY <1>1, <2>7 DEF TakeCancelled, TakePending, TakeWait, TypeInv, InHand
    <3>2. /\ pmode' \in {"run", "get"} /\ ppc' \in {"take", "limit", "final"}
          /\ UNCHANGED <<owner, paused>>
      BY <2>7, <3>1 DEF TakeCancelled, TakePending, TakeWait, flagVars
    <3> QED BY <1>4, <1>8, <2>2, <3>1, <3>2
  <2>8. CASE ProcSubmit
    <3>1. /\ ppc = "submit" /\ ~paused /\ Release /\ pmode' = "run" /\ ppc' = "check"
          /\ Continue(<<Task(hand)>>) /\ UNCHANGED paused
          /\ task' = [task EXCEPT ![hand] = "created"] /\ hand \in Samples
      <4>1. ppc = "submit" /\ ~paused
        BY <1>4, <2>8 DEF ProcSubmit
      <4>2. <<Task(hand)>> \o <<>> = <<Task(hand)>>
        OBVIOUS
      <4>3. hand \in Samples
        BY <1>1, <4>1 DEF TypeInv, InHand
      <4> QED BY <2>2, <2>8, <4>1, <4>2, <4>3 DEF ProcSubmit, flagVars
    <3>2. task'[hand] = "created"
      BY <1>1, <3>1 DEF TypeInv, SampleTypes
    <3>3. Running(Proc)'
      <4>1. ready \in Seq(Coroutines) /\ <<Task(hand)>> \in Seq(Coroutines) /\ ready # <<>>
        BY <1>1, <2>2, <3>1, Names DEF LoopInv, LockInv, Line, Running
      <4>2. ready' = ready \o <<Task(hand)>> /\ Len(ready) >= 1
        BY <3>1, <4>1 DEF Continue
      <4>3. Len(ready') = Len(ready) + 1 /\ ready' \in Seq(Coroutines) /\ ready'[1] = ready[1]
        BY <4>1, <4>2, ConcatProperties
      <4> QED BY <2>2, <4>1, <4>2, <4>3 DEF Running
    <3> QED BY <1>4, <1>8, <2>2, <3>1, <3>2, <3>3
  <2> QED BY <1>2, <1>10, <2>3, <2>4, <2>5, <2>6, <2>7, <2>8 DEF Processor
<1> QED BY <1>9, <1>10

(* A queue without repetitions is no longer than a set that has its members. *)
LEMMA LineFits ==
  ASSUME NEW S, NEW q, Line(q, S), NEW A, IsFiniteSet(A), ToSet(q) \subseteq A
  PROVE  Len(q) <= Cardinality(A)
<1>1. q \in Seq(S) /\ IsInjective(q) /\ Len(q) \in Nat /\ DOMAIN q = 1..Len(q)
  BY DEF Line
<1>2. q \in [1..Len(q) -> A]
  BY <1>1 DEF ToSet
<1>3. q \in Injection(1..Len(q), A)
  BY <1>1, <1>2 DEF Injection, IsInjective
<1>4. Cardinality(1..Len(q)) <= Cardinality(A)
  BY <1>3, FS_Injection
<1> QED BY <1>1, <1>4, FS_Interval

(* What is at work was taken and has not reached the trainer. *)
AtWorkFits ==
  /\ Cardinality(AtWork) <= Interval
  /\ ppc \in {"final", "exited"} => Cardinality(AtWork) < Interval

(* While the trainer takes, what it has taken bounds what is at work.      *)
LEMMA RoomWhileLooping ==
  BaseInv /\ PaceInv /\ trainer \in Looping => AtWorkFits
<1> SUFFICES ASSUME BaseInv, PaceInv, trainer \in Looping
             PROVE  AtWorkFits
  OBVIOUS
<1>1. /\ SystemInv /\ FlowInv /\ EndInv /\ VersionsInv /\ TypeInv
      /\ Got \in Nat /\ Base \in Int /\ Interval \in Nat \ {0} /\ staleness_samples \in Nat
      /\ Base * Interval \in Int
  BY BaseParts
<1>2. staleness_samples = Got - Base * Interval /\ staleness_samples <= Interval
  BY DEF PaceInv
<1>3. /\ Cardinality(Consumed) = Taken /\ Got \in 0..DONE /\ DONE = Total + 1 /\ Total \in Nat
      /\ Samples = 1..Total
      /\ ppc \in {"final", "exited"} => Got = DONE
  BY <1>1, Constants DEF FlowInv, EndInv
<1>4. Taken \in Int /\ Base * Interval <= Taken
  <2>1. /\ trainer_version \in Nat /\ Base <= trainer_version /\ local_trigger_step \in 1..Trigger
        /\ Len(batch) \in Nat /\ Required \in Nat /\ Trigger \in Nat
    <3>1. /\ sync_version \in Nat /\ trainer_version \in Nat
          /\ trainer_version = sync_version \/ trainer_version = sync_version + 1
      BY <1>1 DEF VersionsInv, TrainerAhead
    <3>2. local_trigger_step \in 1..Trigger /\ batch \in Seq(Samples)
      BY <1>1 DEF TypeInv, TrainerTypes
    <3>3. Base <= trainer_version
      BY <3>1 DEF Base
    <3> QED BY <3>1, <3>2, <3>3, Constants
  <2>2. Base * Interval <= trainer_version * Interval /\ trainer_version * Interval \in Nat
    <3>1. \A k \in Nat : k * Interval \in Nat
      BY <1>1
    <3> QED BY <1>1, <2>1, <3>1, Monotone
  <2>3. (local_trigger_step - 1) * Required \in Nat
    <3>1. local_trigger_step - 1 \in Nat
      BY <2>1
    <3>2. \A k \in Nat : k * Required \in Nat
      BY <2>1
    <3> QED BY <3>1, <3>2
  <2> HIDE DEF Base, Interval
  <2> QED BY <1>1, <2>1, <2>2, <2>3 DEF Taken
<1>5. AtWork \subseteq Samples /\ Consumed \subseteq Samples
  <2>1. batch \in Seq(Samples) /\ trained \subseteq Samples /\ failed \subseteq Samples
    BY <1>1 DEF TypeInv, TrainerTypes, SampleTypes
  <2> QED BY <2>1 DEF AtWork, Outstanding, Consumed, ToSet
<1>6. \A s \in AtWork \cup Consumed : s \in 1..Got
  <2>1. ASSUME NEW s \in AtWork \cup Consumed PROVE s \in 1..Got
    <3>1. s \in Samples /\ ~(s > Got)
      BY <1>1, <1>5, BehindGot
    <3> QED BY <1>1, <1>3, <3>1
  <2> QED BY <2>1
<1>7. AtWork \cap Consumed = {}
  BY <1>1, <1>5, BehindGot
<1>8. ASSUME NEW n \in Nat, AtWork \cup Consumed \subseteq 1..n
      PROVE  Cardinality(AtWork) \in Nat /\ Cardinality(AtWork) <= n - Taken
  <2>1. IsFiniteSet(1..n) /\ Cardinality(1..n) = n
    BY FS_Interval
  <2>2. IsFiniteSet(AtWork) /\ IsFiniteSet(Consumed) /\ IsFiniteSet(AtWork \cup Consumed)
    BY <1>8, <2>1, FS_Subset
  <2>3. Cardinality(AtWork \cup Consumed) <= n
    BY <1>8, <2>1, FS_Subset
  <2>4. Cardinality(AtWork \cup Consumed) =
          Cardinality(AtWork) + Cardinality(Consumed) - Cardinality({})
    BY <1>7, <2>2, FS_Union
  <2>5. Cardinality({}) = 0 /\ Cardinality(AtWork) \in Nat /\ Cardinality(Consumed) \in Nat
    BY <2>2, FS_EmptySet, FS_CardinalityType
  <2> QED BY <1>3, <1>4, <2>3, <2>4, <2>5
<1>9. Cardinality(AtWork) \in Nat /\ Cardinality(AtWork) <= Got - Taken
  BY <1>1, <1>6, <1>8
<1>10. Cardinality(AtWork) <= Interval
  BY <1>1, <1>2, <1>4, <1>9
<1>11. ppc \in {"final", "exited"} => Cardinality(AtWork) < Interval
  <2>1. AtWork \cup Consumed \subseteq 1..Total
    BY <1>3, <1>5
  <2>2. Cardinality(AtWork) <= Total - Taken
    BY <1>3, <1>8, <2>1
  <2> QED BY <1>1, <1>2, <1>3, <1>4, <1>9, <2>2
<1> QED BY <1>10, <1>11 DEF AtWorkFits

(* The same of the state after a step. *)
LEMMA RoomAfterStep ==
  (BaseInv /\ PaceInv /\ trainer \in Looping)' => AtWorkFits'
  BY RoomWhileLooping, PTL

(* Whoever puts a sample, or the None sample, finds room.                  *)
LEMMA RoomToPut ==
  ASSUME MaxRequired = Interval, BaseInv, SyncInv,
         main = "signalling" \/ \E s \in Samples : task[s] = "putting"
  PROVE  ~Full
<1>1. /\ TypeInv /\ LoopInv /\ SampleInv /\ EndInv /\ RoomInv /\ Survives
      /\ Interval \in Nat \ {0}
  BY BaseParts DEF SyncInv
<1>2. /\ Line(queue, Payload) /\ Payload = Samples \cup {STOP} /\ STOP \notin Samples
      /\ main \in {"streaming", "signalling"} => STOP \notin ToSet(queue)
      /\ max_queue_size = Interval /\ ToSet(queue) \subseteq Payload
      /\ failed \subseteq Samples /\ Len(queue) \in Nat
  <2>1. /\ Line(queue, Payload)
        /\ main \in {"streaming", "signalling"} => STOP \notin ToSet(queue)
        /\ failed \subseteq Samples
    BY <1>1 DEF SampleInv, SampleLines, TypeInv, SampleTypes
  <2>2. ToSet(queue) \subseteq Payload /\ Len(queue) \in Nat
    BY <2>1 DEF Line, ToSet
  <2> QED BY <2>1, <2>2, Constants
<1>3. pmode # "stop" => main = "streaming"
  BY <1>1 DEF LoopInv, Resting
<1>4. /\ pmode = "stop" <=> ppc \in {"exited", "failed"}
      /\ ppc = "exited" => active = {}
      /\ ppc = "failed" => failed # {}
  BY <1>1 DEF EndInv, Survives
<1>5. /\ IsFiniteSet(AtWork) /\ Cardinality(AtWork) \in Nat /\ Cardinality(AtWork) <= Interval
      /\ ppc \in {"final", "exited"} => Cardinality(AtWork) < Interval
      /\ ToSet(queue) \ {STOP} \subseteq AtWork
  <2>1. AtWork \subseteq Samples /\ ToSet(queue) \ {STOP} \subseteq AtWork
    BY <1>2 DEF AtWork, Outstanding
  <2>2. IsFiniteSet(AtWork)
    <3>1. IsFiniteSet(Samples)
      BY Constants, FS_Interval
    <3> QED BY <2>1, <3>1, FS_Subset
  <2> QED BY <1>1, <2>1, <2>2, FS_CardinalityType DEF RoomInv
<1>6. \A s \in Samples :
        /\ task[s] = "putting" => s \in AtWork /\ s \notin ToSet(queue) /\ s \notin failed
        /\ s \in failed => s \in AtWork /\ s \notin ToSet(queue)
  <2> TAKE s \in Samples
  <2>1. PICK p \in Places : LocatedAt(s, p)
    BY <1>1, PlaceOf
  <2> QED BY <2>1 DEF LocatedAt, AtWork, Outstanding, UnderWay
<1>7. \A x \in AtWork : /\ IsFiniteSet(AtWork \ {x})
                        /\ Cardinality(AtWork \ {x}) = Cardinality(AtWork) - 1
  BY <1>5, FS_RemoveElement
<1>8. CASE STOP \notin ToSet(queue)
  <2>1. CASE ppc = "exited"
    <3>1. Len(queue) <= Cardinality(AtWork)
      BY <1>2, <1>5, <1>8, LineFits
    <3> QED BY <1>1, <1>2, <1>5, <2>1, <3>1 DEF Full
  <2>2. CASE \E x \in AtWork : x \notin ToSet(queue)
    <3>1. PICK x \in AtWork : x \notin ToSet(queue)
      BY <2>2
    <3>2. ToSet(queue) \subseteq AtWork \ {x}
      BY <1>5, <1>8, <3>1
    <3>3. Len(queue) <= Cardinality(AtWork) - 1
      BY <1>2, <1>7, <3>1, <3>2, LineFits, ZenonT(60)
    <3> QED BY <1>1, <1>2, <1>5, <3>3 DEF Full
  <2>3. ppc = "exited" \/ \E x \in AtWork : x \notin ToSet(queue)
    <3>1. CASE main = "signalling"
      BY <1>2, <1>3, <1>4, <1>6, <3>1
    <3>2. CASE \E s \in Samples : task[s] = "putting"
      BY <1>6, <3>2
    <3> QED BY <3>1, <3>2
  <2> QED BY <2>1, <2>2, <2>3
<1>9. CASE STOP \in ToSet(queue)
  <2>1. PICK s \in Samples : task[s] = "putting"
    BY <1>2, <1>9
  <2>2. active # {}
    BY <1>1, <2>1 DEF LoopInv, Resting
  <2>3. PICK f \in Samples : f \in failed
    BY <1>2, <1>3, <1>4, <1>9, <2>2
  <2>4. s \in AtWork /\ f \in AtWork \ {s} /\ s \notin ToSet(queue) /\ f \notin ToSet(queue)
    BY <1>6, <2>1, <2>3
  <2> DEFINE B == (AtWork \ {s}) \ {f}
  <2>5. IsFiniteSet(B) /\ Cardinality(B) = Cardinality(AtWork) - 2
    <3>1. IsFiniteSet(AtWork \ {s}) /\ Cardinality(AtWork \ {s}) = Cardinality(AtWork) - 1
      BY <1>7, <2>4
    <3>2. IsFiniteSet(B) /\ Cardinality(B) = Cardinality(AtWork \ {s}) - 1
      BY <2>4, <3>1, FS_RemoveElement
    <3> QED BY <1>5, <3>1, <3>2
  <2>6. ToSet(queue) \subseteq B \cup {STOP}
    BY <1>5, <2>4
  <2>7. IsFiniteSet(B \cup {STOP}) /\ Cardinality(B \cup {STOP}) <= Cardinality(AtWork) - 1
    <3>1. /\ IsFiniteSet(B \cup {STOP})
          /\ Cardinality(B \cup {STOP}) = IF STOP \in B THEN Cardinality(B) ELSE Cardinality(B) + 1
      BY <2>5, FS_AddElement
    <3> HIDE DEF B
    <3> QED BY <1>5, <2>5, <3>1
  <2>8. Len(queue) <= Cardinality(B \cup {STOP})
    BY <1>2, <2>6, <2>7, LineFits
  <2>9. Cardinality(B \cup {STOP}) \in Nat
    BY <2>7, FS_CardinalityType
  <2> HIDE DEF B
  <2> QED BY <1>1, <1>2, <1>5, <2>7, <2>8, <2>9 DEF Full
<1> QED BY <1>8, <1>9

(* Nothing is dropped. *)
LEMMA RoomInvStep ==
  ASSUME MaxRequired = Interval, BaseInv, SyncInv, [Next]_vars, BaseInv', PaceInv'
  PROVE  RoomInv'
<1>1. /\ TypeInv /\ LoopInv /\ SampleInv /\ EndInv /\ RoomInv /\ Interval \in Nat \ {0}
  BY BaseParts DEF SyncInv
<1>2. AtWorkFits'
  <2>1. CASE trainer' \in Looping
    BY <2>1, RoomAfterStep DEF Looping
  <2>2. CASE trainer' \notin Looping
    <3>1. pmode' = "stop" /\ ~TakePending /\ ~ProcSubmit
      <4>1. pmode' = "stop"
        BY <2>2 DEF BaseInv, EndInv, Looping
      <4> QED BY <4>1 DEF TakePending, ProcSubmit, GoOn, Suspend
    <3>2. AtWork' \subseteq AtWork
      <4>1. Outstanding' \subseteq Outstanding
        BY <1>1, <3>1, OutstandingSteps
      <4>2. failed' \subseteq failed \cup Outstanding
        BY <1>1, FailedGrow DEF ServerError, Outstanding, UnderWay
      <4> QED BY <4>1, <4>2 DEF AtWork
    <3>3. ppc' \in {"final", "exited"} => ppc \in {"final", "exited"}
      BY <1>1, <3>1, OnlyProcessorMoves, ProcessorWay
    <3>4. Cardinality(AtWork') <= Cardinality(AtWork) /\ Cardinality(AtWork) \in Nat
          /\ Cardinality(AtWork') \in Nat
      <4>1. AtWork \subseteq Samples
        BY <1>1 DEF AtWork, Outstanding, TypeInv, SampleTypes
      <4> QED BY <3>2, <4>1, SampleSets
    <3> QED BY <1>1, <3>3, <3>4 DEF RoomInv, AtWorkFits
  <2> QED BY <2>1, <2>2
<1>3. dropped' = {}
  <2>1. dropped = {}
    BY <1>1 DEF RoomInv
  <2>2. CASE (\E s \in Samples : QueuePut(s)) \/ MainSignal
    <3>1. ~Full /\ Evict
      BY <2>2, RoomToPut DEF QueuePut, MainSignal
    <3> QED BY <2>1, <3>1 DEF Evict, Evicted
  <2>3. CASE FeedSamples \/ TakeCancelled \/ TakePending \/ ProcSubmit \/ Tasks
             \/ \E s \in Samples : ServerAdmit(s) \/ ServerAnswer(s) \/ ServerError(s)
    BY <2>1, <2>3 DEF FeedSamples, TakeCancelled, TakePending, ProcSubmit, Tasks, TaskSubmit,
       TaskComplete, TaskReturn, ServerAdmit, ServerAnswer, ServerError, histVars
  <2>4. CASE TrainerGet \/ TrainerStep \/ MainClear
    BY <2>1, <2>4 DEF TrainerGet, TrainerStep, MainClear, rollVars, histVars
  <2>5. CASE UNCHANGED placeVars
    BY <2>1, <2>5 DEF placeVars
  <2> QED BY <1>1, <2>2, <2>3, <2>4, <2>5, MovingSteps DEF Generation
<1> QED BY <1>2, <1>3 DEF RoomInv, AtWorkFits

(* How a sample comes to be submitted, and what adds to its history. *)
LEMMA SubmittedSteps ==
  ASSUME TypeInv, [Next]_vars, NEW s \in Samples
  PROVE  /\ task'[s] \in {"created", "requested"} =>
              task[s] \in {"created", "requested"} \/ (ProcSubmit /\ s = hand)
         /\ \/ made_by'[s] = made_by[s]
            \/ /\ ServerAdmit(s) \/ ServerAnswer(s)
               /\ made_by'[s] = made_by[s] \cup {weights}
         /\ weights' = weights \/ TransferEnd
<1>1. task \in [Samples -> TaskState] /\ made_by \in [Samples -> SUBSET (0..trainer_version)]
  BY DEF TypeInv, SampleTypes, TrainerTypes
<1>2. task'[s] \in {"created", "requested"} =>
         task[s] \in {"created", "requested"} \/ (ProcSubmit /\ s = hand)
  <2>1. CASE FeedSamples \/ TakeCancelled \/ TakePending \/ MainSignal
    BY <2>1 DEF FeedSamples, TakeCancelled, TakePending, MainSignal, taskVars
  <2>2. CASE ProcSubmit
    BY <1>1, <2>2 DEF ProcSubmit
  <2>3. CASE Tasks
    BY <1>1, <2>3 DEF Tasks, TaskSubmit, TaskComplete, TaskReturn, Finish
  <2>4. CASE \E t \in Samples : Generation(t) \/ ServerError(t)
    BY <1>1, <2>4 DEF Generation, ServerAdmit, ServerAnswer, ServerError, QueuePut
  <2>5. CASE TrainerGet \/ TrainerStep \/ MainClear
    BY <2>5 DEF TrainerGet, TrainerStep, MainClear, rollVars, taskVars
  <2>6. CASE UNCHANGED placeVars
    BY <2>6 DEF placeVars
  <2> QED BY <2>1, <2>2, <2>3, <2>4, <2>5, <2>6, MovingSteps
<1>3. \/ made_by'[s] = made_by[s]
      \/ /\ ServerAdmit(s) \/ ServerAnswer(s)
         /\ made_by'[s] = made_by[s] \cup {weights}
  <2>1. ASSUME NEW t \in Samples, TaskComplete(t)
        PROVE  made_by'[s] = made_by[s]
    BY <2>1 DEF TaskComplete
  <2>2. ASSUME NEW t \in Samples, ServerAdmit(t) \/ ServerAnswer(t)
        PROVE  \/ made_by'[s] = made_by[s]
               \/ t = s /\ made_by'[s] = made_by[s] \cup {weights}
    BY <1>1, <2>2 DEF ServerAdmit, ServerAnswer
  <2> QED BY <2>1, <2>2, HistorySteps
<1>4. weights' = weights \/ TransferEnd
  <2>1. CASE Rollout
    BY <2>1, RolloutSteps
  <2>2. CASE Trainer
    BY <2>2 DEF Trainer, TrainerLog, TrainerGet, TrainerStep, SyncWeights, FinalLog,
              FinalDecide, FinalValidLog, rollVars, serverVars
  <2>3. CASE TransferBegin \/ MainClear \/ UNCHANGED vars
    BY <2>3 DEF TransferBegin, MainClear, vars, rollVars, serverVars
  <2> QED BY <2>1, <2>2, <2>3 DEF Next, Terminated, Transfer
<1> QED BY <1>2, <1>3, <1>4

(* Samples are made by the weights of the last synchronisation.            *)
LEMMA FreshInvStep ==
  ASSUME MaxRequired = Interval, BaseInv, SyncInv, [Next]_vars
  PROVE  FreshInv'
<1> SUFFICES ASSUME trainer' \in Looping, NEW s \in Samples
             PROVE  /\ s > Got' \/ s = hand' \/ task'[s] \in {"created", "requested"} =>
                         made_by'[s] = {}
                    /\ task'[s] \in {"generating", "complete"} \/ Stamped(s)' =>
                         made_by'[s] = {weights'}
                    /\ Stamped(s)' => stamp'[s] = weights'
  BY DEF FreshInv
<1>1. /\ SystemInv /\ FlowInv /\ TypeInv /\ SampleInv /\ VersionsInv
      /\ trainer \in Looping /\ Got \in Nat /\ s \in Nat \ {0}
      /\ cancelled = <<>>
      /\ sync \in Uncounted => Emptied
  BY BaseParts, LoopingBefore, EmptiedInSync, Constants DEF SyncInv, Uncut
<1>2. /\ s > Got \/ s = hand \/ task[s] \in {"created", "requested"} => made_by[s] = {}
      /\ task[s] \in {"generating", "complete"} \/ Stamped(s) => made_by[s] = {weights}
      /\ Stamped(s) => stamp[s] = weights
  BY <1>1 DEF SyncInv, FreshInv
<1>3. task[s] \in UnderWay => ~(s > Got) /\ s # hand /\ s \notin ToSet(queue) \cup ToSet(batch)
  <2>1. PICK p \in Places : LocatedAt(s, p)
    BY <1>1, PlaceOf
  <2>2. s > Got => task[s] = "none"
    BY <1>1, BehindGot
  <2> QED BY <2>1, <2>2 DEF LocatedAt, UnderWay
<1>4. Got' \in Nat /\ (s > Got' => s > Got)
  <2>1. Got' = Got \/ Got' = Got + 1
    BY <1>1, FedInOrder
  <2> QED BY <1>1, <2>1
<1>5. CASE TransferEnd
  <2>1. Emptied
    BY <1>1, <1>5 DEF TransferEnd, Uncounted
  <2>2. queue = <<>> /\ batch = <<>> /\ task[s] \in {"none", "put"} /\ hand = NoSample
    BY <2>1 DEF Emptied, Caught
  <2>3. UNCHANGED <<queue, batch, task, hand, made_by>>
    BY <1>5 DEF TransferEnd, mqVars, taskVars, procVars
  <2>4. ~Stamped(s)'
    BY <2>2, <2>3, EmptyLine DEF Stamped
  <2> QED BY <1>1, <1>2, <1>4, <2>2, <2>3, <2>4 DEF NoSample
<1>6. CASE ~TransferEnd
  <2>1. weights' = weights
    BY <1>1, <1>6, SubmittedSteps
  <2>2. /\ \/ made_by'[s] = made_by[s]
           \/ /\ ServerAdmit(s) \/ ServerAnswer(s)
              /\ made_by'[s] = made_by[s] \cup {weights}
        /\ task'[s] \in {"created", "requested"} =>
             task[s] \in {"created", "requested"} \/ (ProcSubmit /\ s = hand)
    BY <1>1, SubmittedSteps
  <2>3. ASSUME s > Got' \/ s = hand' \/ task'[s] \in {"created", "requested"}
        PROVE  made_by'[s] = {}
    <3>1. s = hand' => s = hand \/ s > Got
      <4>1. hand' # hand => TakePending \/ hand' = NoSample
        <5>1. ~TakeCancelled
          BY <1>1 DEF TakeCancelled
        <5> QED BY <1>1, <5>1, OnlyProcessorMoves, ProcessorWay
      <4>2. TakePending => hand' > Got
        BY <1>1, FedInOrder
      <4> QED BY <1>1, <4>1, <4>2 DEF NoSample
    <3>2. made_by[s] = {}
      BY <1>2, <1>4, <2>2, <2>3, <3>1
    <3>3. ~(ServerAdmit(s) \/ ServerAnswer(s))
      <4> SUFFICES ASSUME ServerAdmit(s) \/ ServerAnswer(s) PROVE FALSE
        OBVIOUS
      <4>1. task[s] \in UnderWay /\ task'[s] \notin {"created", "requested"}
        BY <1>1 DEF ServerAdmit, ServerAnswer, UnderWay, TypeInv, SampleTypes
      <4> QED BY <1>3, <1>4, <2>3, <3>1, <4>1
    <3> QED BY <2>2, <3>2, <3>3
  <2>4. ASSUME task'[s] \in {"generating", "complete"} \/ Stamped(s)'
        PROVE  made_by'[s] = {weights}
    <3>1. \/ task[s] \in {"generating", "complete"} \/ Stamped(s)
          \/ ServerAdmit(s) /\ ~server_paused
      BY <1>1, <2>4, StampedSteps DEF TaskComplete
    <3>2. CASE task[s] \in {"generating", "complete"} \/ Stamped(s)
      BY <1>2, <2>2, <3>2
    <3>3. CASE ServerAdmit(s) /\ ~server_paused
      <4>1. made_by[s] = {}
        BY <1>2, <3>3 DEF ServerAdmit
      <4>2. made_by' = [made_by EXCEPT ![s] = made_by[s] \cup {weights}]
        BY <3>3 DEF ServerAdmit, Rejects
      <4> QED BY <1>1, <4>1, <4>2 DEF TypeInv, TrainerTypes
    <3> QED BY <3>1, <3>2, <3>3
  <2>5. ASSUME Stamped(s)' PROVE stamp'[s] = weights
    <3>1. CASE Stamped(s)
      BY <1>1, <1>2, <3>1, KeptStamps
    <3>2. CASE TaskComplete(s)
      <4>1. ~Emptied
        BY <3>2 DEF TaskComplete, Emptied, Caught
      <4>2. current_param_version = weights
        BY <1>1, <4>1 DEF VersionsInv, VersionsAtPhase, Arriving, Uncounted
      <4>3. stamp'[s] = current_param_version
        BY <1>1, <3>2 DEF TaskComplete, Stamp, TypeInv, SampleTypes
      <4> QED BY <4>2, <4>3
    <3> QED BY <1>1, <2>5, <3>1, <3>2, StampedSteps
  <2> QED BY <2>1, <2>3, <2>4, <2>5
<1> QED BY <1>5, <1>6

(* Who puts. *)
LEMMA PuttingSteps ==
  ASSUME TypeInv, [Next]_vars
  PROVE  /\ TransferEnd \/ put_since_update' = put_since_update \/ \E s \in Samples : QueuePut(s)
         /\ \/ queue' = queue \/ MainSignal \/ TrainerGet \/ MainClear
            \/ \E s \in Samples : QueuePut(s)
<1> USE DEF histVars, rollVars, mqVars
<1>1. CASE TransferEnd
  BY <1>1 DEF TransferEnd
<1>2. CASE EventLoop
  <2> SUFFICES put_since_update' = put_since_update /\ queue' = queue
    OBVIOUS
  <2>1. CASE Processor
    BY <2>1 DEF Processor, ProcCheck, ProcBlock, ProcSetPaused, ProcLoopDone,
       ProcCollectBegin, ProcCollect, ProcCollectNothing, ProcIdle, TakeCancelled,
       TakePending, TakeWait, ProcSubmit
  <2>2. CASE Tasks
    BY <2>2 DEF Tasks, TaskSubmit, TaskReturn, TaskComplete
  <2>3. CASE FeedSamples \/ Monitor \/ MainCoroutine
    BY <2>3 DEF FeedSamples, Monitor, MonitorTick, MonitorBlock, MonitorUnpause, MonitorLook,
       MainCoroutine, MainWake, MainBlock, MainStop
  <2>4. CASE SyncCalls
    BY <2>4 DEF SyncCalls, SyncBlock, PauseBegin, PauseCancelled, PauseGathered, PauseEnd,
       UpdateBegin, UpdateCounted, UpdateEnd, ResumeServers, ResumeEnd, ResumeEffect
  <2> QED BY <1>2, <2>1, <2>2, <2>3, <2>4 DEF EventLoop
<1>3. CASE MonitorTimer \/ Replies
  BY <1>3 DEF MonitorTimer, Replies, MainSignal, CallArrives, ServersCancel, ServersReset,
     QueueCounts, QueuePublishes, PutValidate, ServersResume
<1>4. CASE \E s \in Samples : Generation(s) \/ ServerError(s)
  BY <1>4 DEF Generation, ServerAdmit, ServerAnswer, ServerError
<1>5. CASE Trainer \/ TransferBegin \/ MainClear \/ UNCHANGED vars
  BY <1>5 DEF Trainer, TrainerLog, TrainerGet, TrainerStep, SyncWeights, FinalLog,
     FinalDecide, FinalValidLog, LogValidation, TransferBegin, MainClear, vars, GetValidate,
     UpdateParamVersion
<1> QED BY <1>1, <1>2, <1>3, <1>4, <1>5 DEF Next, Rollout, RollNext, Terminated, Transfer

(* The puts since the last synchronisation. *)
LEMMA PutInvStep ==
  ASSUME MaxRequired = Interval, BaseInv, SyncInv, [Next]_vars
  PROVE  PutInv'
<1> SUFFICES ASSUME trainer' \in Looping
             PROVE  put_since_update' = Cardinality(Consumed' \cup Queued') - weights' * Interval
  BY DEF PutInv
<1>1. /\ SystemInv /\ FlowInv /\ TypeInv /\ SampleInv /\ VersionsInv /\ BatchAt
      /\ trainer \in Looping /\ Interval \in Nat \ {0}
      /\ put_since_update = Cardinality(Consumed \cup Queued) - weights * Interval
      /\ weights * Interval \in Nat
  <2>1. /\ SystemInv /\ FlowInv /\ TypeInv /\ SampleInv /\ VersionsInv /\ BatchAt
        /\ trainer \in Looping /\ Interval \in Nat \ {0}
    BY BaseParts, LoopingBefore
  <2>2. put_since_update = Cardinality(Consumed \cup Queued) - weights * Interval
    BY <2>1 DEF SyncInv, PutInv
  <2>3. weights \in Nat /\ \A k \in Nat : k * Interval \in Nat
    BY <2>1 DEF VersionsInv
  <2> QED BY <2>1, <2>2, <2>3
<1>2. /\ Consumed \cup Queued \subseteq Samples /\ IsFiniteSet(Consumed \cup Queued)
      /\ Cardinality(Consumed \cup Queued) \in Nat
  <2>1. Consumed \cup Queued \subseteq Samples
    BY <1>1 DEF TypeInv, TrainerTypes, Consumed, Queued, ToSet
  <2>2. IsFiniteSet(Samples)
    BY Constants, FS_Interval
  <2> QED BY <2>1, <2>2, FS_Subset, FS_CardinalityType
<1>3. Line(queue, Payload)
  BY <1>1 DEF SampleInv, SampleLines
<1>4. CASE TransferEnd
  <2>1. sync = "transfer" /\ Emptied
    BY <1>1, <1>4, EmptiedInSync DEF TransferEnd, Uncounted
  <2>2. /\ Consumed = 1..Got /\ queue = <<>> /\ Got = (Base + 1) * Interval /\ Got \in Nat
    BY <2>1, BaseParts DEF Emptied, Caught, Resuming
  <2>3. weights' = sync_version /\ Base + 1 = sync_version
    BY <1>1, <1>4, <2>1 DEF TransferEnd, Base, Uncounted, VersionsInv
  <2>4. Consumed' = Consumed /\ queue' = queue /\ put_since_update' = 0
    BY <1>4 DEF TransferEnd, Consumed, mqVars
  <2>5. Queued' = {} /\ Consumed' = 1..Got /\ Cardinality(1..Got) = Got
    <3>1. ToSet(queue') = {}
      BY <2>2, <2>4, EmptyLine
    <3>2. Cardinality(1..Got) = Got
      BY <2>2, FS_Interval
    <3> QED BY <2>2, <2>4, <3>1, <3>2 DEF Queued
  <2>6. Consumed' \cup Queued' = 1..Got /\ weights' * Interval = Got
    BY <2>2, <2>3, <2>5
  <2> QED BY <2>2, <2>4, <2>5, <2>6
<1>5. ASSUME NEW s \in Samples, QueuePut(s)
      PROVE  put_since_update' = Cardinality(Consumed' \cup Queued') - weights' * Interval
  <2>1. ~Full /\ task[s] = "putting" /\ queue' = Append(queue, s)
    BY <1>5, RoomToPut DEF QueuePut, PutSample, Evicted
  <2>2. s \notin Consumed \cup Queued
    <3>1. PICK p \in Places : LocatedAt(s, p)
      BY <1>1, PlaceOf
    <3> QED BY <2>1, <3>1 DEF LocatedAt, UnderWay, Consumed, Queued
  <2>3. ToSet(queue') = ToSet(queue) \cup {s}
    <3>1. s \in Payload /\ s \notin ToSet(queue)
      BY <2>2, Constants DEF Queued
    <3> QED BY <1>3, <2>1, <3>1, LongerLine
  <2>4. put_since_update' = put_since_update + 1 /\ weights' = weights
    BY <1>5 DEF QueuePut, serverVars
  <2>5. Consumed' = Consumed
    <3>1. task' # task
      BY <1>1, <1>5, <2>1 DEF QueuePut, TypeInv, SampleTypes
    <3>2. ~TrainerGet
      BY <3>1 DEF TrainerGet, rollVars, taskVars
    <3> QED BY <1>1, <3>2, TakenSteps
  <2>6. Consumed' \cup Queued' = (Consumed \cup Queued) \cup {s}
    BY <2>3, <2>5 DEF Queued
  <2>7. Cardinality((Consumed \cup Queued) \cup {s}) = Cardinality(Consumed \cup Queued) + 1
    BY <1>2, <2>2, FS_AddElement
  <2>8. Cardinality(Consumed' \cup Queued') = Cardinality(Consumed \cup Queued) + 1
    BY <2>6, <2>7
  <2> HIDE DEF Consumed, Queued
  <2> QED BY <1>1, <1>2, <2>4, <2>8
<1>6. CASE ~TransferEnd /\ ~\E s \in Samples : QueuePut(s)
  <2>1. put_since_update' = put_since_update /\ weights' = weights
    <3>1. 1 \in Samples
      BY Constants
    <3> QED BY <1>1, <1>6, <3>1, PuttingSteps, SubmittedSteps
  <2>2. Consumed' \cup Queued' = Consumed \cup Queued
    <3>1. CASE /\ queue # <<>> /\ queue' = Tail(queue)
               /\ Consumed' = Consumed \cup {Head(queue)} /\ Head(queue) \in Samples
      <4>1. ToSet(queue') = ToSet(queue) \ {Head(queue)} /\ Head(queue) \in ToSet(queue)
        BY <1>3, <3>1, ShorterLine
      <4> QED BY <3>1, <4>1 DEF Queued
    <3>2. CASE Consumed' = Consumed /\ queue' = queue
      BY <3>2 DEF Queued
    <3>3. CASE Consumed' = Consumed /\ MainSignal
      <4>1. ~Full /\ queue' = Append(queue, STOP) /\ STOP \notin ToSet(queue)
        BY <1>1, <3>3, RoomToPut DEF MainSignal, PutSample, Evicted, SampleInv, SampleLines
      <4>2. ToSet(queue') = ToSet(queue) \cup {STOP} /\ STOP \notin Samples
        <5>1. STOP \in Payload /\ STOP \notin Samples
          BY Constants
        <5> QED BY <1>3, <4>1, <5>1, LongerLine
      <4> QED BY <3>3, <4>2 DEF Queued
    <3>4. ~MainClear
      BY <1>1 DEF MainClear, Finished, Looping
    <3>5. TrainerGet /\ Rollout => queue' = queue
      <4> SUFFICES ASSUME TrainerGet, Rollout, queue # <<>> PROVE FALSE
        BY DEF TrainerGet, GetSample, Recheck, Take, Wait, ReturnNone
      <4>1. UNCHANGED <<trainer, batch>> /\ batch \in Seq(Samples)
        BY <1>1 DEF Rollout, trainerVars, TypeInv, TrainerTypes
      <4>2. Receive /\ trainer = "collect"
        BY DEF TrainerGet
      <4>3. Append(batch, Head(queue)) # batch
        <5>1. Len(Append(batch, Head(queue))) = Len(batch) + 1 /\ Len(batch) \in Nat
          BY <4>1
        <5> QED BY <5>1
      <4> QED BY <4>1, <4>2, <4>3 DEF Receive
    <3> QED BY <1>1, <1>6, <3>1, <3>2, <3>3, <3>4, <3>5, TakenSteps, PuttingSteps
  <2> QED BY <1>1, <2>1, <2>2
<1> QED BY <1>4, <1>5, <1>6

(* In synchronous mode as many samples are required as an interval has.    *)
LEMMA RequiredIsInterval == StalenessPct = 0 => MaxRequired = Interval
<1> SUFFICES ASSUME StalenessPct = 0 PROVE MaxRequired = Interval
  OBVIOUS
<1>1. Required \in Nat /\ Trigger \in Nat /\ Interval \in Nat
  BY Constants, Intervals
<1>2. Required * (100 + StalenessPct) * Trigger = 100 * Interval
  BY <1>1 DEF Interval
<1>3. \A n \in Nat : (100 * n) \div 100 = n
  OBVIOUS
<1> QED BY <1>1, <1>2, <1>3 DEF MaxRequired

(* The start. *)
LEMMA NothingGot == Init => Got = 0 /\ pending = <<>>
<1>1. Len(<<>>) = 0 /\ 0 - 0 = 0
  OBVIOUS
<1>2. Init => fed = 0 /\ pending = <<>>
  BY DEF Init, RollInit
<1> QED BY <1>1, <1>2 DEF Got

(* Nothing is taken yet, and nothing has ended. *)
LEMMA BaseInvInit == Init => BaseInv
<1> SUFFICES ASSUME Init PROVE BaseInv
  OBVIOUS
<1>1. SystemInv
  BY SystemInvInit
<1>2. FlowInv
  <2>1. Got = 0 /\ pending = <<>> /\ batch = <<>> /\ trained = {} /\ trainer = "start"
        /\ trainer_version = 0 /\ local_trigger_step = 1 /\ DONE \in Nat
    BY Constants, NothingGot DEF Init
  <2>2. Consumed = {}
    BY <2>1, EmptyLine DEF Consumed
  <2>3. Taken = 0
    BY <2>1, Intervals, Constants DEF Taken
  <2>4. BatchAt
    BY <2>1 DEF BatchAt
  <2>5. Cardinality(Consumed) = Taken
    BY <2>2, <2>3, FS_EmptySet
  <2> QED BY <2>1, <2>4, <2>5 DEF FlowInv
<1>3. EndInv
  BY DEF EndInv, Init, RollInit, Looping
<1> QED BY <1>1, <1>2, <1>3 DEF BaseInv

(* The three invariants hold together. *)
LEMMA BaseInvStep == BaseInv /\ [Next]_vars => BaseInv'
  BY SystemInvStep, FlowInvStep, EndInvStep DEF BaseInv

(* What the trainer took, and how the system comes to its end, for every   *)
(* staleness threshold.                                                    *)
LEMMA BaseInvHolds == Spec => []BaseInv
  BY BaseInvInit, BaseInvStep, PTL DEF Spec

(* Synchronous mode starts with nothing under way. *)
LEMMA SyncInvInit == MaxRequired = Interval /\ Init => SyncInv
<1> SUFFICES ASSUME MaxRequired = Interval, Init PROVE SyncInv
  OBVIOUS
<1>1. /\ BaseInv /\ Interval \in Nat \ {0} /\ Got = 0 /\ Base = 0 /\ 0 * Interval = 0
      /\ sync = "idle" /\ ppc = "check" /\ pmode = "run" /\ trainer = "start"
      /\ monitor = "sleep" /\ staleness_samples = 0
  <2>1. BaseInv /\ Interval \in Nat \ {0} /\ Got = 0
    BY BaseInvInit, BaseParts, NothingGot
  <2>2. /\ sync = "idle" /\ ppc = "check" /\ pmode = "run" /\ trainer = "start"
        /\ monitor = "sleep" /\ staleness_samples = 0 /\ sync_version = 0
    BY DEF Init, RollInit
  <2> QED BY <2>1, <2>2 DEF Base, Uncounted
<1>2. PaceInv /\ MonitorFirst /\ Survives
  BY <1>1 DEF PaceInv, MonitorFirst, Survives
<1>3. StillInv
  BY <1>1 DEF StillInv, Still, Gathered, Silenced, Resuming, Uncounted
<1>4. FirstWait /\ Uncut
  BY <1>1 DEF FirstWait, Uncut, Init, RollInit, LockFree
<1>5. /\ queue = <<>> /\ cancelled = <<>> /\ batch = <<>> /\ trained = {} /\ failed = {}
      /\ hand = NoSample /\ task = [s \in Samples |-> "none"]
      /\ made_by = [s \in Samples |-> {}] /\ dropped = {} /\ put_since_update = 0 /\ weights = 0
      /\ ToSet(<<>>) = {} /\ Cardinality({}) = 0
  BY EmptyLine, FS_EmptySet DEF Init, RollInit
<1>6. RoomInv
  <2>1. AtWork = {}
    BY <1>5, Constants DEF AtWork, Outstanding, UnderWay, NoSample
  <2> QED BY <1>1, <1>5, <2>1 DEF RoomInv
<1>7. FreshInv
  BY <1>5 DEF FreshInv, Stamped
<1>8. PutInv
  <2>1. Consumed \cup Queued = {}
    BY <1>5 DEF Consumed, Queued
  <2>2. Cardinality(Consumed \cup Queued) = 0 /\ weights * Interval = 0
    BY <1>1, <1>5, <2>1
  <2> QED BY <1>5, <2>2 DEF PutInv
<1> QED BY <1>2, <1>3, <1>4, <1>6, <1>7, <1>8 DEF SyncInv

(* Every step keeps it, conjunct by conjunct. *)
LEMMA SyncInvStep ==
  MaxRequired = Interval /\ BaseInv /\ SyncInv /\ [Next]_vars => SyncInv'
<1> SUFFICES ASSUME MaxRequired = Interval, BaseInv, SyncInv, [Next]_vars PROVE SyncInv'
  OBVIOUS
<1>1. BaseInv'
  BY BaseInvStep
<1>2. PaceInv'
  BY PaceInvStep
<1>3. MonitorFirst' /\ StillInv' /\ FirstWait'
  BY MonitorFirstStep, StillInvStep, FirstWaitStep
<1>4. RoomInv'
  BY <1>1, <1>2, RoomInvStep
<1>5. Uncut' /\ FreshInv' /\ PutInv' /\ Survives'
  BY UncutStep, FreshInvStep, PutInvStep, SurvivesStep
<1> QED BY <1>2, <1>3, <1>4, <1>5 DEF SyncInv

(* Both invariants, from the start on. *)
LEMMA SyncInvHolds ==
  ASSUME StalenessPct = 0
  PROVE  Spec => [](BaseInv /\ SyncInv)
<1>1. MaxRequired = Interval
  BY RequiredIsInterval
<1>2. Init => BaseInv /\ SyncInv
  BY <1>1, BaseInvInit, SyncInvInit
<1>3. (BaseInv /\ SyncInv) /\ [Next]_vars => (BaseInv /\ SyncInv)'
  BY <1>1, BaseInvStep, SyncInvStep
<1> QED BY <1>2, <1>3, PTL DEF Spec

(* With a staleness threshold of zero nothing is dropped or cut, the       *)
(* processor survives every pause, and what the trainer trains on was      *)
(* made by the weights it has just sent (fully_async_rollouter.py,         *)
(* param_sync.py).                                                         *)
THEOREM SynchronousIsSynchronous ==
  ASSUME StalenessPct = 0
  PROVE  Spec => []SynchronousMode
<1>1. BaseInv /\ SyncInv => SynchronousMode
  <2> SUFFICES ASSUME BaseInv, SyncInv PROVE SynchronousMode
    OBVIOUS
  <2>1. NothingCut /\ ProcessorSurvives /\ dropped = {}
    BY DEF SyncInv, Uncut, Survives, RoomInv, NothingCut, ProcessorSurvives
  <2>2. ASSUME trainer \in {"collect", "train"}, NEW s \in ToSet(batch)
        PROVE  stamp[s] = trainer_version /\ made_by[s] = {trainer_version}
    <3>1. weights = trainer_version
      BY <2>2, BaseParts DEF VersionsInv, VersionsAtPhase, TrainerAhead
    <3>2. s \in Samples /\ Stamped(s) /\ trainer \in Looping
      BY <2>2, BaseParts DEF TypeInv, TrainerTypes, ToSet, Stamped, Looping
    <3> QED BY <3>1, <3>2 DEF SyncInv, FreshInv
  <2> QED BY <2>1, <2>2 DEF SynchronousMode
<1> QED BY <1>1, SyncInvHolds, PTL

(* With a staleness threshold of zero exactly required_samples *           *)
(* trigger_parameter_sync_step samples are put between two weight          *)
(* synchronisations.                                                       *)
THEOREM FixedCount ==
  ASSUME StalenessPct = 0
  PROVE  Spec => FixedNumber
<1>1. BaseInv /\ SyncInv /\ [Next]_vars =>
        [weights' # weights /\ trainer # "finalSync" => put_since_update = MaxRequired]_vars
  <2> SUFFICES ASSUME BaseInv, SyncInv, [Next]_vars, weights' # weights, trainer # "finalSync"
               PROVE  put_since_update = MaxRequired
    OBVIOUS
  <2>1. MaxRequired = Interval
    BY RequiredIsInterval
  <2>2. TransferEnd
    <3>1. 1 \in Samples
      BY Constants
    <3> QED BY <3>1, SubmittedSteps, BaseParts
  <2>3. sync = "transfer" /\ trainer \in Looping /\ weights + 1 = sync_version /\ weights \in Nat
    BY <2>2, BaseParts DEF TransferEnd, VersionsInv, VersionsAtPhase, Pausing, Arriving, Updated,
       Looping
  <2>4. Emptied
    BY <2>1, <2>3, EmptiedInSync DEF Uncounted
  <2>5. Consumed = 1..Got /\ queue = <<>> /\ Got = (Base + 1) * Interval /\ Got \in Nat
    BY <2>3, <2>4, BaseParts DEF Emptied, Caught, Resuming
  <2>6. Base = weights
    BY <2>3 DEF Base, Uncounted
  <2>7. Cardinality(Consumed \cup Queued) = Got
    <3>1. Queued = {}
      BY <2>5, EmptyLine DEF Queued
    <3>2. Consumed \cup Queued = 1..Got
      BY <2>5, <3>1
    <3>3. Cardinality(1..Got) = Got
      BY <2>5, FS_Interval
    <3> QED BY <3>2, <3>3
  <2>8. put_since_update = Got - weights * Interval
    BY <2>3, <2>7 DEF SyncInv, PutInv
  <2>9. Got = weights * Interval + Interval /\ weights * Interval \in Int /\ Interval \in Nat
    BY <2>5, <2>6, BaseParts
  <2> QED BY <2>1, <2>8, <2>9
<1> QED BY <1>1, SyncInvHolds, PTL DEF Spec, FixedNumber
===============================================================================
