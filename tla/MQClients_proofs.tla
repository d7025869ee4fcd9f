---------------------------- MODULE MQClients_proofs ----------------------------
(***************************************************************************)
(* Proofs, for every set of payloads and consumers, every capacity and     *)
(* every bound, of what the runs of MQClients check on small instances.    *)
(*                                                                         *)
(* The three invariants are inductive one after the other: TypeOK alone,   *)
(* then NoLostWakeup and QueueIsSuffix under TypeOK; the refinement of     *)
(* LossyFifo needs all but NoLostWakeup.                                   *)
(***************************************************************************)
EXTENDS MQClients, TLAPS

(* What put_sample's eviction leaves. *)
LEMMA EvictedFacts ==
  ASSUME queue \in Seq(Payload), Len(queue) <= max_queue_size
  PROVE  /\ Evicted \in Seq(Payload)
         /\ Len(Evicted) < max_queue_size
         /\ Len(Evicted) = Len(queue) - (IF Full THEN 1 ELSE 0)
         /\ Full => queue # <<>>
         /\ \A i \in 1..Len(Evicted) :
              Evicted[i] = queue[i + (IF Full THEN 1 ELSE 0)]
<1>1. CASE Full
  <2>1. queue # <<>> /\ Len(queue) = max_queue_size
    BY <1>1, MQAssumption DEF Full
  <2>2. Evicted = Tail(queue)
    BY <1>1 DEF Evicted
  <2> QED BY <1>1, <2>1, <2>2, MQAssumption
<1>2. CASE ~Full
  BY <1>2, MQAssumption DEF Full, Evicted
<1> QED BY <1>1, <1>2

(* notify_all wakes every waiting consumer and touches no other. *)
LEMMA NotifyAllFacts ==
  ASSUME getter \in [Consumers -> GetterState], NotifyAll
  PROVE  /\ getter' \in [Consumers -> GetterState]
         /\ \A c \in Consumers : getter'[c] # "waiting"
  BY DEF NotifyAll, GetterState

-----------------------------------------------------------------------------
(* The state keeps its type, and the deque never exceeds max_queue_size:   *)
(* put_sample makes room before it appends (message_queue.py:81-86).       *)
THEOREM TypeCorrect == Spec => []TypeOK
<1>1. Init => TypeOK
  BY MQAssumption DEF Init, MQInit, TypeOK, GetterState
<1>2. TypeOK /\ [Next]_vars => TypeOK'
  <2> SUFFICES ASSUME TypeOK, [Next]_vars
               PROVE  TypeOK'
    OBVIOUS
  <2> USE DEF TypeOK, mqCounters
  <2>1. ASSUME NEW x \in Payload, Put(x)
        PROVE  TypeOK'
    <3>1. PutSample(x) /\ log' = Append(log, x) /\ UNCHANGED result
      BY <2>1 DEF Put
    <3>2. queue' \in Seq(Payload) /\ Len(queue') <= max_queue_size
      BY <3>1, EvictedFacts, MQAssumption DEF PutSample
    <3>3. getter' \in [Consumers -> GetterState]
      BY <3>1, NotifyAllFacts DEF PutSample
    <3> QED BY <3>1, <3>2, <3>3 DEF PutSample
  <2>2. ASSUME NEW c \in Consumers, Answer(c)
        PROVE  TypeOK'
    <3>1. CASE Take(c) /\ result' = [result EXCEPT ![c] = Head(queue)]
      <4>1. Tail(queue) \in Seq(Payload) /\ Len(Tail(queue)) <= max_queue_size
            /\ Head(queue) \in Payload
        BY <3>1, MQAssumption DEF Take
      <4> QED BY <2>2, <3>1, <4>1 DEF Take, Answer, GetterState
    <3>2. CASE Wait(c) /\ UNCHANGED result
      BY <2>2, <3>2 DEF Wait, Answer, GetterState
    <3>3. CASE ReturnNone(c) /\ result' = [result EXCEPT ![c] = None]
      BY <2>2, <3>3 DEF ReturnNone, Answer, GetterState
    <3> QED BY <2>2, <3>1, <3>2, <3>3 DEF Answer
  <2>3. CASE Other
    <3>1. ASSUME NEW v \in 0..MaxVersion, UpdateParamVersion(v)
          PROVE  TypeOK'
      BY <2>3, <3>1 DEF UpdateParamVersion, Other
    <3>2. CASE ClearQueue
      BY <2>3, <3>2, MQAssumption DEF ClearQueue, Other
    <3>3. CASE Shutdown
      BY <2>3, <3>3, NotifyAllFacts DEF Shutdown, Other
    <3>4. CASE PutValidate(mq_version)
      BY <2>3, <3>4 DEF PutValidate, Other
    <3>5. CASE GetValidate
      BY <2>3, <3>5 DEF GetValidate, Other
    <3> QED BY <2>3, <3>1, <3>2, <3>3, <3>4, <3>5 DEF Other
  <2>4. CASE UNCHANGED vars
    BY <2>4 DEF vars, mqVars
  <2> QED BY <2>1, <2>2, <2>3, <2>4 DEF Next, Call, Resume
<1> QED BY <1>1, <1>2, PTL DEF Spec

-----------------------------------------------------------------------------
(* No consumer sleeps in condition.wait() while there is a sample to take  *)
(* or after the shutdown (get_sample's while loop, message_queue.py:105,   *)
(* against the notify_all of put_sample and shutdown).                     *)
THEOREM NoWakeupIsLost == Spec => []NoLostWakeup
<1>1. Init => NoLostWakeup
  BY DEF Init, MQInit, NoLostWakeup
<1>2. TypeOK /\ NoLostWakeup /\ [Next]_vars => NoLostWakeup'
  <2> SUFFICES ASSUME TypeOK, NoLostWakeup, [Next]_vars
               PROVE  NoLostWakeup'
    OBVIOUS
  <2> USE DEF NoLostWakeup, mqCounters
  <2>0. getter \in [Consumers -> GetterState]
    BY DEF TypeOK
  <2>1. ASSUME NEW x \in Payload, Put(x)
        PROVE  NoLostWakeup'
    BY <2>0, <2>1, NotifyAllFacts DEF Put, PutSample
  <2>2. ASSUME NEW c \in Consumers, Answer(c)
        PROVE  NoLostWakeup'
    BY <2>0, <2>2 DEF Answer, Take, Wait, ReturnNone
  <2>3. CASE Other
    <3>1. ASSUME NEW v \in 0..MaxVersion, UpdateParamVersion(v)
          PROVE  NoLostWakeup'
      BY <3>1 DEF UpdateParamVersion
    <3>2. CASE ClearQueue
      BY <3>2 DEF ClearQueue
    <3>3. CASE Shutdown
      BY <2>0, <3>3, NotifyAllFacts DEF Shutdown
    <3>4. CASE PutValidate(mq_version)
      BY <3>4 DEF PutValidate
    <3>5. CASE GetValidate
      BY <3>5 DEF GetValidate
    <3> QED BY <2>3, <3>1, <3>2, <3>3, <3>4, <3>5 DEF Other
  <2>4. CASE UNCHANGED vars
    BY <2>4 DEF vars, mqVars
  <2> QED BY <2>1, <2>2, <2>3, <2>4 DEF Next, Call, Resume
<1> QED BY <1>1, <1>2, TypeCorrect, PTL DEF Spec

-----------------------------------------------------------------------------
(* What the steps do to the counters and the log, in the terms of the      *)
(* invariant: Departed moves by the samples that leave the queue.          *)
LEMMA PutFacts ==
  ASSUME TypeOK, NEW x \in Payload, Put(x)
  PROVE  /\ log' = Append(log, x) /\ queue' = Append(Evicted, x)
         /\ Departed' = Departed + (IF Full THEN 1 ELSE 0)
         /\ total_produced' = total_produced + 1
         /\ UNCHANGED <<mq_running, result>>
  BY DEF Put, PutSample, TypeOK, Departed

LEMMA TakeFacts ==
  ASSUME TypeOK, NEW c \in Consumers, Take(c)
  PROVE  /\ queue # <<>> /\ queue' = Tail(queue)
         /\ Departed' = Departed + 1
         /\ UNCHANGED <<mq_running, total_produced>>
  BY DEF Take, TypeOK, Departed

LEMMA ClearFacts ==
  ASSUME TypeOK, ClearQueue
  PROVE  /\ queue' = <<>> /\ Departed' = Departed + Len(queue)
         /\ UNCHANGED <<mq_running, total_produced>>
  BY DEF ClearQueue, TypeOK, Departed

(* The other steps leave all of them alone. *)
LEMMA IdleFacts ==
  ASSUME \/ \E c \in Consumers : Wait(c) \/ ReturnNone(c)
         \/ \E v \in 0..MaxVersion : UpdateParamVersion(v)
         \/ Shutdown \/ PutValidate(mq_version) \/ GetValidate
  PROVE  /\ UNCHANGED <<queue, total_produced>> /\ Departed' = Departed
         /\ ~Shutdown => UNCHANGED mq_running
  BY DEF Wait, ReturnNone, UpdateParamVersion, Shutdown, PutValidate, GetValidate,
         mqCounters, Departed

(* Every sample put is in the queue, consumed, dropped or cleared, and the *)
(* queue is the end of the log: no step of the queue loses, repeats or     *)
(* reorders a sample without counting it.                                  *)
THEOREM SamplesAccounted == Spec => []QueueIsSuffix
<1>1. Init => QueueIsSuffix
  BY DEF Init, MQInit, QueueIsSuffix, Departed
<1>2. TypeOK /\ QueueIsSuffix /\ [Next]_vars => QueueIsSuffix'
  <2> SUFFICES ASSUME TypeOK, QueueIsSuffix, [Next]_vars
               PROVE  QueueIsSuffix'
    OBVIOUS
  <2>0. /\ queue \in Seq(Payload) /\ log \in Seq(Payload) /\ Departed \in Nat
        /\ Len(queue) <= max_queue_size
    BY DEF TypeOK, Departed
  <2>1. ASSUME NEW x \in Payload, Put(x)
        PROVE  QueueIsSuffix'
    <3> DEFINE d == IF Full THEN 1 ELSE 0
    <3>1. /\ log' = Append(log, x) /\ queue' = Append(Evicted, x)
          /\ Departed' = Departed + d /\ total_produced' = total_produced + 1
      BY <2>1, PutFacts
    <3>2. /\ Evicted \in Seq(Payload) /\ Len(Evicted) = Len(queue) - d
          /\ d \in {0, 1}
          /\ \A i \in 1..Len(Evicted) : Evicted[i] = queue[i + d]
      BY <2>0, EvictedFacts
    <3> HIDE DEF d
    <3>3. /\ Len(log') = Len(log) + 1 /\ Len(queue') = Len(queue) - d + 1
      BY <2>0, <3>1, <3>2
    <3>4. ASSUME NEW i \in 1..Len(queue')
          PROVE  queue'[i] = log'[Departed' + i]
      <4>1. CASE i = Len(queue')
        BY <2>0, <3>1, <3>2, <3>3, <4>1 DEF QueueIsSuffix
      <4>2. CASE i # Len(queue')
        <5>1. i \in 1..Len(Evicted) /\ i + d \in 1..Len(queue)
          BY <2>0, <3>2, <3>3, <4>2
        <5>2. queue'[i] = queue[i + d]
          BY <3>1, <3>2, <5>1
        <5>3. queue[i + d] = log[Departed + (i + d)]
          BY <5>1 DEF QueueIsSuffix
        <5>4. Departed + (i + d) \in 1..Len(log)
          BY <2>0, <3>2, <5>1 DEF QueueIsSuffix
        <5>5. log'[Departed + (i + d)] = log[Departed + (i + d)]
          BY <2>0, <3>1, <5>4
        <5>6. Departed' + i = Departed + (i + d)
          BY <2>0, <3>1, <3>2
        <5> QED BY <5>2, <5>3, <5>5, <5>6
      <4> QED BY <4>1, <4>2
    <3>5. total_produced' = Len(log') /\ Departed' + Len(queue') = Len(log')
      BY <2>0, <3>1, <3>2, <3>3 DEF QueueIsSuffix
    <3> QED BY <3>4, <3>5 DEF QueueIsSuffix
  <2>2. ASSUME NEW c \in Consumers, Take(c), UNCHANGED log
        PROVE  QueueIsSuffix'
    <3>1. /\ queue # <<>> /\ queue' = Tail(queue) /\ Departed' = Departed + 1
          /\ total_produced' = total_produced
      BY <2>2, TakeFacts
    <3>2. /\ Len(queue') = Len(queue) - 1
          /\ \A i \in 1..Len(queue') : queue'[i] = queue[i + 1] /\ i + 1 \in 1..Len(queue)
      BY <2>0, <3>1
    <3>3. \A i \in 1..Len(queue') : queue'[i] = log[Departed + (i + 1)]
      BY <3>2 DEF QueueIsSuffix
    <3>4. \A i \in 1..Len(queue') : Departed + (i + 1) = Departed' + i
      BY <2>0, <3>1
    <3> QED BY <2>0, <2>2, <3>1, <3>2, <3>3, <3>4 DEF QueueIsSuffix
  <2>3. CASE ClearQueue /\ UNCHANGED log
    BY <2>0, <2>3, ClearFacts DEF QueueIsSuffix
  <2>4. CASE UNCHANGED <<queue, total_produced, log>> /\ Departed' = Departed
    BY <2>4 DEF QueueIsSuffix
  <2>5. CASE UNCHANGED vars
    BY <2>4, <2>5 DEF vars, mqVars, Departed
  <2> QED
    BY <2>1, <2>2, <2>3, <2>4, <2>5, IdleFacts DEF Next, Call, Resume, Answer, Other
<1> QED BY <1>1, <1>2, TypeCorrect, PTL DEF Spec

-----------------------------------------------------------------------------
(* The message queue implements the abstract lossy FIFO: whatever the      *)
(* interleaving of its coroutines, an answered get_sample hands out the    *)
(* oldest sample that is left, and only a full queue skips one.            *)
THEOREM FifoImplemented == Spec => ImplementsFifo
<1>1. Init => Fifo!Init
  BY DEF Init, MQInit, Fifo!Init, Departed
<1>2. TypeOK /\ QueueIsSuffix /\ [Next]_vars => [Fifo!Next]_Fifo!fifoVars
  <2> SUFFICES ASSUME TypeOK, QueueIsSuffix, [Next]_vars
               PROVE  [Fifo!Next]_Fifo!fifoVars
    OBVIOUS
  <2>0. /\ queue \in Seq(Payload) /\ log \in Seq(Payload) /\ Departed \in Nat
        /\ Len(log) = Departed + Len(queue)
    <3>1. queue \in Seq(Payload) /\ log \in Seq(Payload) /\ Departed \in Nat
      BY DEF TypeOK, Departed
    <3> QED BY <3>1 DEF QueueIsSuffix
  <2>1. ASSUME NEW x \in Payload, Put(x)
        PROVE  Fifo!Publish(x)
    <3>1. Full <=> Len(log) - Departed >= max_queue_size
      BY <2>0, MQAssumption DEF Full
    <3> QED BY <2>0, <2>1, <3>1, PutFacts DEF Fifo!Publish
  <2>2. ASSUME NEW c \in Consumers, Take(c), UNCHANGED log,
               result' = [result EXCEPT ![c] = Head(queue)]
        PROVE  Fifo!Deliver(c)
    <3>1. queue # <<>> /\ Departed' = Departed + 1 /\ UNCHANGED mq_running
      BY <2>2, TakeFacts
    <3>2. Head(queue) = log[Departed + 1] /\ Departed < Len(log)
      BY <2>0, <3>1 DEF QueueIsSuffix
    <3> QED BY <2>2, <3>1, <3>2 DEF Fifo!Deliver
  <2>3. ASSUME NEW c \in Consumers, ReturnNone(c), UNCHANGED log,
               result' = [result EXCEPT ![c] = None]
        PROVE  Fifo!Refuse(c)
    <3>1. queue = <<>> /\ ~mq_running /\ UNCHANGED mq_running /\ Departed' = Departed
      BY <2>3 DEF ReturnNone, mqCounters, Departed
    <3> QED BY <2>0, <2>3, <3>1 DEF Fifo!Refuse
  <2>4. CASE ClearQueue /\ UNCHANGED <<log, result>>
    <3>1. Departed' = Len(log) /\ UNCHANGED mq_running
      BY <2>0, <2>4, ClearFacts
    <3> QED BY <2>4, <3>1 DEF Fifo!Flush, Fifo!Next
  <2>5. CASE Shutdown /\ UNCHANGED <<log, result>>
    BY <2>5 DEF Shutdown, mqCounters, Departed, Fifo!Close, Fifo!Next
  <2>6. CASE UNCHANGED <<log, result, mq_running>> /\ Departed' = Departed
    BY <2>6 DEF Fifo!fifoVars
  <2>7. CASE UNCHANGED vars
    BY <2>6, <2>7 DEF vars, mqVars, Departed
  <2>8. ASSUME NEW c \in Consumers, Answer(c)
        PROVE  [Fifo!Next]_Fifo!fifoVars
    <3>1. CASE Wait(c) /\ UNCHANGED <<log, result>>
      BY <2>6, <3>1 DEF Wait, mqCounters, Departed
    <3> QED BY <2>2, <2>3, <2>8, <3>1 DEF Answer, Fifo!Next
  <2>9. CASE Other
    <3>1. ASSUME NEW v \in 0..MaxVersion, UpdateParamVersion(v)
          PROVE  [Fifo!Next]_Fifo!fifoVars
      BY <2>6, <2>9, <3>1 DEF Other, UpdateParamVersion, mqCounters, Departed
    <3>2. CASE PutValidate(mq_version) \/ GetValidate
      BY <2>6, <2>9, <3>2 DEF Other, PutValidate, GetValidate, mqCounters, Departed
    <3> QED BY <2>4, <2>5, <2>9, <3>1, <3>2 DEF Other, Fifo!Next
  <2> QED BY <2>1, <2>7, <2>8, <2>9 DEF Next, Call, Resume, Fifo!Next
<1> QED BY <1>1, <1>2, TypeCorrect, SamplesAccounted, PTL
        DEF Spec, ImplementsFifo, Fifo!Spec
===============================================================================
