------------------------------- MODULE MQClients -------------------------------
(***************************************************************************)
(* The message queue closed under any clients: every method may be called  *)
(* at any time, in any order, by any number of consumers.  This is wider   *)
(* than what the trainer and the rollouter do with it (module FullyAsync)  *)
(* and includes the methods they never call (shutdown).                    *)
(***************************************************************************)
EXTENDS MessageQueue

CONSTANTS MaxVersion, MaxValidate   (* bounds of the model *)

VARIABLES
  log,     (* history: every sample put, in order                          *)
  result   (* consumer -> what its last completed get_sample returned      *)

vars == <<mqVars, log, result>>

Init ==
  /\ MQInit
  /\ log = <<>>
  /\ result = [c \in Consumers |-> None]

Put(x) == PutSample(x) /\ log' = Append(log, x) /\ UNCHANGED result

(* Both parts of get_sample end in the same three ways. *)
Answer(c) ==
  /\ \/ Take(c) /\ result' = [result EXCEPT ![c] = Head(queue)]
     \/ Wait(c) /\ UNCHANGED result
     \/ ReturnNone(c) /\ result' = [result EXCEPT ![c] = None]
  /\ UNCHANGED log

Call(c) == getter[c] = "idle" /\ Answer(c)
Resume(c) == getter[c] = "notified" /\ Answer(c)

Other ==
  /\ \/ \E v \in 0..MaxVersion : UpdateParamVersion(v)
     \/ ClearQueue
     \/ Shutdown
     \/ Len(val_queue) < MaxValidate /\ PutValidate(mq_version)
     \/ GetValidate
  /\ UNCHANGED <<log, result>>

Next ==
  \/ \E x \in Payload : Put(x)
  \/ \E c \in Consumers : Call(c) \/ Resume(c)
  \/ Other

Spec == Init /\ [][Next]_vars

(* A woken coroutine is in the ready list of the actor's event loop. *)
FairSpec == Spec /\ \A c \in Consumers : WF_vars(Resume(c))

-----------------------------------------------------------------------------
(* The type of the state; the explicit eviction of put_sample keeps the    *)
(* deque within max_queue_size by itself, so that the silent eviction of   *)
(* deque(maxlen=...) never acts.                                           *)
TypeOK ==
  /\ queue \in Seq(Payload)
  /\ Len(queue) <= max_queue_size
  /\ log \in Seq(Payload)
  /\ mq_running \in BOOLEAN
  /\ mq_version \in Nat
  /\ val_queue \in Seq(Nat)
  /\ getter \in [Consumers -> GetterState]
  /\ total_produced \in Nat
  /\ total_consumed \in Nat
  /\ dropped_samples \in Nat
  /\ cleared \in Nat
  /\ result \in [Consumers -> Payload \cup {None}]

(* How much of the log has left the queue. *)
Departed == total_consumed + dropped_samples + cleared

(* The three counters account for every sample: the queue is exactly the  *)
(* part of the log that was not consumed, dropped or cleared, in order.   *)
(* (put_sample, get_sample and clear_queue of message_queue.py.)          *)
QueueIsSuffix ==
  /\ total_produced = Len(log)
  /\ Departed + Len(queue) = Len(log)
  /\ \A i \in 1..Len(queue) : queue[i] = log[Departed + i]

(* No lost wake-up: a consumer sleeps in condition.wait() only while there *)
(* is nothing to take and the queue is not shut down, whatever the order   *)
(* of puts, gets, clears and the shutdown.                                 *)
NoLostWakeup ==
  \A c \in Consumers : getter[c] = "waiting" => queue = <<>> /\ mq_running

(* Shutdown ends every pending and every later get_sample: nobody stays    *)
(* blocked ("Notify all waiting coroutines so they can exit").             *)
ShutdownReleases == ~mq_running ~> [](\A c \in Consumers : getter[c] = "idle")

(* The queue implements the abstract lossy FIFO. *)
Fifo == INSTANCE LossyFifo WITH
  Item <- Payload, Client <- Consumers, Capacity <- max_queue_size,
  NoItem <- None, position <- Departed, closed <- ~mq_running, answer <- result

ImplementsFifo == Fifo!Spec
===============================================================================
