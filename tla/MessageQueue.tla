----------------------------- MODULE MessageQueue -----------------------------
(***************************************************************************)
(* The MessageQueue actor of recipe/fully_async_policy/message_queue.py:   *)
(* a bounded deque of rollout samples guarded by one asyncio lock, with a  *)
(* condition on which get_sample waits, and an unbounded queue of          *)
(* validation results.                                                     *)
(*                                                                         *)
(* Every method runs under the lock and suspends nowhere but in            *)
(* condition.wait(), so each is one action, and get_sample is two: the     *)
(* call (GetSample) and the re-check of its while loop after a wake-up     *)
(* (Recheck).  Between a notify_all() and the re-check any other method    *)
(* may run: the woken coroutine has to take the lock again.                *)
(***************************************************************************)
EXTENDS Naturals, Sequences, FiniteSets

CONSTANTS
  Payload,          (* what can be put: samples, and the None sentinel       *)
  Consumers,        (* the clients that call get_sample                      *)
  None,             (* what get_sample returns once shut down and empty      *)
  max_queue_size,   (* capacity of the deque                                 *)
  MaxPuts           (* bound of the model on the number of put_sample calls  *)

ASSUME MQAssumption ==
  /\ max_queue_size \in Nat \ {0}
  /\ MaxPuts \in Nat

VARIABLES
  queue,                  (* deque(maxlen=max_queue_size)                    *)
  mq_running,             (* self.running                                    *)
  mq_version,             (* self.current_param_version                      *)
  val_queue,              (* versions of the queued validation results       *)
  getter,                 (* consumer -> where its get_sample call stands    *)
  total_produced,
  total_consumed,
  dropped_samples,
  cleared                 (* history: samples removed by clear_queue         *)

mqVars == <<queue, mq_running, mq_version, val_queue, getter,
            total_produced, total_consumed, dropped_samples, cleared>>
mqCounters == <<total_produced, total_consumed, dropped_samples, cleared>>

GetterState == {"idle", "waiting", "notified"}

MQInit ==
  /\ queue = <<>>
  /\ mq_running = TRUE
  /\ mq_version = 0
  /\ val_queue = <<>>
  /\ getter = [c \in Consumers |-> "idle"]
  /\ total_produced = 0
  /\ total_consumed = 0
  /\ dropped_samples = 0
  /\ cleared = 0

-----------------------------------------------------------------------------
Full == Len(queue) >= max_queue_size

(* Definitions named ...Mutant are plausible bugs, each of the definition  *)
(* that follows it and with the same parameters; nothing uses them.  They  *)
(* show that the properties are able to fail (README, "Mutants").          *)
NotifyAllMutant == UNCHANGED getter

(* self._consumer_condition.notify_all() *)
NotifyAll ==
  getter' = [c \in Consumers |->
               IF getter[c] = "waiting" THEN "notified" ELSE getter[c]]

EvictedMutant == IF Full THEN SubSeq(queue, 1, Len(queue) - 1) ELSE queue

(* The deque after popleft() of the oldest sample when it is full. *)
Evicted == IF Full THEN Tail(queue) ELSE queue

PutSample(x) ==
  /\ total_produced < MaxPuts
  /\ queue' = Append(Evicted, x)
  /\ dropped_samples' = dropped_samples + (IF Full THEN 1 ELSE 0)
  /\ total_produced' = total_produced + 1
  /\ NotifyAll
  /\ UNCHANGED <<mq_running, mq_version, val_queue, total_consumed, cleared>>

(* The popleft() at the end of get_sample: the consumer gets Head(queue). *)
Take(c) ==
  /\ queue # <<>>
  /\ queue' = Tail(queue)
  /\ total_consumed' = total_consumed + 1
  /\ getter' = [getter EXCEPT ![c] = "idle"]
  /\ UNCHANGED <<mq_running, mq_version, val_queue, total_produced,
                 dropped_samples, cleared>>

(* The while loop's condition holds: condition.wait(). *)
Wait(c) ==
  /\ queue = <<>> /\ mq_running
  /\ getter' = [getter EXCEPT ![c] = "waiting"]
  /\ UNCHANGED <<queue, mq_running, mq_version, val_queue, mqCounters>>

(* Shut down and empty: the call returns None. *)
ReturnNone(c) ==
  /\ queue = <<>> /\ ~mq_running
  /\ getter' = [getter EXCEPT ![c] = "idle"]
  /\ UNCHANGED <<queue, mq_running, mq_version, val_queue, mqCounters>>

GetSample(c) ==
  /\ getter[c] = "idle"
  /\ Take(c) \/ Wait(c) \/ ReturnNone(c)

Recheck(c) ==
  /\ getter[c] = "notified"
  /\ Take(c) \/ Wait(c) \/ ReturnNone(c)

UpdateParamVersion(v) ==
  /\ mq_version' = v
  /\ UNCHANGED <<queue, mq_running, val_queue, getter, mqCounters>>

ClearQueue ==
  /\ queue' = <<>>
  /\ cleared' = cleared + Len(queue)
  /\ UNCHANGED <<mq_running, mq_version, val_queue, getter, total_produced,
                 total_consumed, dropped_samples>>

Shutdown ==
  /\ mq_running' = FALSE
  /\ NotifyAll
  /\ UNCHANGED <<queue, mq_version, val_queue, mqCounters>>

PutValidate(v) ==
  /\ val_queue' = Append(val_queue, v)
  /\ UNCHANGED <<queue, mq_running, mq_version, getter, mqCounters>>

(* get_validate returns None at once when there is no result. *)
GetValidate ==
  /\ val_queue' = IF val_queue = <<>> THEN <<>> ELSE Tail(val_queue)
  /\ UNCHANGED <<queue, mq_running, mq_version, getter, mqCounters>>

===============================================================================
