------------------------------- MODULE LossyFifo -------------------------------
(***************************************************************************)
(* What the message queue promises its clients, without the deque, the     *)
(* lock, the condition and the waiting consumers: every published item has *)
(* a place in one log; a single position moves over the log, never back;   *)
(* a delivery hands out the item at the position, a publication to a full  *)
(* window of Capacity items skips exactly one item (the oldest), and only  *)
(* Flush skips more.  So each item is delivered at most once, in the order *)
(* of publication, and whatever is not delivered is older than whatever    *)
(* still can be.                                                           *)
(***************************************************************************)
EXTENDS Naturals, Sequences

CONSTANTS Item, Client, Capacity, NoItem

VARIABLES
  log,       (* everything ever published, in order                         *)
  position,  (* how many items of the log are delivered, skipped or flushed *)
  closed,
  answer     (* client -> what its last completed request returned          *)

fifoVars == <<log, position, closed, answer>>

Init ==
  /\ log = <<>>
  /\ position = 0
  /\ closed = FALSE
  /\ answer = [c \in Client |-> NoItem]

Publish(x) ==
  /\ log' = Append(log, x)
  /\ position' = IF Len(log) - position >= Capacity THEN position + 1 ELSE position
  /\ UNCHANGED <<closed, answer>>

Deliver(c) ==
  /\ position < Len(log)
  /\ answer' = [answer EXCEPT ![c] = log[position + 1]]
  /\ position' = position + 1
  /\ UNCHANGED <<log, closed>>

(* Only a closed and exhausted queue answers that there is nothing more. *)
Refuse(c) ==
  /\ closed
  /\ position = Len(log)
  /\ answer' = [answer EXCEPT ![c] = NoItem]
  /\ UNCHANGED <<log, position, closed>>

Flush ==
  /\ position' = Len(log)
  /\ UNCHANGED <<log, closed, answer>>

Close ==
  /\ closed' = TRUE
  /\ UNCHANGED <<log, position, answer>>

Next ==
  \/ \E x \in Item : Publish(x)
  \/ \E c \in Client : Deliver(c) \/ Refuse(c)
  \/ Flush
  \/ Close

Spec == Init /\ [][Next]_fifoVars
===============================================================================
