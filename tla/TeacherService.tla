---------------------------- MODULE TeacherService ----------------------------
(***************************************************************************)
(* The teacher service of on-policy distillation: get_teacher_knowledge    *)
(* splits a batch into parts, submits one future per part to a             *)
(* TeacherClient and collects the results in order; the client's threads   *)
(* gather tasks into requests and exchange them with the teacher over      *)
(* ZeroMQ REQ sockets, a proxy and REP workers.                            *)
(*                                                                         *)
(* Two programs use it: the OPD reward manager (MaxRetries = 3) and the    *)
(* GKD trainer, which does not retry (MaxRetries = 0) and goes on after a  *)
(* failed call (SkipsFailed).                                              *)
(*                                                                         *)
(* A REQ socket alternates send and recv: one whose recv has timed out     *)
(* still waits for that reply, and refuses to send.  The proxy routes a    *)
(* reply to the socket that asked, so the exchange of a thread is one      *)
(* value, wire; the request and its reply hold the prompts of the tasks    *)
(* the thread holds.  Prompt <<c, j>> is the j-th prompt of call c, and    *)
(* stands also for the teacher's knowledge of it.                          *)
(***************************************************************************)
EXTENDS Naturals, Sequences, SequencesExt

CONSTANTS
  Threads,          (* the bg_task threads of the client                      *)
  NoThread,
  num_microbatches, (* tasks of one request                                   *)
  Parts,            (* n_server_workers of get_teacher_knowledge              *)
  PartSize,         (* micro_batch_size                                       *)
  MaxRetries,       (* MAX_RETRIES of the caller                              *)
  SkipsFailed,      (* the caller goes on after a call that raised            *)
  Faults,           (* what goes wrong: "prepare", "error", "timeout"         *)
  MaxCalls          (* bound of the model on calls                            *)

(* A thread that has a task blocks for the others of its request, so the   *)
(* tasks of a call must fill whole requests.                               *)
ASSUME ServiceAssumption ==
  /\ NoThread \notin Threads
  /\ {num_microbatches, Parts, PartSize} \subseteq Nat \ {0}
  /\ Parts % num_microbatches = 0
  /\ {MaxRetries, MaxCalls} \subseteq Nat
  /\ SkipsFailed \in BOOLEAN
  /\ Faults \subseteq {"prepare", "error", "timeout"}

VARIABLES
  caller,       (* get_teacher_knowledge: "idle", "waiting" or "sleeping"     *)
  outcome,      (* how the last finished call ended                           *)
  call,
  retry_count,
  future,       (* the futures of this attempt                                *)
  awaited,      (* the future whose result() the caller waits for             *)
  collected,    (* all_teacher_topk_logps                                     *)
  task_queue,
  mutex,        (* its holder                                                 *)
  thread,       (* bg_task: "gather", "ready" (to send) or "waiting"          *)
  held,         (* its futures and batch                                      *)
  socket,       (* what the REQ socket expects: "send" or "recv"              *)
  wire,         (* its exchange: "none", "sent", "answered", "refused", "lost" *)
  faulty        (* history: the attempts of this call in which a fault struck *)

callerVars == <<caller, outcome, call, retry_count, future, awaited, collected>>
clientVars == <<task_queue, mutex, thread, held>>
serviceVars == <<callerVars, clientVars, socket, wire, faulty>>

(* input_ids[i : i + micro_batch_size] *)
Prompts(c, p) == [j \in 1..PartSize |-> <<c, (p - 1) * PartSize + j>>]
Task(c, r, p) == [call |-> c, retry |-> r, part |-> p]
Tasks(c, r) == [p \in 1..Parts |-> Task(c, r, p)]

Pending == [state |-> "pending", value |-> <<>>]
Failed == [state |-> "failed", value |-> <<>>]
Result(x) == [state |-> "done", value |-> x]

ServiceInit ==
  /\ caller = "idle" /\ outcome = "none"
  /\ call = 0 /\ retry_count = 0
  /\ future = [p \in 1..Parts |-> Pending]
  /\ awaited = 1 /\ collected = <<>>
  /\ task_queue = <<>> /\ mutex = NoThread
  /\ thread = [t \in Threads |-> "gather"]
  /\ held = [t \in Threads |-> <<>>]
  /\ socket = [t \in Threads |-> "send"]
  /\ wire = [t \in Threads |-> "none"]
  /\ faulty = {}

-------------------------------------------------------------------------------
(* get_teacher_knowledge *)

(* mutant: futures is not cleared for a retry *)
SubmitAllKeepsFutures(c, r) ==
  /\ task_queue' = task_queue \o Tasks(c, r)
  /\ UNCHANGED future
  /\ awaited' = 1
  /\ collected' = <<>>
  /\ caller' = "waiting"

SubmitAll(c, r) ==
  /\ task_queue' = task_queue \o Tasks(c, r)
  /\ future' = [p \in 1..Parts |-> Pending]
  /\ awaited' = 1
  /\ collected' = <<>>
  /\ caller' = "waiting"

Ask ==
  /\ caller = "idle" /\ call < MaxCalls
  /\ outcome = "raised" => SkipsFailed
  /\ call' = call + 1
  /\ retry_count' = 0
  /\ outcome' = "none"
  /\ faulty' = {}
  /\ SubmitAll(call + 1, 0)
  /\ UNCHANGED <<mutex, thread, held, socket, wire>>

(* for future in futures: ... future.result() ... extend *)
Collect ==
  /\ caller = "waiting"
  /\ future[awaited].state = "done"
  /\ collected' = collected \o future[awaited].value
  /\ awaited' = awaited + 1
  /\ IF awaited = Parts
     THEN caller' = "idle" /\ outcome' = "returned"
     ELSE UNCHANGED <<caller, outcome>>
  /\ UNCHANGED <<call, retry_count, future, clientVars, socket, wire, faulty>>

(* mutant: the failed future is awaited again, nothing is resubmitted *)
CollectFailureAgain ==
  /\ caller = "waiting"
  /\ future[awaited].state = "failed"
  /\ IF retry_count = MaxRetries
     THEN caller' = "idle" /\ outcome' = "raised"
     ELSE caller' = "waiting" /\ UNCHANGED outcome
  /\ UNCHANGED <<call, retry_count, future, awaited, collected, clientVars, socket, wire, faulty>>

(* The first future that failed ends the attempt; the others stay out. *)
CollectFailure ==
  /\ caller = "waiting"
  /\ future[awaited].state = "failed"
  /\ IF retry_count = MaxRetries
     THEN caller' = "idle" /\ outcome' = "raised" /\ UNCHANGED retry_count
     ELSE caller' = "sleeping" /\ retry_count' = retry_count + 1 /\ UNCHANGED outcome
  /\ UNCHANGED <<call, future, awaited, collected, clientVars, socket, wire, faulty>>

Resubmit ==
  /\ caller = "sleeping"
  /\ SubmitAll(call, retry_count)
  /\ UNCHANGED <<outcome, call, retry_count, mutex, thread, held, socket, wire, faulty>>

-------------------------------------------------------------------------------
(* TeacherClient.bg_task *)

Gather(t) ==
  /\ thread[t] = "gather"
  /\ mutex \in {NoThread, t}
  /\ task_queue # <<>>
  /\ task_queue' = Tail(task_queue)
  /\ held' = [held EXCEPT ![t] = Append(@, Head(task_queue))]
  /\ IF Len(held[t]) + 1 = num_microbatches
     THEN mutex' = NoThread /\ thread' = [thread EXCEPT ![t] = "ready"]
     ELSE mutex' = t /\ UNCHANGED thread
  /\ UNCHANGED <<callerVars, socket, wire, faulty>>

(* set_result or set_exception on the futures a thread holds: results[k]   *)
(* for the k-th of them.  Nobody looks at those of an earlier attempt.     *)
Resolve(t, results) ==
  future' = [p \in 1..Parts |->
    IF \E k \in DOMAIN held[t] : held[t][k] = Task(call, retry_count, p)
    THEN results[CHOOSE k \in DOMAIN held[t] : held[t][k] = Task(call, retry_count, p)]
    ELSE future[p]]

NextRound(t) ==
  /\ thread' = [thread EXCEPT ![t] = "gather"]
  /\ held' = [held EXCEPT ![t] = <<>>]
  /\ UNCHANGED <<caller, outcome, call, retry_count, awaited, collected, task_queue, mutex>>

Fail(t) == Resolve(t, [k \in DOMAIN held[t] |-> Failed]) /\ NextRound(t)

(* A fault strikes the request that t holds. *)
Fault(t) ==
  faulty' = faulty \cup {task.retry : task \in {x \in Range(held[t]) : x.call = call}}

PrepareFails(t) ==
  /\ "prepare" \in Faults
  /\ thread[t] = "ready"
  /\ Fail(t) /\ Fault(t)
  /\ UNCHANGED <<socket, wire>>

Send(t) ==
  /\ thread[t] = "ready" /\ socket[t] = "send"
  /\ thread' = [thread EXCEPT ![t] = "waiting"]
  /\ socket' = [socket EXCEPT ![t] = "recv"]
  /\ wire' = [wire EXCEPT ![t] = "sent"]
  /\ UNCHANGED <<callerVars, task_queue, mutex, held, faulty>>

(* The socket still expects the reply to an earlier request. *)
SendFails(t) ==
  /\ thread[t] = "ready" /\ socket[t] = "recv"
  /\ Fail(t)
  /\ UNCHANGED <<socket, wire, faulty>>

Received(t) ==
  /\ socket' = [socket EXCEPT ![t] = "send"]
  /\ wire' = [wire EXCEPT ![t] = "none"]

(* The teacher answers all prompts of the request, task by task. *)
Reply(t) ==
  [i \in 1..(Len(held[t]) * PartSize) |->
     LET task == held[t][((i - 1) \div PartSize) + 1]
     IN Prompts(task.call, task.part)[((i - 1) % PartSize) + 1]]

(* mutant: every future gets the first slice *)
SliceFirst(t, k) == SubSeq(Reply(t), 1, Len(Reply(t)) \div num_microbatches)

(* The reply is cut into num_microbatches slices of mbs prompts. *)
Slice(t, k) ==
  LET mbs == Len(Reply(t)) \div num_microbatches
  IN SubSeq(Reply(t), (k - 1) * mbs + 1, k * mbs)

Receive(t) ==
  /\ thread[t] = "waiting" /\ wire[t] = "answered"
  /\ Resolve(t, [k \in DOMAIN held[t] |-> Result(Slice(t, k))])
  /\ NextRound(t)
  /\ Received(t)
  /\ UNCHANGED faulty

ReceiveError(t) ==
  /\ thread[t] = "waiting" /\ wire[t] = "refused"
  /\ Fail(t)
  /\ Received(t)
  /\ UNCHANGED faulty

(* zmq.Again: the thread goes on with a socket that still expects a reply. *)
Timeout(t) ==
  /\ thread[t] = "waiting" /\ wire[t] \in {"sent", "lost"}
  /\ "timeout" \in Faults
  /\ Fail(t) /\ Fault(t)
  /\ wire' = [wire EXCEPT ![t] = "none"]
  /\ UNCHANGED socket

-------------------------------------------------------------------------------
(* The proxy and the workers: a request is answered, refused with an error *)
(* reply, or lost with the worker that had it.                             *)
Serve(t) ==
  /\ wire[t] = "sent"
  /\ wire' = [wire EXCEPT ![t] = "answered"]
  /\ UNCHANGED <<callerVars, clientVars, socket, faulty>>

ServeError(t) ==
  /\ "error" \in Faults
  /\ wire[t] = "sent"
  /\ wire' = [wire EXCEPT ![t] = "refused"]
  /\ Fault(t)
  /\ UNCHANGED <<callerVars, clientVars, socket>>

WorkerDies(t) ==
  /\ "timeout" \in Faults
  /\ wire[t] = "sent"
  /\ wire' = [wire EXCEPT ![t] = "lost"]
  /\ UNCHANGED <<callerVars, clientVars, socket, faulty>>

Done ==
  /\ caller = "idle"
  /\ call = MaxCalls \/ (outcome = "raised" /\ ~SkipsFailed)
  /\ UNCHANGED serviceVars

Caller == Collect \/ CollectFailure \/ Resubmit
Thread(t) ==
  Gather(t) \/ PrepareFails(t) \/ Send(t) \/ SendFails(t)
  \/ Receive(t) \/ ReceiveError(t) \/ Timeout(t)
Service(t) == Serve(t) \/ ServeError(t) \/ WorkerDies(t)

ServiceNext ==
  \/ Ask \/ Caller
  \/ \E t \in Threads : Thread(t) \/ Service(t)
  \/ Done

ServiceSpec == ServiceInit /\ [][ServiceNext]_serviceVars

(* The caller and the client's threads run, and a recv that gets no reply  *)
(* times out.  Nothing is assumed of the teacher.                          *)
ServiceFairSpec ==
  /\ ServiceSpec
  /\ WF_serviceVars(Caller)
  /\ \A t \in Threads : WF_serviceVars(Thread(t))

-------------------------------------------------------------------------------
CallPrompts == (1..MaxCalls) \X (1..(Parts * PartSize))
TaskType == [call : 1..MaxCalls, retry : 0..MaxRetries, part : 1..Parts]

(* Types; a thread holds a whole request from the moment it leaves the     *)
(* mutex until it has resolved it, and only gathers under the mutex.       *)
ServiceTypeOK ==
  /\ caller \in {"idle", "waiting", "sleeping"}
  /\ outcome \in {"none", "returned", "raised"}
  /\ call \in 0..MaxCalls /\ retry_count \in 0..MaxRetries
  /\ \A p \in 1..Parts :
       future[p] \in [state : {"pending", "failed", "done"}, value : Seq(CallPrompts)]
  /\ awaited \in 1..(Parts + 1)
  /\ collected \in Seq(CallPrompts)
  /\ task_queue \in Seq(TaskType)
  /\ mutex \in Threads \cup {NoThread}
  /\ \A t \in Threads :
       /\ held[t] \in Seq(TaskType)
       /\ IF thread[t] = "gather"
          THEN Len(held[t]) < num_microbatches /\ (held[t] # <<>> <=> mutex = t)
          ELSE thread[t] \in {"ready", "waiting"} /\ Len(held[t]) = num_microbatches
       /\ socket[t] \in {"send", "recv"}
       /\ wire[t] \in {"none", "sent", "answered", "refused", "lost"}
  /\ faulty \subseteq 0..MaxRetries

(* A call returns knowledge about exactly its own prompts, in order,       *)
(* whatever attempts, stale tasks and microbatches were mixed, or raises.  *)
Implemented == INSTANCE TeacherCall WITH
  Size <- Parts * PartSize,
  pending <- caller # "idle",
  knowledge <- IF outcome = "returned" THEN collected ELSE <<>>
ImplementsCall == Implemented!Spec

(* A call gives up only if a fault struck each of its attempts: one fault  *)
(* costs one attempt, as the retries of handle_futures are meant to be.    *)
RaisedIsJustified == outcome = "raised" => faulty = 0..MaxRetries

(* Only a wedged socket, one that a time-out has left waiting for a reply   *)
(* nobody will read, makes a call give up on fewer faults than attempts;   *)
(* threads hold whole requests all the while.                              *)
Wedged(t) == socket[t] = "recv" /\ thread[t] # "waiting"
AttemptsNotWasted ==
  /\ ServiceTypeOK
  /\ outcome = "raised" => faulty = 0..MaxRetries \/ \E t \in Threads : Wedged(t)

(* Every call ends, even if the teacher never answers again. *)
CallEnds == caller # "idle" ~> caller = "idle"
===============================================================================
