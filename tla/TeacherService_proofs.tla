------------------------- MODULE TeacherService_proofs -------------------------
(***************************************************************************)
(* Proofs about the teacher service: a call is answered about its own      *)
(* prompts in order or raises, and only a wedged socket makes it give up   *)
(* on fewer faults than attempts; for any threads, parts, sizes, retries   *)
(* and calls.                                                              *)
(***************************************************************************)
EXTENDS TeacherService, SequenceTheorems, TLAPS

-----------------------------------------------------------------------------
(* Arithmetic of parts.                                                    *)
LEMMA Multiples ==
  ASSUME NEW a \in Int, NEW b \in Int, NEW c \in Nat, a <= b
  PROVE  a * c <= b * c /\ a * c \in Int /\ b * c \in Int
  OBVIOUS

LEMMA Distributes ==
  ASSUME NEW a \in Int, NEW b \in Int, NEW c \in Int
  PROVE  (a + b) * c = a * c + b * c /\ (a - b) * c = a * c - b * c
  OBVIOUS

LEMMA Divides ==
  ASSUME NEW n \in Nat, NEW d \in Nat \ {0}
  PROVE  n = d * (n \div d) + (n % d) /\ n \div d \in Nat /\ n % d \in 0..(d - 1)
  OBVIOUS

(* The quotient of the r-th place behind q whole parts.                    *)
LEMMA QuotientAt ==
  ASSUME NEW q \in Nat, NEW d \in Nat \ {0}, NEW r \in 0..(d - 1)
  PROVE  (q * d + r) \div d = q /\ (q * d + r) % d = r
<1> DEFINE n == q * d + r
           x == n \div d
           y == n % d
<1>1. n \in Nat
  OBVIOUS
<1>2. n = d * x + y /\ x \in Nat /\ y \in 0..(d - 1)
  BY <1>1, Divides
<1> HIDE DEF x, y
<1>3. d * x = x * d /\ x * d \in Int /\ q * d \in Int
  BY <1>2
<1>4. x = q
  <2>1. CASE x >= q + 1
    <3>1. (q + 1) * d <= x * d
      BY <1>2, <2>1, Multiples
    <3>2. (q + 1) * d = q * d + d
      BY Distributes
    <3> QED BY <1>2, <1>3, <3>1, <3>2
  <2>2. CASE q >= x + 1
    <3>1. (x + 1) * d <= q * d
      BY <1>2, <2>2, Multiples
    <3>2. (x + 1) * d = x * d + d
      BY <1>2, Distributes
    <3> QED BY <1>2, <1>3, <3>1, <3>2
  <2> QED BY <1>2, <2>1, <2>2
<1>5. y = r
  BY <1>2, <1>3, <1>4
<1> QED BY <1>4, <1>5 DEF x, y

LEMMA ServiceConstants ==
  /\ num_microbatches \in Nat \ {0} /\ Parts \in Nat \ {0} /\ PartSize \in Nat \ {0}
  /\ MaxRetries \in Nat /\ MaxCalls \in Nat
  /\ NoThread \notin Threads
  BY ServiceAssumption DEF ServiceAssumption

(* The prompts of a part lie within those of the call. *)
LEMMA PromptsTyped ==
  ASSUME NEW c \in 1..MaxCalls, NEW p \in 1..Parts
  PROVE  Prompts(c, p) \in Seq(CallPrompts) /\ Len(Prompts(c, p)) = PartSize
<1>1. ASSUME NEW j \in 1..PartSize
      PROVE  (p - 1) * PartSize + j \in 1..(Parts * PartSize)
  <2>1. 0 <= (p - 1) * PartSize /\ (p - 1) * PartSize \in Int
    BY ServiceConstants
  <2>2. p * PartSize <= Parts * PartSize /\ p * PartSize \in Int /\ Parts * PartSize \in Int
    BY ServiceConstants, Multiples
  <2>3. (p - 1) * PartSize = p * PartSize - PartSize
    BY ServiceConstants, Distributes
  <2> QED BY <2>1, <2>2, <2>3, ServiceConstants
<1>2. \A j \in 1..PartSize : <<c, (p - 1) * PartSize + j>> \in CallPrompts
  BY <1>1 DEF CallPrompts
<1>3. Prompts(c, p) \in [1..PartSize -> CallPrompts]
  BY <1>2 DEF Prompts
<1> HIDE DEF Prompts
<1>4. PartSize \in Nat
  BY ServiceConstants
<1> QED BY <1>3, <1>4

(* The prompts of the first n parts of call c, in order.                   *)
FirstParts(c, n) == [j \in 1..(n * PartSize) |-> <<c, j>>]

LEMMA OnePartMore ==
  ASSUME NEW c \in Nat, NEW n \in Nat
  PROVE  FirstParts(c, n) \o Prompts(c, n + 1) = FirstParts(c, n + 1)
<1> DEFINE m == n * PartSize
<1>1. m \in Nat /\ PartSize \in Nat /\ (n + 1) * PartSize = m + PartSize
  BY ServiceConstants, Distributes
<1>2. n + 1 - 1 = n
  OBVIOUS
<1> HIDE DEF m
<1>3. FirstParts(c, n) = [j \in 1..m |-> <<c, j>>]
      /\ Prompts(c, n + 1) = [j \in 1..PartSize |-> <<c, m + j>>]
      /\ FirstParts(c, n + 1) = [j \in 1..(m + PartSize) |-> <<c, j>>]
  BY <1>1, <1>2 DEF FirstParts, Prompts, m
<1> DEFINE f == [j \in 1..m |-> <<c, j>>]
           g == [j \in 1..PartSize |-> <<c, m + j>>]
<1>4. f \in Seq(Nat \X Nat) /\ Len(f) = m /\ g \in Seq(Nat \X Nat) /\ Len(g) = PartSize
  BY <1>1
<1>5. /\ f \o g \in Seq(Nat \X Nat) /\ Len(f \o g) = m + PartSize
      /\ \A j \in 1..(m + PartSize) :
           (f \o g)[j] = IF j <= m THEN f[j] ELSE g[j - m]
  BY <1>1, <1>4
<1>6. ASSUME NEW j \in 1..(m + PartSize) PROVE (f \o g)[j] = <<c, j>>
  <2>1. CASE j <= m
    <3>1. j \in 1..m /\ (f \o g)[j] = f[j]
      BY <1>1, <1>5, <2>1
    <3> QED BY <3>1
  <2>2. CASE ~(j <= m)
    <3>1. j - m \in 1..PartSize /\ (f \o g)[j] = g[j - m] /\ m + (j - m) = j
      BY <1>1, <1>5, <2>2
    <3> QED BY <3>1
  <2> QED BY <2>1, <2>2
<1> DEFINE h == [j \in 1..(m + PartSize) |-> <<c, j>>]
<1>7. h \in Seq(Nat \X Nat) /\ Len(h) = m + PartSize /\ \A j \in 1..(m + PartSize) : h[j] = <<c, j>>
  BY <1>1
<1> HIDE DEF f, g, h
<1>8. f \o g = h
  BY <1>5, <1>6, <1>7, SeqEqual
<1> QED BY <1>3, <1>8 DEF f, g, h

(* The reply is cut where the request was put together: the k-th slice is  *)
(* about the prompts of the k-th task.                                     *)
LEMMA SliceOfTask ==
  ASSUME NEW t \in Threads, held[t] \in Seq(TaskType), Len(held[t]) = num_microbatches,
         NEW k \in 1..num_microbatches
  PROVE  Slice(t, k) = Prompts(held[t][k].call, held[t][k].part)
<1> DEFINE n == num_microbatches * PartSize
           S == {Reply(t)[i] : i \in 1..n}
           first == (k - 1) * PartSize
<1>1. n \in Nat /\ num_microbatches \in Nat \ {0} /\ PartSize \in Nat \ {0}
  BY ServiceConstants
<1>2. /\ Reply(t) \in [1..n -> S]
      /\ \A i \in 1..n : LET task == held[t][((i - 1) \div PartSize) + 1]
                        IN Reply(t)[i] = Prompts(task.call, task.part)[((i - 1) % PartSize) + 1]
  BY DEF Reply
<1> HIDE DEF S
<1>3. Reply(t) \in Seq(S) /\ Len(Reply(t)) = n
  BY <1>1, <1>2
<1>4. n \div num_microbatches = PartSize
  <2>1. n = PartSize * num_microbatches + 0 /\ 0 \in 0..(num_microbatches - 1) /\ PartSize \in Nat
    BY <1>1
  <2> QED BY <1>1, <2>1, QuotientAt
<1>5. Slice(t, k) = SubSeq(Reply(t), first + 1, k * PartSize)
  BY <1>3, <1>4 DEF Slice
<1>6. first \in Nat /\ k * PartSize = first + PartSize /\ k * PartSize <= n
  <2>1. first = k * PartSize - PartSize /\ k * PartSize <= n
    BY <1>1, Distributes, Multiples
  <2>2. first \in Nat /\ k * PartSize \in Int
    BY <1>1
  <2> QED BY <1>1, <2>1, <2>2
<1> HIDE DEF n, first
<1>7. /\ Slice(t, k) \in Seq(S) /\ Len(Slice(t, k)) = PartSize
      /\ \A j \in 1..PartSize : Slice(t, k)[j] = Reply(t)[first + j]
  <2>1. first + 1 \in 1..(Len(Reply(t)) + 1) /\ k * PartSize \in first..Len(Reply(t))
    BY <1>1, <1>3, <1>6
  <2>2. SubSeq(Reply(t), first + 1, first + PartSize)
          = [j \in 1..(first + PartSize - (first + 1) + 1) |-> Reply(t)[j + (first + 1) - 1]]
    BY <1>1, <1>3, <1>6
  <2>3. first + PartSize - (first + 1) + 1 = PartSize
    BY <1>1, <1>6
  <2> QED BY <1>1, <1>3, <1>5, <1>6, <2>1, SubSeqProperties
<1>8. ASSUME NEW j \in 1..PartSize
      PROVE  Slice(t, k)[j] = Prompts(held[t][k].call, held[t][k].part)[j]
  <2> DEFINE i == first + j
  <2>1. i \in 1..n /\ i - 1 = (k - 1) * PartSize + (j - 1)
        /\ j - 1 \in 0..(PartSize - 1) /\ k - 1 \in Nat
    BY <1>1, <1>6 DEF first
  <2>2. Slice(t, k)[j] = Reply(t)[i]
    BY <1>7
  <2> HIDE DEF i
  <2>3. (i - 1) \div PartSize = k - 1 /\ (i - 1) % PartSize = j - 1
    <3>1. /\ ((k - 1) * PartSize + (j - 1)) \div PartSize = k - 1
          /\ ((k - 1) * PartSize + (j - 1)) % PartSize = j - 1
      <4>1. PartSize \in Nat \ {0} /\ k - 1 \in Nat /\ j - 1 \in 0..(PartSize - 1)
        BY <1>1, <2>1
      <4> HIDE DEF first, i
      <4> QED BY <4>1, QuotientAt
    <3> QED BY <2>1, <3>1
  <2>4. Reply(t)[i] = Prompts(held[t][((i - 1) \div PartSize) + 1].call,
                              held[t][((i - 1) \div PartSize) + 1].part)[((i - 1) % PartSize) + 1]
    BY <1>2, <2>1
  <2>5. k - 1 + 1 = k /\ j - 1 + 1 = j
    OBVIOUS
  <2> QED BY <2>2, <2>3, <2>4, <2>5
<1>9. Slice(t, k) = [j \in 1..PartSize |-> Slice(t, k)[j]]
  BY <1>1, <1>7
<1> QED BY <1>8, <1>9 DEF Prompts

-----------------------------------------------------------------------------
(* The invariant.  Types: a task in the client is one of a call so far.    *)
OwnTask == [call : 1..call, retry : 0..MaxRetries, part : 1..Parts]
FutureType == [state : {"pending", "failed", "done"}, value : Seq(CallPrompts)]

CallTypes ==
  /\ caller \in {"idle", "waiting", "sleeping"}
  /\ outcome \in {"none", "returned", "raised"}
  /\ call \in 0..MaxCalls /\ retry_count \in 0..MaxRetries
  /\ future \in [1..Parts -> FutureType]
  /\ awaited \in 1..(Parts + 1)
  /\ collected \in Seq(CallPrompts)
  /\ faulty \subseteq 0..MaxRetries

ClientTypes ==
  /\ task_queue \in Seq(OwnTask)
  /\ mutex \in Threads \cup {NoThread}
  /\ thread \in [Threads -> {"gather", "ready", "waiting"}]
  /\ held \in [Threads -> Seq(OwnTask)]
  /\ socket \in [Threads -> {"send", "recv"}]
  /\ wire \in [Threads -> {"none", "sent", "answered", "refused", "lost"}]

(* A thread that gathers has less than a request, and something only under *)
(* the mutex; one that does not has left the mutex with a whole request.   *)
(* An exchange is between a send and the end of the recv.                  *)
RequestInv ==
  \A t \in Threads :
    /\ thread[t] = "gather" => Len(held[t]) < num_microbatches /\ (held[t] # <<>> <=> mutex = t)
    /\ thread[t] # "gather" => Len(held[t]) = num_microbatches /\ mutex # t
    /\ wire[t] # "none" => thread[t] = "waiting"

(* What is done is about the part it was asked for, what was collected     *)
(* about the parts so far.                                                 *)
AnswerInv ==
  /\ caller # "idle" => outcome = "none" /\ call >= 1
  /\ \A p \in 1..Parts : future[p].state = "done" => future[p].value = Prompts(call, p)
  /\ caller = "waiting" => awaited <= Parts /\ collected = FirstParts(call, awaited - 1)
  /\ outcome = "returned" => collected = FirstParts(call, Parts)

(* Without a wedged socket there was a fault in every attempt that failed, *)
(* in the current one as soon as it has a failed future or an error reply. *)
FaultInv ==
  /\ \A r \in 0..MaxRetries : r < retry_count => r \in faulty
  /\ caller = "waiting" =>
       \A p \in 1..Parts : future[p].state = "failed" => retry_count \in faulty
  /\ \A t \in Threads : wire[t] = "refused" =>
       \A k \in 1..Len(held[t]) : held[t][k].call = call => held[t][k].retry \in faulty
  /\ outcome = "raised" => faulty = 0..MaxRetries

AttemptInv == (\E t \in Threads : Wedged(t)) \/ FaultInv

IInv == CallTypes /\ ClientTypes /\ RequestInv /\ AnswerInv /\ AttemptInv

LEMMA IInvInit == ServiceInit => IInv
<1> SUFFICES ASSUME ServiceInit PROVE IInv
  OBVIOUS
<1>1. CallTypes
  <2>1. Pending \in FutureType /\ <<>> \in Seq(CallPrompts)
    BY DEF Pending, FutureType
  <2> QED BY <2>1, ServiceConstants DEF ServiceInit, CallTypes
<1>2. ClientTypes
  BY DEF ServiceInit, ClientTypes
<1>3. RequestInv
  BY ServiceConstants DEF ServiceInit, RequestInv
<1>4. AnswerInv /\ FaultInv
  BY DEF ServiceInit, AnswerInv, FaultInv, Pending
<1> QED BY <1>1, <1>2, <1>3, <1>4 DEF IInv, AttemptInv

-----------------------------------------------------------------------------
(* The steps by what they do.  A thread that resolves its futures changes  *)
(* those of its tasks in this attempt.                                     *)
LEMMA Resolved ==
  ASSUME NEW t \in Threads, held[t] \in Seq(OwnTask), NEW results, Resolve(t, results)
  PROVE  /\ future' = [p \in 1..Parts |-> future'[p]]
         /\ \A p \in 1..Parts :
              \/ future'[p] = future[p]
              \/ \E k \in 1..Len(held[t]) :
                   held[t][k] = Task(call, retry_count, p) /\ future'[p] = results[k]
<1>1. DOMAIN held[t] = 1..Len(held[t])
  OBVIOUS
<1>2. ASSUME NEW p \in 1..Parts,
             NEW k \in DOMAIN held[t], held[t][k] = Task(call, retry_count, p)
      PROVE  \E j \in DOMAIN held[t] :
               held[t][j] = Task(call, retry_count, p) /\ future'[p] = results[j]
  <2> DEFINE j == CHOOSE x \in DOMAIN held[t] : held[t][x] = Task(call, retry_count, p)
  <2>1. j \in DOMAIN held[t] /\ held[t][j] = Task(call, retry_count, p)
    BY <1>2
  <2>2. future'[p] = results[j]
    BY <1>2 DEF Resolve
  <2> QED BY <2>1, <2>2
<1>3. ASSUME NEW p \in 1..Parts,
             ~ \E k \in DOMAIN held[t] : held[t][k] = Task(call, retry_count, p)
      PROVE  future'[p] = future[p]
  BY <1>3 DEF Resolve
<1>4. future' = [p \in 1..Parts |-> future'[p]]
  BY DEF Resolve
<1> QED BY <1>1, <1>2, <1>3, <1>4

(* A fault is on record for each attempt it strikes.                       *)
LEMMA Struck ==
  ASSUME NEW t \in Threads, held[t] \in Seq(OwnTask), Fault(t)
  PROVE  /\ faulty \subseteq faulty' /\ faulty' \subseteq faulty \cup (0..MaxRetries)
         /\ \A k \in 1..Len(held[t]) : held[t][k].call = call => held[t][k].retry \in faulty'
<1>1. DOMAIN held[t] = 1..Len(held[t]) /\ \A k \in 1..Len(held[t]) : held[t][k] \in OwnTask
  OBVIOUS
<1> DEFINE own == {x \in Range(held[t]) : x.call = call}
<1>2. \A k \in 1..Len(held[t]) : held[t][k] \in Range(held[t])
  BY <1>1 DEF Range
<1>3. own \subseteq OwnTask
  BY <1>1 DEF Range
<1>4. faulty' = faulty \cup {task.retry : task \in own}
  BY DEF Fault
<1> HIDE DEF own
<1>5. \A x \in own : x.retry \in 0..MaxRetries
  BY <1>3 DEF OwnTask
<1>6. \A k \in 1..Len(held[t]) : held[t][k].call = call => held[t][k] \in own
  BY <1>2 DEF own
<1> QED BY <1>4, <1>5, <1>6

(* A failing request. *)
Failing(t) == PrepareFails(t) \/ SendFails(t) \/ ReceiveError(t) \/ Timeout(t)

LEMMA FailingFacts ==
  ASSUME NEW t \in Threads, Failing(t), ClientTypes
  PROVE  /\ Fail(t) /\ thread[t] # "gather" /\ thread'[t] = "gather"
         /\ faulty \subseteq faulty' /\ faulty' \subseteq faulty \cup (0..MaxRetries)
         /\ wire' \in [Threads -> {"none", "sent", "answered", "refused", "lost"}]
         /\ socket' \in [Threads -> {"send", "recv"}]
         /\ \A u \in Threads : u # t => wire'[u] = wire[u]
         /\ thread[t] = "waiting" => wire'[t] = "none"
         /\ thread[t] # "waiting" => wire'[t] = wire[t]
<1>1. held[t] \in Seq(OwnTask) /\ thread[t] \in {"gather", "ready", "waiting"}
      /\ wire \in [Threads -> {"none", "sent", "answered", "refused", "lost"}]
      /\ socket \in [Threads -> {"send", "recv"}]
      /\ thread \in [Threads -> {"gather", "ready", "waiting"}]
  BY DEF ClientTypes
<1>2. Fail(t) => thread'[t] = "gather"
  BY <1>1 DEF Fail, NextRound
<1>3. CASE PrepareFails(t)
  BY <1>1, <1>2, <1>3, Struck DEF PrepareFails
<1>4. CASE SendFails(t)
  BY <1>1, <1>2, <1>4 DEF SendFails
<1>5. CASE ReceiveError(t)
  BY <1>1, <1>2, <1>5 DEF ReceiveError, Received
<1>6. CASE Timeout(t)
  BY <1>1, <1>2, <1>6, Struck DEF Timeout
<1> QED BY <1>3, <1>4, <1>5, <1>6 DEF Failing

(* A whole request is answered.                                            *)
LEMMA ReceiveFacts ==
  ASSUME NEW t \in Threads, Receive(t), CallTypes, ClientTypes, RequestInv
  PROVE  \A p \in 1..Parts :
           \/ future'[p] = future[p]
           \/ call \in 1..MaxCalls /\ future'[p] = Result(Prompts(call, p))
<1>1. held[t] \in Seq(OwnTask) /\ thread[t] = "waiting"
  BY DEF ClientTypes, Receive
<1>2. Len(held[t]) = num_microbatches /\ DOMAIN held[t] = 1..num_microbatches
  BY <1>1 DEF RequestInv
<1>3. held[t] \in Seq(TaskType)
  <2>1. OwnTask \subseteq TaskType
    BY ServiceConstants DEF OwnTask, TaskType, CallTypes
  <2> QED BY <1>1, <2>1, SeqMonotonic
<1> DEFINE results == [k \in DOMAIN held[t] |-> Result(Slice(t, k))]
<1>4. \A k \in 1..num_microbatches :
        results[k] = Result(Prompts(held[t][k].call, held[t][k].part))
  BY <1>2, <1>3, SliceOfTask
<1>5. Resolve(t, results)
  BY DEF Receive
<1> HIDE DEF results
<1>6. ASSUME NEW p \in 1..Parts, NEW k \in 1..num_microbatches,
             held[t][k] = Task(call, retry_count, p)
      PROVE  call \in 1..MaxCalls /\ results[k] = Result(Prompts(call, p))
  <2>1. held[t][k].call = call /\ held[t][k].part = p
    BY <1>6 DEF Task
  <2>2. held[t][k] \in TaskType
    BY <1>2, <1>3
  <2> QED BY <1>4, <2>1, <2>2 DEF TaskType
<1> QED BY <1>1, <1>2, <1>5, <1>6, Resolved

-----------------------------------------------------------------------------
(* The types of the caller's variables.                                    *)
LEMMA CallTypesStep == IInv /\ [ServiceNext]_serviceVars => CallTypes'
<1> SUFFICES ASSUME IInv, [ServiceNext]_serviceVars PROVE CallTypes'
  OBVIOUS
<1> USE DEF callerVars, clientVars
<1>1. CallTypes /\ ClientTypes /\ RequestInv /\ AnswerInv
  BY DEF IInv
<1>2. Pending \in FutureType /\ Failed \in FutureType /\ <<>> \in Seq(CallPrompts)
  BY DEF Pending, Failed, FutureType
<1>3. ASSUME NEW c, NEW r, SubmitAll(c, r)
      PROVE  /\ future' \in [1..Parts -> FutureType] /\ awaited' \in 1..(Parts + 1)
             /\ collected' \in Seq(CallPrompts) /\ caller' = "waiting"
  BY <1>2, <1>3, ServiceConstants DEF SubmitAll
<1>4. CASE Ask
  BY <1>1, <1>3, <1>4, ServiceConstants DEF Ask, CallTypes
<1>5. CASE Collect
  <2>1. awaited \in 1..Parts /\ future[awaited] \in FutureType
    BY <1>1, <1>5, ServiceConstants DEF Collect, AnswerInv, CallTypes
  <2>2. collected' \in Seq(CallPrompts)
    BY <1>1, <1>5, <2>1 DEF Collect, CallTypes, FutureType
  <2>3. awaited' \in 1..(Parts + 1)
    BY <1>5, <2>1, ServiceConstants DEF Collect
  <2> QED BY <1>1, <1>5, <2>2, <2>3 DEF Collect, CallTypes
<1>6. CASE CollectFailure
  BY <1>1, <1>6, ServiceConstants DEF CollectFailure, CallTypes
<1>7. CASE Resubmit
  BY <1>1, <1>3, <1>7 DEF Resubmit, CallTypes
<1>8. ASSUME NEW t \in Threads, Gather(t) \/ Send(t) \/ Serve(t) \/ WorkerDies(t)
      PROVE  CallTypes'
  BY <1>1, <1>8 DEF Gather, Send, Serve, WorkerDies, CallTypes
<1>9. ASSUME NEW t \in Threads, ServeError(t)
      PROVE  CallTypes'
  <2>1. held[t] \in Seq(OwnTask)
    BY <1>1 DEF ClientTypes
  <2>2. faulty' \subseteq 0..MaxRetries
    BY <1>1, <1>9, <2>1, Struck DEF ServeError, CallTypes
  <2> QED BY <1>1, <1>9, <2>2 DEF ServeError, CallTypes
<1>10. ASSUME NEW t \in Threads, Failing(t)
       PROVE  CallTypes'
  <2>1. Fail(t) /\ faulty' \subseteq 0..MaxRetries /\ held[t] \in Seq(OwnTask)
    BY <1>1, <1>10, FailingFacts DEF CallTypes, ClientTypes
  <2>2. DOMAIN held[t] = 1..Len(held[t])
    BY <2>1
  <2>3. /\ future' = [p \in 1..Parts |-> future'[p]]
        /\ \A p \in 1..Parts : future'[p] = future[p] \/ future'[p] = Failed
    BY <2>1, <2>2, Resolved DEF Fail
  <2>4. future' \in [1..Parts -> FutureType]
    BY <1>1, <1>2, <2>3 DEF CallTypes
  <2> QED BY <1>1, <2>1, <2>4 DEF Fail, NextRound, CallTypes
<1>11. ASSUME NEW t \in Threads, Receive(t)
       PROVE  CallTypes'
  <2>1. \A p \in 1..Parts : future'[p] = future[p]
          \/ (call \in 1..MaxCalls /\ future'[p] = Result(Prompts(call, p)))
    BY <1>1, <1>11, ReceiveFacts
  <2>2. \A p \in 1..Parts : call \in 1..MaxCalls => Result(Prompts(call, p)) \in FutureType
    BY PromptsTyped DEF Result, FutureType
  <2>3. future' = [p \in 1..Parts |-> future'[p]]
    BY <1>11 DEF Receive, Resolve
  <2>4. future' \in [1..Parts -> FutureType]
    BY <1>1, <2>1, <2>2, <2>3 DEF CallTypes
  <2> QED BY <1>1, <1>11, <2>4 DEF Receive, NextRound, CallTypes
<1>12. CASE Done \/ UNCHANGED serviceVars
  BY <1>1, <1>12 DEF Done, serviceVars, CallTypes
<1> QED BY <1>4, <1>5, <1>6, <1>7, <1>8, <1>9, <1>10, <1>11, <1>12
      DEF ServiceNext, Caller, Thread, Service, Failing

(* The types of the client's variables.                                    *)
LEMMA ClientTypesStep == IInv /\ [ServiceNext]_serviceVars => ClientTypes'
<1> SUFFICES ASSUME IInv, [ServiceNext]_serviceVars PROVE ClientTypes'
  OBVIOUS
<1> USE DEF callerVars, clientVars
<1>1. CallTypes /\ ClientTypes /\ AnswerInv
  BY DEF IInv
<1>2. ASSUME call' = call
      PROVE  OwnTask' = OwnTask
  BY <1>2 DEF OwnTask
<1>3. ASSUME NEW c \in 1..MaxCalls, NEW r \in 0..MaxRetries, SubmitAll(c, r),
             c >= call, call' = c, UNCHANGED <<mutex, thread, held, socket, wire>>
      PROVE  ClientTypes'
  <2>1. OwnTask \subseteq OwnTask'
    BY <1>1, <1>3 DEF OwnTask, CallTypes
  <2>2. Tasks(c, r) \in Seq(OwnTask')
    <3>1. \A p \in 1..Parts : Task(c, r, p) \in OwnTask'
      BY <1>3 DEF OwnTask, Task
    <3>2. Tasks(c, r) \in [1..Parts -> OwnTask']
      BY <3>1 DEF Tasks
    <3> HIDE DEF Tasks
    <3> QED BY <3>2, ServiceConstants
  <2>3. /\ task_queue \in Seq(OwnTask')
        /\ \A t \in Threads : held[t] \in Seq(OwnTask')
    BY <1>1, <2>1, SeqMonotonic DEF ClientTypes
  <2>4. task_queue' \in Seq(OwnTask')
    BY <1>3, <2>2, <2>3 DEF SubmitAll
  <2>5. held' \in [Threads -> Seq(OwnTask')]
    BY <1>1, <1>3, <2>3 DEF ClientTypes
  <2> QED BY <1>1, <1>3, <2>4, <2>5 DEF ClientTypes
<1>4. CASE Ask
  BY <1>1, <1>3, <1>4, ServiceConstants DEF Ask, CallTypes
<1>5. CASE Resubmit
  BY <1>1, <1>3, <1>5, ServiceConstants DEF Resubmit, CallTypes, AnswerInv
<1>6. CASE Collect \/ CollectFailure \/ Done \/ UNCHANGED serviceVars
  BY <1>1, <1>2, <1>6 DEF Collect, CollectFailure, Done, serviceVars, ClientTypes
<1>7. ASSUME NEW t \in Threads, Gather(t)
      PROVE  ClientTypes'
  <2>1. /\ task_queue \in Seq(OwnTask) /\ task_queue # <<>> /\ held[t] \in Seq(OwnTask)
        /\ OwnTask' = OwnTask
    BY <1>1, <1>2, <1>7 DEF Gather, ClientTypes
  <2>2. Tail(task_queue) \in Seq(OwnTask) /\ Append(held[t], Head(task_queue)) \in Seq(OwnTask)
    BY <2>1, HeadTailProperties, AppendProperties
  <2>3. held' = [held EXCEPT ![t] = Append(held[t], Head(task_queue))]
        /\ task_queue' = Tail(task_queue)
    BY <1>7 DEF Gather
  <2>4. held' \in [Threads -> Seq(OwnTask)]
    BY <1>1, <2>2, <2>3 DEF ClientTypes
  <2>5. mutex' \in Threads \cup {NoThread} /\ UNCHANGED <<socket, wire>>
        /\ (thread' = thread \/ thread' = [thread EXCEPT ![t] = "ready"])
    BY <1>7 DEF Gather
  <2> QED BY <1>1, <2>1, <2>2, <2>3, <2>4, <2>5 DEF ClientTypes
<1>8. ASSUME NEW t \in Threads, NextRound(t)
      PROVE  /\ OwnTask' = OwnTask /\ held' \in [Threads -> Seq(OwnTask)]
             /\ thread' \in [Threads -> {"gather", "ready", "waiting"}]
             /\ UNCHANGED <<task_queue, mutex>>
  BY <1>1, <1>2, <1>8 DEF NextRound, ClientTypes
<1>9. ASSUME NEW t \in Threads, Failing(t)
      PROVE  ClientTypes'
  <2>1. NextRound(t)
    BY <1>1, <1>9, FailingFacts DEF Fail
  <2>2. /\ wire' \in [Threads -> {"none", "sent", "answered", "refused", "lost"}]
        /\ socket' \in [Threads -> {"send", "recv"}]
    BY <1>1, <1>9, FailingFacts
  <2> QED BY <1>1, <1>8, <2>1, <2>2 DEF ClientTypes
<1>10. ASSUME NEW t \in Threads, Receive(t)
       PROVE  ClientTypes'
  BY <1>1, <1>8, <1>10 DEF Receive, Received, ClientTypes
<1>11. ASSUME NEW t \in Threads, Send(t) \/ Serve(t) \/ ServeError(t) \/ WorkerDies(t)
       PROVE  ClientTypes'
  BY <1>1, <1>2, <1>11 DEF Send, Serve, ServeError, WorkerDies, ClientTypes
<1> QED BY <1>4, <1>5, <1>6, <1>7, <1>9, <1>10, <1>11
      DEF ServiceNext, Caller, Thread, Service, Failing

(* What the threads hold, and when an exchange is under way.               *)
LEMMA RequestInvStep == IInv /\ [ServiceNext]_serviceVars => RequestInv'
<1> SUFFICES ASSUME IInv, [ServiceNext]_serviceVars PROVE RequestInv'
  OBVIOUS
<1> USE DEF callerVars, clientVars
<1>1. ClientTypes /\ RequestInv
  BY DEF IInv
<1>2. CASE UNCHANGED <<mutex, thread, held, wire>>
  BY <1>1, <1>2 DEF RequestInv
<1>3. CASE Ask \/ Collect \/ CollectFailure \/ Resubmit \/ Done \/ UNCHANGED serviceVars
  BY <1>2, <1>3 DEF Ask, Collect, CollectFailure, Resubmit, Done, serviceVars
<1>4. ASSUME NEW t \in Threads, Gather(t)
      PROVE  RequestInv'
  <2>1. /\ thread[t] = "gather" /\ mutex \in {NoThread, t} /\ wire' = wire
        /\ held' = [held EXCEPT ![t] = Append(@, Head(task_queue))]
        /\ held[t] \in Seq(OwnTask) /\ Head(task_queue) \in OwnTask
    <3>1. task_queue \in Seq(OwnTask) /\ task_queue # <<>>
      BY <1>1, <1>4 DEF Gather, ClientTypes
    <3>2. Head(task_queue) \in OwnTask
      BY <3>1, HeadTailProperties
    <3> QED BY <1>1, <1>4, <3>2 DEF Gather, ClientTypes
  <2>2. /\ held'[t] = Append(held[t], Head(task_queue)) /\ wire[t] = "none"
        /\ \A u \in Threads : u # t => held'[u] = held[u] /\ mutex # u
    BY <1>1, <2>1, ServiceConstants DEF ClientTypes, RequestInv
  <2>3. Len(held'[t]) = Len(held[t]) + 1 /\ held'[t] # <<>> /\ Len(held[t]) < num_microbatches
        /\ Len(held[t]) \in Nat
    BY <1>1, <2>1, <2>2, AppendProperties DEF RequestInv
  <2>4. CASE Len(held[t]) + 1 = num_microbatches
    <3>1. mutex' = NoThread /\ thread' = [thread EXCEPT ![t] = "ready"]
      BY <1>4, <2>4 DEF Gather
    <3> QED BY <1>1, <2>1, <2>2, <2>3, <2>4, <3>1, ServiceConstants DEF RequestInv, ClientTypes
  <2>5. CASE Len(held[t]) + 1 # num_microbatches
    <3>1. mutex' = t /\ thread' = thread
      BY <1>4, <2>5 DEF Gather
    <3>2. Len(held'[t]) < num_microbatches
      BY <2>3, <2>5, ServiceConstants
    <3> QED BY <1>1, <2>1, <2>2, <2>3, <3>1, <3>2 DEF RequestInv, ClientTypes
  <2> QED BY <2>4, <2>5
<1>5. ASSUME NEW t \in Threads, NextRound(t), thread[t] # "gather",
             wire'[t] = "none", \A u \in Threads : u # t => wire'[u] = wire[u]
      PROVE  RequestInv'
  <2>1. /\ thread'[t] = "gather" /\ held'[t] = <<>> /\ mutex' = mutex /\ mutex # t
        /\ \A u \in Threads : u # t => thread'[u] = thread[u] /\ held'[u] = held[u]
    BY <1>1, <1>5 DEF NextRound, ClientTypes, RequestInv
  <2>2. Len(<<>>) < num_microbatches
    BY ServiceConstants
  <2> QED BY <1>1, <1>5, <2>1, <2>2 DEF RequestInv
<1>6. ASSUME NEW t \in Threads, Failing(t)
      PROVE  RequestInv'
  <2>1. /\ NextRound(t) /\ thread[t] # "gather"
        /\ \A u \in Threads : u # t => wire'[u] = wire[u]
        /\ thread[t] = "waiting" => wire'[t] = "none"
        /\ thread[t] # "waiting" => wire'[t] = wire[t]
    BY <1>1, <1>6, FailingFacts DEF Fail
  <2>2. wire'[t] = "none"
    BY <1>1, <2>1 DEF RequestInv
  <2> QED BY <1>5, <2>1, <2>2
<1>7. ASSUME NEW t \in Threads, Receive(t)
      PROVE  RequestInv'
  BY <1>1, <1>5, <1>7 DEF Receive, Received, ClientTypes
<1>8. ASSUME NEW t \in Threads, Send(t) \/ Serve(t) \/ ServeError(t) \/ WorkerDies(t)
      PROVE  RequestInv'
  BY <1>1, <1>8 DEF Send, Serve, ServeError, WorkerDies, RequestInv, ClientTypes
<1> QED BY <1>3, <1>4, <1>6, <1>7, <1>8 DEF ServiceNext, Caller, Thread, Service, Failing

(* What the caller has and gets.                                           *)
LEMMA AnswerInvStep == IInv /\ [ServiceNext]_serviceVars => AnswerInv'
<1> SUFFICES ASSUME IInv, [ServiceNext]_serviceVars PROVE AnswerInv'
  OBVIOUS
<1> USE DEF callerVars, clientVars
<1>1. CallTypes /\ ClientTypes /\ RequestInv /\ AnswerInv
  BY DEF IInv
<1>2. CASE UNCHANGED callerVars
  BY <1>1, <1>2 DEF AnswerInv
<1>3. ASSUME NEW c, NEW r, SubmitAll(c, r), outcome' = "none", call' = c, c >= 1
      PROVE  AnswerInv'
  <2>1. FirstParts(c, 0) = <<>> /\ 1 - 1 = 0
    BY ServiceConstants DEF FirstParts
  <2> QED BY <1>3, <2>1, ServiceConstants DEF SubmitAll, AnswerInv, Pending
<1>4. CASE Ask
  BY <1>1, <1>3, <1>4 DEF Ask, CallTypes
<1>5. CASE Resubmit
  BY <1>1, <1>3, <1>5 DEF Resubmit, AnswerInv
<1>6. CASE Collect
  <2>1. /\ awaited \in 1..Parts /\ call \in Nat /\ outcome = "none" /\ call >= 1
        /\ future[awaited].value = Prompts(call, awaited)
        /\ collected = FirstParts(call, awaited - 1)
    BY <1>1, <1>6, ServiceConstants DEF Collect, AnswerInv, CallTypes
  <2>2. FirstParts(call, awaited - 1) \o Prompts(call, awaited) = FirstParts(call, awaited)
    <3>1. awaited - 1 \in Nat /\ awaited - 1 + 1 = awaited
      BY <2>1
    <3> QED BY <2>1, <3>1, OnePartMore
  <2>3. /\ collected' = FirstParts(call, awaited) /\ awaited' = awaited + 1
        /\ awaited + 1 - 1 = awaited /\ UNCHANGED <<call, future>>
    BY <1>6, <2>1, <2>2 DEF Collect
  <2>4. CASE awaited = Parts
    BY <1>1, <1>6, <2>1, <2>3, <2>4 DEF Collect, AnswerInv
  <2>5. CASE awaited # Parts
    <3>1. awaited' <= Parts /\ UNCHANGED <<caller, outcome>>
      BY <1>6, <2>1, <2>3, <2>5, ServiceConstants DEF Collect
    <3> QED BY <1>1, <2>1, <2>3, <3>1 DEF AnswerInv
  <2> QED BY <2>4, <2>5
<1>7. CASE CollectFailure
  BY <1>1, <1>7 DEF CollectFailure, AnswerInv
<1>8. ASSUME NEW t \in Threads, NextRound(t),
             \A p \in 1..Parts : \/ future'[p] = future[p] \/ future'[p] = Failed
                                \/ future'[p] = Result(Prompts(call, p))
      PROVE  AnswerInv'
  <2>1. \A p \in 1..Parts : future'[p].state = "done" => future'[p].value = Prompts(call, p)
    <3> TAKE p \in 1..Parts
    <3>1. CASE future'[p] = future[p]
      BY <1>1, <3>1 DEF AnswerInv
    <3>2. CASE future'[p] = Failed
      BY <3>2 DEF Failed
    <3>3. CASE future'[p] = Result(Prompts(call, p))
      BY <3>3 DEF Result
    <3> QED BY <1>8, <3>1, <3>2, <3>3
  <2> QED BY <1>1, <1>8, <2>1 DEF NextRound, AnswerInv
<1>9. ASSUME NEW t \in Threads, Failing(t)
      PROVE  AnswerInv'
  <2>1. Fail(t) /\ held[t] \in Seq(OwnTask)
    BY <1>1, <1>9, FailingFacts DEF ClientTypes
  <2>2. \A p \in 1..Parts : future'[p] = future[p] \/ future'[p] = Failed
    BY <2>1, Resolved DEF Fail
  <2> QED BY <1>8, <2>1, <2>2 DEF Fail
<1>10. ASSUME NEW t \in Threads, Receive(t)
       PROVE  AnswerInv'
  <2>1. \A p \in 1..Parts : future'[p] = future[p] \/ future'[p] = Result(Prompts(call, p))
    BY <1>1, <1>10, ReceiveFacts
  <2> QED BY <1>8, <1>10, <2>1 DEF Receive
<1>11. ASSUME NEW t \in Threads,
              Gather(t) \/ Send(t) \/ Serve(t) \/ ServeError(t) \/ WorkerDies(t)
       PROVE  AnswerInv'
  BY <1>2, <1>11 DEF Gather, Send, Serve, ServeError, WorkerDies
<1>12. CASE Done \/ UNCHANGED serviceVars
  BY <1>2, <1>12 DEF Done, serviceVars
<1> QED BY <1>4, <1>5, <1>6, <1>7, <1>9, <1>10, <1>11, <1>12
      DEF ServiceNext, Caller, Thread, Service, Failing

-----------------------------------------------------------------------------
(* A wedged socket stays wedged.                                           *)
LEMMA WedgedStays ==
  ASSUME IInv, [ServiceNext]_serviceVars, NEW t \in Threads, Wedged(t)
  PROVE  Wedged(t)'
<1> USE DEF callerVars, clientVars
<1>1. ClientTypes /\ RequestInv /\ socket[t] = "recv" /\ thread[t] # "waiting" /\ wire[t] = "none"
  BY DEF IInv, Wedged, RequestInv
<1>2. CASE UNCHANGED <<thread, socket>>
  BY <1>2 DEF Wedged
<1>3. CASE Ask \/ Caller \/ Done \/ UNCHANGED serviceVars
  BY <1>2, <1>3 DEF Ask, Caller, Collect, CollectFailure, Resubmit, Done, serviceVars
<1>4. ASSUME NEW u \in Threads, Thread(u)
      PROVE  socket'[t] = "recv" /\ thread'[t] # "waiting"
  <2>1. CASE Gather(u)
    BY <1>1, <2>1 DEF Gather, ClientTypes
  <2>2. CASE Send(u)
    BY <1>1, <2>2 DEF Send, ClientTypes
  <2>3. CASE PrepareFails(u) \/ SendFails(u) \/ Timeout(u)
    BY <1>1, <2>3 DEF PrepareFails, SendFails, Timeout, Fail, NextRound, ClientTypes
  <2>4. CASE Receive(u) \/ ReceiveError(u)
    BY <1>1, <2>4 DEF Receive, ReceiveError, Received, Fail, NextRound, ClientTypes
  <2> QED BY <1>4, <2>1, <2>2, <2>3, <2>4 DEF Thread
<1>5. ASSUME NEW u \in Threads, Service(u)
      PROVE  UNCHANGED <<thread, socket>>
  BY <1>5 DEF Service, Serve, ServeError, WorkerDies
<1> QED BY <1>2, <1>3, <1>4, <1>5 DEF ServiceNext, Wedged

(* Every attempt that fails has its fault, as long as nothing is wedged.   *)
LEMMA FaultInvStep ==
  ASSUME IInv, FaultInv, [ServiceNext]_serviceVars, \A t \in Threads : ~Wedged(t)
  PROVE  FaultInv'
<1> USE DEF callerVars, clientVars
<1>1. CallTypes /\ ClientTypes /\ RequestInv /\ AnswerInv
  BY DEF IInv
<1>2. CASE UNCHANGED <<callerVars, held, wire, faulty>>
  BY <1>2 DEF FaultInv
<1>3. \A t \in Threads : held[t] \in Seq(OwnTask)
        /\ \A k \in 1..Len(held[t]) : held[t][k] \in OwnTask
  BY <1>1 DEF ClientTypes
<1>4. CASE Ask
  <2>1. \A t \in Threads : \A k \in 1..Len(held[t]) : held[t][k].call # call'
    <3>1. call' = call + 1 /\ call \in Nat
      BY <1>1, <1>4 DEF Ask, CallTypes
    <3>2. \A x \in OwnTask : x.call \in 1..call
      BY DEF OwnTask
    <3>3. \A x \in OwnTask : x.call # call'
      BY <3>1, <3>2
    <3> QED BY <1>3, <3>3
  <2>2. /\ retry_count' = 0 /\ outcome' = "none" /\ held' = held
        /\ \A p \in 1..Parts : future'[p].state = "pending"
    BY <1>4 DEF Ask, SubmitAll, Pending
  <2> QED BY <2>1, <2>2 DEF FaultInv
<1>5. CASE Resubmit
  <2>1. /\ UNCHANGED <<outcome, call, retry_count, held, wire, faulty>>
        /\ \A p \in 1..Parts : future'[p].state = "pending"
    BY <1>5 DEF Resubmit, SubmitAll, Pending
  <2> QED BY <2>1 DEF FaultInv
<1>6. CASE Collect
  <2>1. /\ UNCHANGED <<call, retry_count, future, held, wire, faulty>>
        /\ outcome' = "raised" => outcome = "raised"
        /\ caller' = "waiting" => caller = "waiting"
    BY <1>6 DEF Collect
  <2> QED BY <2>1 DEF FaultInv
<1>7. CASE CollectFailure
  <2>1. /\ retry_count \in faulty /\ retry_count \in 0..MaxRetries /\ faulty \subseteq 0..MaxRetries
        /\ UNCHANGED <<call, future, held, wire, faulty>> /\ caller' # "waiting"
    <3>1. awaited \in 1..Parts
      BY <1>1, <1>7, ServiceConstants DEF CollectFailure, AnswerInv, CallTypes
    <3>2. retry_count \in faulty
      BY <1>7, <3>1 DEF CollectFailure, FaultInv
    <3> QED BY <1>1, <1>7, <3>2 DEF CollectFailure, CallTypes
  <2>2. CASE retry_count = MaxRetries
    <3>1. faulty = 0..MaxRetries
      <4>1. \A r \in 0..MaxRetries : r < MaxRetries \/ r = MaxRetries
        BY ServiceConstants
      <4>2. \A r \in 0..MaxRetries : r \in faulty
        BY <2>1, <2>2, <4>1 DEF FaultInv
      <4> QED BY <2>1, <4>2
    <3> QED BY <1>7, <2>1, <2>2, <3>1 DEF CollectFailure, FaultInv
  <2>3. CASE retry_count # MaxRetries
    <3>1. retry_count' = retry_count + 1 /\ outcome' = outcome
      BY <1>7, <2>3 DEF CollectFailure
    <3>2. \A r \in 0..MaxRetries : r < retry_count + 1 => r \in faulty
      BY <2>1, ServiceConstants DEF FaultInv
    <3> QED BY <2>1, <3>1, <3>2 DEF FaultInv
  <2> QED BY <2>2, <2>3
<1>8. ASSUME NEW t \in Threads, Gather(t) \/ Send(t) \/ Serve(t) \/ WorkerDies(t)
      PROVE  FaultInv'
  <2>1. /\ UNCHANGED <<callerVars, faulty>> /\ wire'[t] # "refused"
        /\ \A u \in Threads : u # t => held'[u] = held[u] /\ wire'[u] = wire[u]
    BY <1>1, <1>8 DEF Gather, Send, Serve, WorkerDies, ClientTypes, RequestInv
  <2> QED BY <2>1 DEF FaultInv
<1>9. ASSUME NEW t \in Threads, ServeError(t)
      PROVE  FaultInv'
  <2>1. /\ UNCHANGED <<callerVars, held>> /\ faulty \subseteq faulty' /\ faulty' \subseteq 0..MaxRetries
        /\ \A u \in Threads : u # t => wire'[u] = wire[u]
        /\ \A k \in 1..Len(held[t]) : held[t][k].call = call => held[t][k].retry \in faulty'
    BY <1>1, <1>3, <1>9, Struck DEF ServeError, ClientTypes, CallTypes
  <2>2. faulty = 0..MaxRetries => faulty' = 0..MaxRetries
    BY <2>1
  <2> QED BY <2>1, <2>2 DEF FaultInv
<1>10. ASSUME NEW t \in Threads, NextRound(t), faulty \subseteq faulty', faulty' \subseteq 0..MaxRetries,
              \A u \in Threads : u # t => wire'[u] = wire[u],
              caller = "waiting" => \A p \in 1..Parts :
                future'[p].state = "failed" => future[p].state = "failed" \/ retry_count \in faulty'
       PROVE  FaultInv'
  <2>1. /\ UNCHANGED <<caller, outcome, call, retry_count>> /\ held'[t] = <<>>
        /\ \A u \in Threads : u # t => held'[u] = held[u]
    BY <1>1, <1>10 DEF NextRound, ClientTypes
  <2>2. faulty = 0..MaxRetries => faulty' = 0..MaxRetries
    BY <1>10
  <2>3. \A k \in 1..Len(held'[t]) : FALSE
    BY <2>1
  <2> QED BY <1>10, <2>1, <2>2, <2>3 DEF FaultInv
<1>11. ASSUME NEW t \in Threads, Failing(t)
       PROVE  FaultInv'
  <2>1. /\ Fail(t) /\ faulty \subseteq faulty' /\ faulty' \subseteq 0..MaxRetries
        /\ \A u \in Threads : u # t => wire'[u] = wire[u]
    BY <1>1, <1>11, FailingFacts DEF CallTypes
  <2>2. \A k \in 1..Len(held[t]) : held[t][k].call = call => held[t][k].retry \in faulty'
    <3>1. CASE PrepareFails(t) \/ Timeout(t)
      BY <1>3, <3>1, Struck DEF PrepareFails, Timeout
    <3>2. CASE ReceiveError(t)
      BY <3>2 DEF ReceiveError, FaultInv
    <3>3. CASE SendFails(t)
      BY <3>3 DEF SendFails, Wedged
    <3> QED BY <1>11, <3>1, <3>2, <3>3 DEF Failing
  <2>3. ASSUME NEW p \in 1..Parts, NEW k \in 1..Len(held[t]),
               held[t][k] = Task(call, retry_count, p)
        PROVE  retry_count \in faulty'
    BY <2>2, <2>3 DEF Task
  <2>4. \A p \in 1..Parts : future'[p] = future[p] \/ retry_count \in faulty'
    BY <1>3, <2>1, <2>3, Resolved DEF Fail
  <2> QED BY <1>10, <2>1, <2>4 DEF Fail
<1>12. ASSUME NEW t \in Threads, Receive(t)
       PROVE  FaultInv'
  <2>1. /\ faulty' = faulty /\ faulty \subseteq 0..MaxRetries
        /\ \A u \in Threads : u # t => wire'[u] = wire[u]
    BY <1>1, <1>12 DEF Receive, Received, CallTypes, ClientTypes
  <2>2. \A p \in 1..Parts : future'[p] = future[p] \/ future'[p].state = "done"
    <3>1. \A x : Result(x).state = "done"
      BY DEF Result
    <3>2. \A p \in 1..Parts : future'[p] = future[p] \/ future'[p] = Result(Prompts(call, p))
      BY <1>1, <1>12, ReceiveFacts
    <3> QED BY <3>1, <3>2
  <2> QED BY <1>10, <1>12, <2>1, <2>2 DEF Receive
<1>13. CASE Done \/ UNCHANGED serviceVars
  BY <1>2, <1>13 DEF Done, serviceVars
<1> QED BY <1>4, <1>5, <1>6, <1>7, <1>8, <1>9, <1>11, <1>12, <1>13
      DEF ServiceNext, Caller, Thread, Service, Failing

LEMMA IInvStep == IInv /\ [ServiceNext]_serviceVars => IInv'
<1> SUFFICES ASSUME IInv, [ServiceNext]_serviceVars PROVE IInv'
  OBVIOUS
<1>1. AttemptInv'
  <2>1. CASE \E t \in Threads : Wedged(t)
    BY <2>1, WedgedStays DEF AttemptInv
  <2>2. CASE ~ \E t \in Threads : Wedged(t)
    BY <2>2, FaultInvStep DEF IInv, AttemptInv
  <2> QED BY <2>1, <2>2
<1> QED BY <1>1, CallTypesStep, ClientTypesStep, RequestInvStep, AnswerInvStep DEF IInv

LEMMA IInvHolds == ServiceSpec => []IInv
  BY IInvInit, IInvStep, PTL DEF ServiceSpec

-----------------------------------------------------------------------------
(* AttemptsNotWasted: a call gives up only if a fault struck each of its   *)
(* attempts, or on a socket that a time-out has wedged (bg_task), and the  *)
(* threads hold whole requests (client.py:92-100).                         *)
THEOREM GivesUpOnFaults == ServiceSpec => []AttemptsNotWasted
<1>1. IInv => AttemptsNotWasted
  <2> SUFFICES ASSUME IInv PROVE AttemptsNotWasted
    OBVIOUS
  <2>1. CallTypes /\ ClientTypes /\ RequestInv /\ AttemptInv
    BY DEF IInv
  <2>2. OwnTask \subseteq TaskType
    BY <2>1, ServiceConstants DEF CallTypes, OwnTask, TaskType
  <2>3. task_queue \in Seq(TaskType) /\ \A t \in Threads : held[t] \in Seq(TaskType)
    BY <2>1, <2>2, SeqMonotonic DEF ClientTypes
  <2>4. \A t \in Threads :
          /\ IF thread[t] = "gather"
             THEN Len(held[t]) < num_microbatches /\ (held[t] # <<>> <=> mutex = t)
             ELSE thread[t] \in {"ready", "waiting"} /\ Len(held[t]) = num_microbatches
          /\ socket[t] \in {"send", "recv"}
          /\ wire[t] \in {"none", "sent", "answered", "refused", "lost"}
    BY <2>1 DEF ClientTypes, RequestInv
  <2>5. ServiceTypeOK
    BY <2>1, <2>3, <2>4 DEF ServiceTypeOK, CallTypes, ClientTypes, FutureType
  <2>6. outcome = "raised" => faulty = 0..MaxRetries \/ \E t \in Threads : Wedged(t)
    BY <2>1 DEF AttemptInv, FaultInv
  <2> QED BY <2>5, <2>6 DEF AttemptsNotWasted
<1> QED BY <1>1, IInvHolds, PTL

-----------------------------------------------------------------------------
(* ImplementsCall: what get_teacher_knowledge returns is about its own     *)
(* prompts, all of them and in order, whatever the threads, the teacher    *)
(* and earlier attempts do meanwhile.                                      *)
THEOREM CallImplemented == ServiceSpec => ImplementsCall
<1> USE DEF callerVars, clientVars
<1>1. ServiceInit => Implemented!Init
  BY DEF ServiceInit, Implemented!Init
<1>2. IInv /\ [ServiceNext]_serviceVars => [Implemented!Next]_Implemented!callVars
  <2> SUFFICES ASSUME IInv, [ServiceNext]_serviceVars
               PROVE  [Implemented!Next]_Implemented!callVars
    OBVIOUS
  <2>1. CallTypes /\ AnswerInv
    BY DEF IInv
  <2>2. CASE UNCHANGED <<caller, outcome, call, collected>>
    BY <2>2 DEF Implemented!callVars
  <2>3. CASE Ask
    <3>1. Implemented!Ask
      BY <2>3 DEF Ask, SubmitAll, Implemented!Ask
    <3> QED BY <3>1 DEF Implemented!Next
  <2>4. CASE Resubmit
    <3>1. outcome = "none" /\ outcome' = outcome /\ call' = call
          /\ caller # "idle" /\ caller' # "idle"
      BY <2>1, <2>4 DEF Resubmit, SubmitAll, AnswerInv
    <3> QED BY <3>1 DEF Implemented!callVars
  <2>5. CASE Collect
    <3>1. outcome = "none" /\ caller # "idle" /\ call' = call
      BY <2>1, <2>5 DEF Collect, AnswerInv
    <3>2. CASE caller' = "idle"
      <4>1. outcome' = "returned"
        BY <2>5, <3>2 DEF Collect
      <4>2. collected' = FirstParts(call, Parts)
        <5>1. AnswerInv'
          BY AnswerInvStep
        <5> QED BY <3>1, <4>1, <5>1 DEF AnswerInv
      <4>3. Implemented!Return
        BY <3>1, <3>2, <4>1, <4>2 DEF Implemented!Return, Implemented!Own, FirstParts
      <4> QED BY <4>3 DEF Implemented!Next
    <3>3. CASE caller' # "idle"
      <4>1. outcome' = outcome
        BY <2>5, <3>3 DEF Collect
      <4> QED BY <3>1, <3>3, <4>1 DEF Implemented!callVars
    <3> QED BY <3>2, <3>3
  <2>6. CASE CollectFailure
    <3>1. outcome = "none" /\ caller # "idle" /\ call' = call
      BY <2>1, <2>6 DEF CollectFailure, AnswerInv
    <3>2. CASE caller' = "idle"
      <4>1. outcome' = "raised"
        BY <2>6, <3>2 DEF CollectFailure
      <4>2. Implemented!Raise
        BY <3>1, <3>2, <4>1 DEF Implemented!Raise
      <4> QED BY <4>2 DEF Implemented!Next
    <3>3. CASE caller' # "idle"
      <4>1. outcome' = outcome
        BY <2>6, <3>3 DEF CollectFailure
      <4> QED BY <3>1, <3>3, <4>1 DEF Implemented!callVars
    <3> QED BY <3>2, <3>3
  <2>7. ASSUME NEW t \in Threads, Thread(t) \/ Service(t)
        PROVE  UNCHANGED <<caller, outcome, call, collected>>
    BY <2>7 DEF Thread, Service, Gather, PrepareFails, Send, SendFails, Receive, ReceiveError,
       Timeout, Fail, NextRound, Serve, ServeError, WorkerDies
  <2>8. CASE Done \/ UNCHANGED serviceVars
    BY <2>2, <2>8 DEF Done, serviceVars
  <2> QED BY <2>2, <2>3, <2>4, <2>5, <2>6, <2>7, <2>8 DEF ServiceNext, Caller
<1> QED BY <1>1, <1>2, IInvHolds, PTL DEF ServiceSpec, ImplementsCall, Implemented!Spec

=============================================================================
