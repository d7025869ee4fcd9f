---------------------------- MODULE AgentLoop_proofs ----------------------------
(***************************************************************************)
(* TrajectoryIntact of AgentLoop, for any kinds of loop, numbers of        *)
(* responses, limits, answers and synchronisations.  AgentInv ties, for    *)
(* every trajectory and wherever its coroutine stands, what the loop kept  *)
(* to what was said, and the place of the coroutine to the state it saved; *)
(* a trajectory that was completed is left alone from then on.             *)
(***************************************************************************)
EXTENDS AgentLoop, FiniteSetTheorems, SequenceTheorems, TLAPS

Voices == {"text", "open", "close"}
Vocabulary == Voices \cup {"observation"}
AgentStates == {"pending", "generating", "processing_tools", "interacting", "terminated"}
AgentData ==
  [state : AgentStates, response : Seq(Vocabulary), mask : Seq({0, 1}),
   logprobs : Seq(Voices \cup {"zero"}), response_ids : Seq(Voices),
   assistant_turns : Nat, user_turns : Nat, start : Nat]
ServerRequest == [tokens : Seq(Voices), finished : BOOLEAN, cancelled : BOOLEAN]
Utterance == [token : Vocabulary, version : Nat]
Tasks == {"none", "top", "calling", "serving", "tools", "interaction", "returned"}
Under == {"top", "calling", "serving", "tools", "interaction"}

(* The mask and the log-probabilities belong to the tokens.                *)
Marked(a) ==
  /\ Len(a.mask) = Len(a.response) /\ Len(a.logprobs) = Len(a.response)
  /\ \A k \in 1..Len(a.response) :
       IF a.response[k] = "observation" THEN a.mask[k] = 0 /\ a.logprobs[k] = "zero"
       ELSE a.mask[k] = 1 /\ a.logprobs[k] = a.response[k]

(* What was said is what the loop kept and what the server holds.          *)
Heard(t) ==
  LET kept == agent[t].response
      held == request[t].tokens
  IN /\ Len(said[t]) = Len(kept) + Len(held)
     /\ \A k \in 1..Len(kept) : said[t][k].token = kept[k]
     /\ \A k \in 1..Len(held) : said[t][Len(kept) + k].token = held[k]

(* The calls a turn asked for and the tools have not run yet.              *)
Owed(a) == IF a.state = "processing_tools" THEN ToolCalls(a.response_ids) ELSE 0

(* What the state of a loop, as it is saved across a cut, says of it.      *)
Sound(a) ==
  /\ Marked(a)
  /\ a.state \in {"processing_tools", "interacting"} => Len(a.mask) < ResponseLength
  /\ a.state \in {"processing_tools", "interacting", "terminated"} => a.response # <<>>
  /\ MaxAssistantTurns > 0 =>
       /\ a.assistant_turns <= MaxAssistantTurns
       /\ a.state # "terminated" => a.assistant_turns < MaxAssistantTurns
  /\ kind = "single_turn" => a.state = "pending"
  /\ kind = "tool" =>
       /\ a.state # "interacting"
       /\ a.assistant_turns = a.user_turns
            + IF a.state \in {"pending", "generating"} THEN 0 ELSE 1

(* There is room left wherever the engine may be asked for more.           *)
Fitting(t) ==
  /\ Len(agent[t].response) + Len(request[t].tokens) <= Room
  /\ agent[t].state \in {"pending", "generating"} /\ ~Completed(t) /\ ~request[t].finished =>
       Len(agent[t].response) + Len(request[t].tokens) < Room
  /\ request[t].finished => request[t].tokens # <<>>

Untouched(t) ==
  /\ agent[t] = Fresh /\ output[t] = NoAnswer
  /\ said[t] = <<>> /\ executed[t] = 0 /\ posted[t] = 0

Placed(t) ==
  /\ task[t] = "none" => Untouched(t)
  /\ task[t] \in {"calling", "serving"} =>
       agent[t].state = IF kind = "single_turn" THEN "pending" ELSE "generating"
  /\ task[t] \in {"top", "tools", "interaction"} => kind # "single_turn"
  /\ task[t] = "tools" => agent[t].state = "processing_tools"
  /\ task[t] = "interaction" => agent[t].state = "interacting"
  /\ task[t] # "serving" => request[t] = NoRequest

(* What a completed trajectory returned, and that it was posted.           *)
Answered(t) ==
  LET a == agent[t]
      o == output[t]
  IN /\ task[t] = "returned" /\ posted[t] = 1
     /\ a.response # <<>> /\ request[t] = NoRequest
     /\ o.response = Prefix(a.response, ResponseLength)
     /\ o.mask = Prefix(a.mask, ResponseLength)
     /\ o.logprobs = Prefix(a.logprobs, ResponseLength)
     /\ kind = "tool" => o.turns = 2 * (a.user_turns + 1)
     /\ o.start = a.start
     /\ \A k \in 1..Len(said[t]) : said[t][k].version \in o.start..o.end
Returned(t) ==
  /\ output[t].is_cancel \in BOOLEAN
  /\ Completed(t) => Answered(t)
  /\ ~Completed(t) => posted[t] = 0
  /\ task[t] = "returned" => output[t] # NoAnswer

Intact(t) ==
  /\ task[t] \in Tasks /\ agent[t] \in AgentData /\ request[t] \in ServerRequest
  /\ said[t] \in Seq(Utterance) /\ executed[t] \in Nat /\ posted[t] \in Nat
  /\ agent[t].start <= version
  /\ \A k \in 1..Len(said[t]) : said[t][k].version \in agent[t].start..version
  /\ Sound(agent[t]) /\ Heard(t) /\ Fitting(t) /\ Placed(t) /\ Returned(t)
  /\ executed[t] + Owed(agent[t]) <= ToolCalls(agent[t].response)

(* A sample under way has the weights it was submitted with, and only then *)
(* do its coroutines stand anywhere but at their two ends.                 *)
Phases ==
  /\ kind \in LoopKinds /\ version \in 0..MaxCuts /\ stamp \in 0..version
  /\ phase \in {"running", "cancelling", "resuming"}
  /\ event \in BOOLEAN /\ paused \in BOOLEAN
  /\ sample \in {"queued", "submitted", "running", "done"}
  /\ phase = "running" => version <= MaxCuts
  /\ phase = "cancelling" => version < MaxCuts
  /\ sample \in {"submitted", "running"} => stamp = version
  /\ sample \in {"queued", "submitted"} =>
       \A t \in Trajectories : task[t] \in {"none", "returned"}
  /\ sample = "running" => \A t \in Trajectories : task[t] # "none"
  /\ sample = "done" => \A t \in Trajectories : task[t] = "returned"

Arrays ==
  /\ DOMAIN task = Trajectories /\ DOMAIN agent = Trajectories
  /\ DOMAIN request = Trajectories /\ DOMAIN output = Trajectories
  /\ DOMAIN said = Trajectories /\ DOMAIN executed = Trajectories
  /\ DOMAIN posted = Trajectories

AgentInv == Arrays /\ Phases /\ \A t \in Trajectories : Intact(t)

-------------------------------------------------------------------------------
(* The operators on tokens.                                                *)
LEMMA Repeated ==
  ASSUME NEW S, NEW x \in S, NEW n \in Nat
  PROVE  Repeat(x, n) \in Seq(S) /\ Len(Repeat(x, n)) = n /\ \A k \in 1..n : Repeat(x, n)[k] = x
<1>1. Repeat(x, n) \in Seq(S)
  BY IsASeq DEF Repeat
<1>2. DOMAIN Repeat(x, n) = 1..n /\ \A k \in 1..n : Repeat(x, n)[k] = x
  BY DEF Repeat
<1>3. Len(Repeat(x, n)) = n
  BY <1>1, <1>2, LenProperties
<1> QED
  BY <1>1, <1>2, <1>3

(* Where a sequence of tokens has a call.                                  *)
CallsAt(s) == {k \in 2..Len(s) : s[k - 1] = "open" /\ s[k] = "close"}

LEMMA CallsFinite ==
  ASSUME NEW S, NEW s \in Seq(S)
  PROVE  IsFiniteSet(CallsAt(s)) /\ ToolCalls(s) = Cardinality(CallsAt(s)) /\ ToolCalls(s) \in Nat
<1>1. CallsAt(s) \subseteq 2..Len(s) /\ Len(s) \in Int
  BY LenProperties DEF CallsAt
<1>2. IsFiniteSet(CallsAt(s))
  BY <1>1, FS_Interval, FS_Subset
<1>3. ToolCalls(s) = Cardinality(CallsAt(s))
  BY DEF ToolCalls, CallsAt
<1> QED
  BY <1>2, <1>3, FS_CardinalityType

(* A sequence has the calls of its beginning.                              *)
LEMMA CallsOfLonger ==
  ASSUME NEW S, NEW s \in Seq(S), NEW r \in Seq(S),
         Len(s) <= Len(r), \A k \in 1..Len(s) : r[k] = s[k]
  PROVE  ToolCalls(s) <= ToolCalls(r)
<1>1. Len(s) \in Nat /\ Len(r) \in Nat
  BY LenProperties
<1>2. CallsAt(s) \in SUBSET CallsAt(r)
  BY <1>1 DEF CallsAt
<1> QED
  BY <1>2, CallsFinite, FS_Subset

(* Appending to it adds the calls of what is appended.                     *)
LEMMA CallsAdded ==
  ASSUME NEW S, NEW s \in Seq(S), NEW r \in Seq(S)
  PROVE  ToolCalls(s) + ToolCalls(r) <= ToolCalls(s \o r)
<1> DEFINE n == Len(s)
           Moved == {k \in (n + 2)..(n + Len(r)) : r[k - n - 1] = "open" /\ r[k - n] = "close"}
           f == [k \in Moved |-> k - n]
<1>1. n \in Nat /\ Len(r) \in Nat
  BY LenProperties
<1>2. /\ s \o r \in Seq(S) /\ Len(s \o r) = n + Len(r)
      /\ \A k \in 1..(n + Len(r)) : (s \o r)[k] = IF k <= n THEN s[k] ELSE r[k - n]
  BY ConcatProperties
<1>3. CallsAt(s) \cup Moved \in SUBSET CallsAt(s \o r)
  <2>1. ASSUME NEW k \in CallsAt(s) PROVE k \in CallsAt(s \o r)
    BY <1>1, <1>2 DEF CallsAt
  <2>2. ASSUME NEW k \in Moved PROVE k \in CallsAt(s \o r)
    <3>1. /\ k \in 2..Len(s \o r) /\ k - 1 \in 1..(n + Len(r)) /\ k \in 1..(n + Len(r))
          /\ ~(k - 1 <= n) /\ ~(k <= n) /\ (k - 1) - n = k - n - 1
      BY <1>1, <1>2
    <3>2. (s \o r)[k - 1] = r[k - n - 1] /\ (s \o r)[k] = r[k - n]
      BY <1>2, <3>1
    <3> QED
      BY <3>1, <3>2 DEF CallsAt
  <2> QED
    BY <2>1, <2>2
<1>4. IsFiniteSet(Moved)
  <2>1. Moved \in SUBSET ((n + 2)..(n + Len(r))) /\ n + 2 \in Int /\ n + Len(r) \in Int
    BY <1>1
  <2> QED
    BY <2>1, FS_Interval, FS_Subset
<1>5. ExistsBijection(Moved, CallsAt(r))
  <2>1. f \in [Moved -> CallsAt(r)]
    BY <1>1 DEF CallsAt
  <2>2. \A x, y \in Moved : f[x] = f[y] => x = y
    BY <1>1
  <2>3. \A y \in CallsAt(r) : \E x \in Moved : f[x] = y
    <3> TAKE y \in CallsAt(r)
    <3>1. y + n \in Moved
      BY <1>1 DEF CallsAt
    <3>2. f[y + n] = y
      BY <1>1, <3>1 DEF CallsAt
    <3> QED
      BY <3>1, <3>2
  <2>4. f \in Injection(Moved, CallsAt(r))
    <3>1. DOMAIN f = Moved
      OBVIOUS
    <3> HIDE DEF Moved, f
    <3> QED
      BY <2>1, <2>2, <3>1 DEF Injection, IsInjective
  <2>5. f \in Surjection(Moved, CallsAt(r))
    <3> HIDE DEF Moved, f
    <3> QED
      BY <2>1, <2>3 DEF Surjection
  <2> QED
    BY <2>4, <2>5 DEF ExistsBijection, Bijection
<1>6. CallsAt(s) \cap Moved = {}
  BY <1>1 DEF CallsAt
<1>7. Cardinality(Moved) = ToolCalls(r)
  BY <1>4, <1>5, FS_Bijection, CallsFinite
<1>8. Cardinality(CallsAt(s) \cup Moved) = Cardinality(CallsAt(s)) + Cardinality(Moved)
  <2>1. IsFiniteSet(CallsAt(s)) /\ Cardinality(CallsAt(s)) \in Nat /\ Cardinality(Moved) \in Nat
    BY <1>4, CallsFinite, FS_CardinalityType
  <2>2. Cardinality(CallsAt(s) \cap Moved) = 0
    BY <1>6, FS_EmptySet
  <2>3. Cardinality(CallsAt(s) \cup Moved) =
          Cardinality(CallsAt(s)) + Cardinality(Moved) - Cardinality(CallsAt(s) \cap Moved)
    BY <1>4, <2>1, FS_Union
  <2> QED
    BY <2>1, <2>2, <2>3
<1>9. Cardinality(CallsAt(s) \cup Moved) <= Cardinality(CallsAt(s \o r))
  <2>1. IsFiniteSet(CallsAt(s \o r))
    BY <1>2, CallsFinite
  <2> QED
    BY <1>3, <2>1, FS_Subset
<1>10. ToolCalls(s) = Cardinality(CallsAt(s)) /\ ToolCalls(s \o r) = Cardinality(CallsAt(s \o r))
  BY DEF ToolCalls, CallsAt
<1> QED
  BY <1>7, <1>8, <1>9, <1>10

(* b is what a was, with tokens appended to its response.                  *)
GrownBy(tokens, a, b) ==
  /\ b \in AgentData /\ Marked(b)
  /\ b.state = a.state /\ b.assistant_turns = a.assistant_turns /\ b.start = a.start
  /\ b.response = a.response \o tokens
  /\ Len(b.response) = Len(a.response) + Len(tokens) /\ Len(b.mask) = Len(b.response)
  /\ \A k \in 1..Len(a.response) : b.response[k] = a.response[k]
  /\ \A k \in 1..Len(tokens) : b.response[Len(a.response) + k] = tokens[k]

(* What the loop appends for a generation.                                 *)
LEMMA Extended ==
  ASSUME NEW a \in AgentData, Marked(a), NEW tokens \in Seq(Voices)
  PROVE  /\ GrownBy(tokens, a, Extend(a, tokens))
         /\ Extend(a, tokens).user_turns = a.user_turns
         /\ Extend(a, tokens).response_ids = tokens
<1> DEFINE b == Extend(a, tokens)
            n == Len(a.response)
           m == Len(tokens)
           ones == Repeat(1, m)
<1>1. /\ a.response \in Seq(Vocabulary) /\ a.mask \in Seq({0, 1})
      /\ a.logprobs \in Seq(Voices \cup {"zero"})
      /\ tokens \in Seq(Vocabulary) /\ tokens \in Seq(Voices \cup {"zero"})
  BY SeqMonotonic DEF AgentData, Vocabulary
<1>2. n \in Nat /\ m \in Nat /\ Len(a.mask) = n /\ Len(a.logprobs) = n
  BY <1>1, LenProperties DEF Marked
<1>3. ones \in Seq({0, 1}) /\ Len(ones) = m /\ \A k \in 1..m : ones[k] = 1
  BY <1>2, Repeated
<1>4. /\ a.response \o tokens \in Seq(Vocabulary) /\ Len(a.response \o tokens) = n + m
      /\ \A k \in 1..(n + m) :
           (a.response \o tokens)[k] = IF k <= n THEN a.response[k] ELSE tokens[k - n]
  BY <1>1, ConcatProperties
<1>5. /\ a.mask \o ones \in Seq({0, 1}) /\ Len(a.mask \o ones) = n + m
      /\ \A k \in 1..(n + m) : (a.mask \o ones)[k] = IF k <= n THEN a.mask[k] ELSE ones[k - n]
  <2>1. /\ a.mask \o ones \in Seq({0, 1})
        /\ Len(a.mask \o ones) = Len(a.mask) + Len(ones)
        /\ \A k \in 1..(Len(a.mask) + Len(ones)) :
             (a.mask \o ones)[k] = IF k <= Len(a.mask) THEN a.mask[k] ELSE ones[k - Len(a.mask)]
    BY <1>1, <1>3, ConcatProperties
  <2> QED
    BY <1>2, <1>3, <2>1
<1>6. /\ a.logprobs \o tokens \in Seq(Voices \cup {"zero"}) /\ Len(a.logprobs \o tokens) = n + m
      /\ \A k \in 1..(n + m) :
           (a.logprobs \o tokens)[k] = IF k <= n THEN a.logprobs[k] ELSE tokens[k - n]
  <2>1. /\ a.logprobs \o tokens \in Seq(Voices \cup {"zero"})
        /\ Len(a.logprobs \o tokens) = Len(a.logprobs) + Len(tokens)
        /\ \A k \in 1..(Len(a.logprobs) + Len(tokens)) :
             (a.logprobs \o tokens)[k] = IF k <= Len(a.logprobs) THEN a.logprobs[k] ELSE tokens[k - Len(a.logprobs)]
    BY <1>1, ConcatProperties
  <2> QED
    BY <1>2, <2>1
<1>7. /\ b.response = a.response \o tokens /\ b.mask = a.mask \o ones
      /\ b.logprobs = a.logprobs \o tokens /\ b.response_ids = tokens
      /\ b.state = a.state /\ b.assistant_turns = a.assistant_turns
      /\ b.user_turns = a.user_turns /\ b.start = a.start
  BY DEF Extend, AgentData
<1>8. b \in AgentData
  BY <1>4, <1>5, <1>6 DEF Extend, AgentData
<1> HIDE DEF ones, b
<1>9. Marked(b)
  <2>1. Len(b.mask) = Len(b.response) /\ Len(b.logprobs) = Len(b.response)
    BY <1>4, <1>5, <1>6, <1>7
  <2>2. ASSUME NEW k \in 1..(n + m)
        PROVE  IF b.response[k] = "observation" THEN b.mask[k] = 0 /\ b.logprobs[k] = "zero"
               ELSE b.mask[k] = 1 /\ b.logprobs[k] = b.response[k]
    <3>1. CASE k <= n
      <4>1. k \in 1..n
        BY <1>2, <3>1
      <4>2. /\ b.response[k] = a.response[k] /\ b.mask[k] = a.mask[k]
            /\ b.logprobs[k] = a.logprobs[k]
        BY <1>4, <1>5, <1>6, <1>7, <3>1
      <4> QED
        BY <4>1, <4>2 DEF Marked
    <3>2. CASE ~(k <= n)
      <4>1. k - n \in 1..m
        BY <1>2, <3>2
      <4>2. /\ b.response[k] = tokens[k - n] /\ b.mask[k] = ones[k - n]
            /\ b.logprobs[k] = tokens[k - n]
        BY <1>4, <1>5, <1>6, <1>7, <3>2
      <4>3. tokens[k - n] \in Voices
        BY <4>1, ElementOfSeq
      <4> QED
        BY <1>3, <4>1, <4>2, <4>3 DEF Voices
    <3> QED
      BY <3>1, <3>2
  <2> QED
    BY <1>4, <1>7, <2>1, <2>2 DEF Marked
<1>10. \A k \in 1..n : b.response[k] = a.response[k]
  BY <1>2, <1>4, <1>7
<1>11. \A k \in 1..m : b.response[n + k] = tokens[k]
  <2> TAKE k \in 1..m
  <2>1. n + k \in 1..(n + m) /\ ~(n + k <= n) /\ (n + k) - n = k
    BY <1>2
  <2> QED
    BY <1>4, <1>7, <2>1
<1> QED
  BY <1>2, <1>4, <1>5, <1>7, <1>8, <1>9, <1>10, <1>11 DEF GrownBy, b

(* What it appends for tools and users, once it has something.             *)
LEMMA Observed ==
  ASSUME NEW a \in AgentData, Marked(a), a.response # <<>>, NEW m \in Nat \ {0}
  PROVE  /\ GrownBy(Repeat("observation", m), a, ExtendByObservation(a, m))
         /\ ExtendByObservation(a, m).user_turns = a.user_turns + 1
         /\ Len(Repeat("observation", m)) = m
<1> DEFINE b == ExtendByObservation(a, m)
           n == Len(a.response)
           o == Repeat("observation", m)
           noughts == Repeat(0, m)
           zeros == Repeat("zero", m)
<1>1. /\ a.response \in Seq(Vocabulary) /\ a.mask \in Seq({0, 1})
      /\ a.logprobs \in Seq(Voices \cup {"zero"})
  BY DEF AgentData
<1>2. n \in Nat \ {0} /\ Len(a.mask) = n /\ Len(a.logprobs) = n
  BY <1>1, LenProperties, EmptySeq DEF Marked
<1>3. /\ o \in Seq(Vocabulary) /\ Len(o) = m /\ \A k \in 1..m : o[k] = "observation"
  BY Repeated DEF Vocabulary
<1>4. /\ noughts \in Seq({0, 1}) /\ Len(noughts) = m /\ \A k \in 1..m : noughts[k] = 0
  BY Repeated
<1>5. /\ zeros \in Seq(Voices \cup {"zero"}) /\ Len(zeros) = m
      /\ \A k \in 1..m : zeros[k] = "zero"
  BY Repeated
<1> HIDE DEF o, noughts, zeros
<1>6. /\ a.response \o o \in Seq(Vocabulary) /\ Len(a.response \o o) = n + m
      /\ \A k \in 1..(n + m) : (a.response \o o)[k] = IF k <= n THEN a.response[k] ELSE o[k - n]
  <2>1. /\ a.response \o o \in Seq(Vocabulary)
        /\ Len(a.response \o o) = Len(a.response) + Len(o)
        /\ \A k \in 1..(Len(a.response) + Len(o)) :
             (a.response \o o)[k] = IF k <= Len(a.response) THEN a.response[k] ELSE o[k - Len(a.response)]
    BY <1>1, <1>3, ConcatProperties
  <2> QED
    BY <1>2, <1>3, <2>1
<1>7. /\ a.mask \o noughts \in Seq({0, 1}) /\ Len(a.mask \o noughts) = n + m
      /\ \A k \in 1..(n + m) :
           (a.mask \o noughts)[k] = IF k <= n THEN a.mask[k] ELSE noughts[k - n]
  <2>1. /\ a.mask \o noughts \in Seq({0, 1})
        /\ Len(a.mask \o noughts) = Len(a.mask) + Len(noughts)
        /\ \A k \in 1..(Len(a.mask) + Len(noughts)) :
             (a.mask \o noughts)[k] = IF k <= Len(a.mask) THEN a.mask[k] ELSE noughts[k - Len(a.mask)]
    BY <1>1, <1>4, ConcatProperties
  <2> QED
    BY <1>2, <1>4, <2>1
<1>8. /\ a.logprobs \o zeros \in Seq(Voices \cup {"zero"}) /\ Len(a.logprobs \o zeros) = n + m
      /\ \A k \in 1..(n + m) :
           (a.logprobs \o zeros)[k] = IF k <= n THEN a.logprobs[k] ELSE zeros[k - n]
  <2>1. /\ a.logprobs \o zeros \in Seq(Voices \cup {"zero"})
        /\ Len(a.logprobs \o zeros) = Len(a.logprobs) + Len(zeros)
        /\ \A k \in 1..(Len(a.logprobs) + Len(zeros)) :
             (a.logprobs \o zeros)[k] = IF k <= Len(a.logprobs) THEN a.logprobs[k] ELSE zeros[k - Len(a.logprobs)]
    BY <1>1, <1>5, ConcatProperties
  <2> QED
    BY <1>2, <1>5, <2>1
<1>9. a.logprobs # <<>>
  BY <1>2, EmptySeq
<1>10. b = [a EXCEPT !.response = @ \o o, !.mask = @ \o noughts, !.logprobs = @ \o zeros,
                     !.user_turns = @ + 1]
  BY <1>9 DEF ExtendByObservation, AgentData, o, noughts, zeros
<1>11. /\ b.response = a.response \o o /\ b.mask = a.mask \o noughts
       /\ b.logprobs = a.logprobs \o zeros
       /\ b.state = a.state /\ b.assistant_turns = a.assistant_turns
       /\ b.user_turns = a.user_turns + 1 /\ b.start = a.start
  BY <1>10 DEF AgentData
<1>12. b \in AgentData
  <2>1. a.user_turns + 1 \in Nat
    BY DEF AgentData
  <2>2. b = [state |-> a.state, response |-> a.response \o o, mask |-> a.mask \o noughts,
             logprobs |-> a.logprobs \o zeros, response_ids |-> a.response_ids,
             assistant_turns |-> a.assistant_turns, user_turns |-> a.user_turns + 1,
             start |-> a.start]
    BY <1>10 DEF AgentData
  <2> QED
    BY <1>6, <1>7, <1>8, <2>1, <2>2 DEF AgentData
<1> HIDE DEF b
<1>13. Marked(b)
  <2>1. Len(b.mask) = Len(b.response) /\ Len(b.logprobs) = Len(b.response)
    BY <1>6, <1>7, <1>8, <1>11
  <2>2. ASSUME NEW k \in 1..(n + m)
        PROVE  IF b.response[k] = "observation" THEN b.mask[k] = 0 /\ b.logprobs[k] = "zero"
               ELSE b.mask[k] = 1 /\ b.logprobs[k] = b.response[k]
    <3>1. CASE k <= n
      <4>1. k \in 1..n
        BY <1>2, <3>1
      <4>2. /\ b.response[k] = a.response[k] /\ b.mask[k] = a.mask[k]
            /\ b.logprobs[k] = a.logprobs[k]
        BY <1>6, <1>7, <1>8, <1>11, <3>1
      <4> QED
        BY <4>1, <4>2 DEF Marked
    <3>2. CASE ~(k <= n)
      <4>1. k - n \in 1..m
        BY <1>2, <3>2
      <4>2. /\ b.response[k] = o[k - n] /\ b.mask[k] = noughts[k - n]
            /\ b.logprobs[k] = zeros[k - n]
        BY <1>6, <1>7, <1>8, <1>11, <3>2
      <4> QED
        BY <1>3, <1>4, <1>5, <4>1, <4>2
    <3> QED
      BY <3>1, <3>2
  <2> QED
    BY <1>6, <1>11, <2>1, <2>2 DEF Marked
<1>14. \A k \in 1..n : b.response[k] = a.response[k]
  BY <1>2, <1>6, <1>11
<1>15. \A k \in 1..m : b.response[n + k] = o[k]
  <2> TAKE k \in 1..m
  <2>1. n + k \in 1..(n + m) /\ ~(n + k <= n) /\ (n + k) - n = k
    BY <1>2
  <2> QED
    BY <1>3, <1>6, <1>11, <2>1
<1> QED
  BY <1>2, <1>3, <1>6, <1>7, <1>11, <1>12, <1>13, <1>14, <1>15 DEF GrownBy, b, o

-------------------------------------------------------------------------------
(* One trajectory at a time.                                               *)
Same(t) ==
  /\ task'[t] = task[t] /\ agent'[t] = agent[t] /\ request'[t] = request[t]
  /\ output'[t] = output[t] /\ said'[t] = said[t]
  /\ executed'[t] = executed[t] /\ posted'[t] = posted[t]

(* A trajectory left alone stays intact, also when the weights are newer.  *)
LEMMA LeftAlone ==
  ASSUME NEW t, Intact(t), Same(t), kind' = kind,
         version \in Nat, version' \in Nat, version <= version'
  PROVE  Intact(t)'
<1> USE DEF Intact, Same
<1>1. /\ Sound(agent[t])' /\ Heard(t)' /\ Fitting(t)' /\ Placed(t)' /\ Returned(t)'
  <2>1. Sound(agent[t])'
    BY DEF Sound
  <2>2. Heard(t)' /\ Fitting(t)'
    BY DEF Heard, Fitting, Completed
  <2>3. Placed(t)' /\ Returned(t)'
    BY DEF Placed, Returned, Untouched, Answered, Completed
  <2> QED
    BY <2>1, <2>2, <2>3
<1>2. agent[t].start \in Nat
  BY DEF AgentData
<1>3. \A k \in 1..Len(said[t]) : said[t][k].version \in agent[t].start..version'
  BY <1>2
<1>4. agent[t].start <= version'
  BY <1>2
<1> QED
  BY <1>1, <1>3, <1>4

(* A coroutine runs while its sample does, on the weights of its stamp.    *)
LEMMA UnderWay ==
  ASSUME AgentInv, NEW t \in Trajectories, task[t] \in Under
  PROVE  sample = "running" /\ stamp = version
BY DEF AgentInv, Phases, Under

LEMMA OneMoves ==
  ASSUME AgentInv, NEW t \in Trajectories, task[t] \in Under, UNCHANGED loopOnly, Arrays',
         \A u \in Trajectories \ {t} : Same(u), Intact(t)', task'[t] # "none"
  PROVE  AgentInv'
<1>1. sample = "running" /\ kind' = kind /\ version' = version /\ version \in Nat
  BY UnderWay DEF loopOnly, AgentInv, Phases
<1>2. Trajectories' = Trajectories
  BY <1>1 DEF Trajectories
<1>3. \A u \in Trajectories : Intact(u)'
  <2> TAKE u \in Trajectories
  <2>1. CASE u = t
    BY <2>1
  <2>2. CASE u # t
    BY <1>1, <2>2, LeftAlone DEF AgentInv
  <2> QED
    BY <2>1, <2>2
<1>4. Phases'
  <2>1. Phases
    BY DEF AgentInv
  <2>2. \A u \in Trajectories : task'[u] # "none"
    BY <1>1, <2>1 DEF Phases, Same
  <2> QED
    BY <1>1, <1>2, <2>1, <2>2 DEF Phases, loopOnly
<1> QED
  BY <1>2, <1>3, <1>4 DEF AgentInv

(* A coroutine that is not done has answered nothing yet.                  *)
LEMMA NotAnswered ==
  ASSUME NEW t, Intact(t), task[t] # "returned"
  PROVE  ~Completed(t) /\ posted[t] = 0
BY DEF Intact, Returned, Answered

(* What it takes to be intact at the top of the state machine.             *)
LEMMA AtTop ==
  ASSUME NEW t, Intact(t), task[t] # "returned", kind # "single_turn",
         UNCHANGED <<kind, version>>, output'[t] = output[t], posted'[t] = posted[t],
         task'[t] = "top", request'[t] = NoRequest,
         NEW c, agent'[t] = c, c \in AgentData, Sound(c), c.start = agent[t].start,
         said'[t] \in Seq(Utterance), Len(said'[t]) = Len(c.response),
         \A k \in 1..Len(c.response) : said'[t][k].token = c.response[k]
                                         /\ said'[t][k].version \in c.start..version,
         Len(c.response) <= Room,
         c.state \in {"pending", "generating"} => Len(c.response) < Room,
         executed'[t] \in Nat, executed'[t] + Owed(c) <= ToolCalls(c.response)
  PROVE  Intact(t)'
<1>1. NoRequest \in ServerRequest /\ NoRequest.tokens = <<>> /\ NoRequest.finished = FALSE
  BY EmptySeq DEF NoRequest, ServerRequest
<1>2. Len(c.response) \in Nat /\ Len(<<>>) = 0
  BY LenProperties, EmptySeq DEF AgentData
<1>3. Heard(t)'
  BY <1>1, <1>2 DEF Heard
<1>4. Fitting(t)'
  BY <1>1, <1>2 DEF Fitting
<1>5. Placed(t)'
  BY DEF Placed
<1>6. Returned(t)'
  BY NotAnswered DEF Intact, Returned, Completed
<1>7. Sound(agent[t])'
  BY DEF Sound
<1>8. task'[t] \in Tasks /\ posted'[t] \in Nat /\ c.start <= version'
  BY DEF Intact, Tasks
<1> QED
  BY <1>1, <1>3, <1>4, <1>5, <1>6, <1>7, <1>8 DEF Intact

(* What a reply of the server brings, whichever way it comes.              *)
LEMMA Replied ==
  ASSUME NEW t, Intact(t), Refuses(t) \/ Answers(t), NEW b, b = Extend(agent[t], Tokens(t))
  PROVE  /\ task[t] \in {"calling", "serving"}
         /\ Tokens(t) \in Seq(Voices) /\ (IsCancel(t) <=> ~request[t].finished)
         /\ b \in AgentData /\ Marked(b)
         /\ b.state = agent[t].state /\ b.assistant_turns = agent[t].assistant_turns
         /\ b.user_turns = agent[t].user_turns /\ b.start = agent[t].start
         /\ b.response_ids = Tokens(t) /\ Len(b.mask) = Len(b.response)
         /\ Len(said[t]) = Len(b.response)
         /\ \A k \in 1..Len(b.response) : said[t][k].token = b.response[k]
         /\ Len(b.response) \in Nat /\ Len(b.response) <= Room
         /\ IsCancel(t) => Len(b.response) < Room
         /\ ~IsCancel(t) => b.response # <<>>
         /\ executed[t] + ToolCalls(Tokens(t)) <= ToolCalls(b.response)
<1> DEFINE a == agent[t]
<1>1. task[t] \in {"calling", "serving"}
  BY DEF Refuses, Answers
<1>2. /\ a \in AgentData /\ Marked(a) /\ request[t] \in ServerRequest
      /\ a.state \in {"pending", "generating"} /\ ~Completed(t)
  BY <1>1, NotAnswered DEF Intact, Sound, Placed
<1> DEFINE held == request[t].tokens
<1>3. Tokens(t) = held /\ (IsCancel(t) <=> ~request[t].finished)
  <2>1. CASE Refuses(t)
    <3>1. request[t] = NoRequest
      BY <2>1 DEF Refuses, Intact, Placed
    <3> QED
      BY <2>1, <3>1 DEF Tokens, IsCancel, NoRequest
  <2>2. CASE ~Refuses(t)
    BY <2>2 DEF Tokens, IsCancel
  <2> QED
    BY <2>1, <2>2
<1>4. Tokens(t) \in Seq(Voices)
  BY <1>2, <1>3 DEF ServerRequest
<1>5. /\ b \in AgentData /\ Marked(b)
      /\ b.state = a.state /\ b.assistant_turns = a.assistant_turns
      /\ b.user_turns = a.user_turns /\ b.start = a.start /\ b.response_ids = Tokens(t)
      /\ b.response = a.response \o Tokens(t)
      /\ Len(b.response) = Len(a.response) + Len(Tokens(t)) /\ Len(b.mask) = Len(b.response)
      /\ \A k \in 1..Len(a.response) : b.response[k] = a.response[k]
      /\ \A k \in 1..Len(Tokens(t)) : b.response[Len(a.response) + k] = Tokens(t)[k]
  BY <1>2, <1>4, Extended DEF GrownBy
<1>6. Len(a.response) \in Nat /\ Len(Tokens(t)) \in Nat /\ Len(b.response) \in Nat
  BY <1>2, <1>4, <1>5, LenProperties DEF AgentData
<1>. /\ Len(said[t]) = Len(a.response) + Len(held)
     /\ \A k \in 1..Len(a.response) : said[t][k].token = a.response[k]
     /\ \A k \in 1..Len(held) : said[t][Len(a.response) + k].token = held[k]
  BY DEF Intact, Heard
<1>7. Len(said[t]) = Len(b.response)
  BY <1>3, <1>5
<1>8. \A k \in 1..Len(b.response) : said[t][k].token = b.response[k]
  <2> TAKE k \in 1..Len(b.response)
  <2>1. CASE k <= Len(a.response)
    <3>1. k \in 1..Len(a.response)
      BY <1>6, <2>1
    <3> QED
      BY <1>5, <3>1
  <2>2. CASE ~(k <= Len(a.response))
    <3> DEFINE i == k - Len(a.response)
    <3>1. i \in 1..Len(Tokens(t)) /\ Len(a.response) + i = k
      <4> DEFINE n == Len(a.response)
                 m == Len(Tokens(t))
                 l == Len(b.response)
      <4>1. l = n + m /\ n \in Nat /\ m \in Nat /\ k \in 1..l /\ ~(k <= n) /\ i = k - n
        BY <1>5, <1>6, <2>2
      <4> HIDE DEF n, m, l, i
      <4>2. i \in 1..m /\ n + i = k
        BY <4>1
      <4> QED
        BY <4>2 DEF n, m
    <3>2. said[t][Len(a.response) + i].token = Tokens(t)[i]
      <4>1. i \in 1..Len(held)
        BY <1>3, <3>1
      <4> HIDE DEF i
      <4>2. said[t][Len(a.response) + i].token = held[i]
        BY <4>1
      <4> QED
        BY <1>3, <4>2
    <3> QED
      BY <1>5, <3>1, <3>2
  <2> QED
    BY <2>1, <2>2
<1>9. Len(b.response) <= Room /\ (IsCancel(t) => Len(b.response) < Room)
  BY <1>2, <1>3, <1>5 DEF Intact, Fitting
<1>10. ~IsCancel(t) => b.response # <<>>
  <2> SUFFICES ASSUME ~IsCancel(t) PROVE b.response # <<>>
    OBVIOUS
  <2>1. Len(Tokens(t)) \in Nat \ {0}
    BY <1>3, <1>4, EmptySeq DEF Intact, Fitting
  <2>2. Len(b.response) # 0
    BY <1>5, <1>6, <2>1
  <2> QED
    BY <2>2, EmptySeq
<1>11. executed[t] + ToolCalls(Tokens(t)) <= ToolCalls(b.response)
  <2>1. a.response \in Seq(Vocabulary) /\ Tokens(t) \in Seq(Vocabulary)
    BY <1>2, <1>4, SeqMonotonic DEF AgentData, Vocabulary
  <2>2. ToolCalls(a.response) + ToolCalls(Tokens(t)) <= ToolCalls(b.response)
    BY <1>5, <2>1, CallsAdded
  <2>3. executed[t] <= ToolCalls(a.response) /\ executed[t] \in Nat
    BY <1>2 DEF Intact, Owed
  <2>4. /\ ToolCalls(a.response) \in Nat /\ ToolCalls(Tokens(t)) \in Nat
        /\ b.response \in Seq(Vocabulary)
    BY <1>5, <2>1, CallsFinite DEF AgentData
  <2>5. ToolCalls(b.response) \in Nat
    BY <2>4, CallsFinite
  <2> QED
    BY <2>2, <2>3, <2>4, <2>5
<1> QED
  BY <1>1, <1>3, <1>4, <1>5, <1>6, <1>7, <1>8, <1>9, <1>10, <1>11

-------------------------------------------------------------------------------
(* The steps of the server and of the loops.                               *)
LEMMA AdmitStep ==
  ASSUME AgentInv, NEW t \in Trajectories, AgentAdmit(t)
  PROVE  AgentInv'
<1>1. Intact(t) /\ task[t] = "calling" /\ request[t] = NoRequest
  BY DEF AgentInv, AgentAdmit, Intact, Placed
<1>2. /\ task'[t] = "serving" /\ request'[t] = NoRequest
      /\ \A u \in Trajectories \ {t} : task'[u] = task[u] /\ request'[u] = request[u]
      /\ Arrays'
  BY DEF AgentAdmit, AgentInv, Arrays, Trajectories
<1>3. UNCHANGED <<loopOnly, agent, output, said, executed, posted>>
  BY DEF AgentAdmit, loopOnly
<1>4. Intact(t)'
  <2>1. Sound(agent[t])' /\ Heard(t)' /\ Fitting(t)'
    BY <1>1, <1>2, <1>3 DEF Intact, Sound, Heard, Fitting, Completed, loopOnly
  <2>2. Placed(t)' /\ Returned(t)'
    BY <1>1, <1>2, <1>3, NotAnswered DEF Intact, Placed, Returned, Completed, loopOnly
  <2> QED
    BY <1>1, <1>2, <1>3, <2>1, <2>2 DEF Intact, Tasks, loopOnly
<1> QED
  BY <1>1, <1>2, <1>3, <1>4, OneMoves DEF Same, Under

LEMMA EmitStep ==
  ASSUME AgentInv, NEW t \in Trajectories, Emit(t)
  PROVE  AgentInv'
<1> DEFINE held == request[t].tokens
           kept == agent[t].response
<1>1. /\ Intact(t) /\ task[t] = "serving" /\ request[t].finished = FALSE
      /\ request[t] \in ServerRequest /\ agent[t] \in AgentData
      /\ agent[t].start <= version /\ version \in Nat /\ agent[t].start \in Nat
  BY SMTT(60) DEF AgentInv, Emit, Intact, ServerRequest, AgentData, Phases
<1>2. PICK tok \in NextTokens(t), ends \in BOOLEAN :
        /\ Len(kept) + Len(Append(held, tok)) = Room => ends
        /\ request' = [request EXCEPT ![t].tokens = Append(held, tok), ![t].finished = ends]
        /\ said' = [said EXCEPT ![t] = Append(@, [token |-> tok, version |-> version])]
  BY DEF Emit
<1>3. UNCHANGED <<loopOnly, task, agent, output, executed, posted>>
  BY DEF Emit, loopOnly
<1>4. tok \in Voices
  BY DEF NextTokens, Voices
<1> DEFINE now == Append(held, tok)
           word == [token |-> tok, version |-> version]
<1>5. /\ request'[t] = [request[t] EXCEPT !.tokens = now, !.finished = ends]
      /\ said'[t] = Append(said[t], word)
      /\ \A u \in Trajectories \ {t} : said'[u] = said[u] /\ request'[u] = request[u]
      /\ Arrays'
  BY <1>2, <1>3 DEF AgentInv, Arrays, Trajectories, loopOnly
<1>6. /\ held \in Seq(Voices) /\ kept \in Seq(Vocabulary) /\ said[t] \in Seq(Utterance)
      /\ word \in Utterance
  BY <1>1, <1>4 DEF Intact, ServerRequest, AgentData, Utterance, Vocabulary
<1>7. /\ now \in Seq(Voices) /\ now # <<>> /\ Len(now) = Len(held) + 1
      /\ \A k \in 1..Len(held) : now[k] = held[k]
      /\ now[Len(held) + 1] = tok
  BY <1>4, <1>6, AppendProperties
<1>8. /\ said'[t] \in Seq(Utterance) /\ Len(said'[t]) = Len(said[t]) + 1
      /\ \A k \in 1..Len(said[t]) : said'[t][k] = said[t][k]
      /\ said'[t][Len(said[t]) + 1] = word
  BY <1>5, <1>6, AppendProperties
<1>9. Len(held) \in Nat /\ Len(kept) \in Nat /\ Len(said[t]) = Len(kept) + Len(held)
  BY <1>1, <1>6, LenProperties DEF Intact, Heard
<1>10. request'[t] \in ServerRequest /\ request'[t].tokens = now /\ request'[t].finished = ends
  BY <1>1, <1>5, <1>7 DEF ServerRequest
<1> HIDE DEF now
<1> DEFINE n == Len(kept)
           m == Len(held)
           l == Len(said[t])
<1>15. Len(now) = m + 1 /\ Len(said'[t]) = l + 1
  BY <1>7, <1>8
<1> HIDE DEF n, m, l
<1>16. n \in Nat /\ m \in Nat /\ l = n + m
  BY <1>9 DEF n, m, l
<1>11. Heard(t)'
  <2>1. Len(said'[t]) = Len(kept) + Len(now)
    <3>1. Len(said'[t]) = n + Len(now)
      BY <1>15, <1>16
    <3> QED
      BY <3>1 DEF n
  <2>2. \A k \in 1..Len(kept) : said'[t][k].token = kept[k]
    <3> TAKE k \in 1..Len(kept)
    <3>1. k \in 1..l
      BY <1>16 DEF n
    <3>2. said[t][k].token = kept[k]
      BY <1>1 DEF Intact, Heard
    <3> QED
      BY <1>8, <3>1, <3>2 DEF l
  <2>3. \A k \in 1..Len(now) : said'[t][Len(kept) + k].token = now[k]
    <3> TAKE k \in 1..Len(now)
    <3>1. CASE k \in 1..Len(held)
      <4>1. n + k \in 1..l
        BY <1>16, <3>1 DEF m
      <4>2. said[t][Len(kept) + k].token = held[k]
        BY <1>1, <3>1 DEF Intact, Heard
      <4>3. now[k] = held[k]
        BY <1>7, <3>1
      <4>4. said'[t][n + k] = said[t][n + k]
        BY <1>8, <4>1 DEF l
      <4> QED
        BY <4>2, <4>3, <4>4 DEF n
    <3>2. CASE k \notin 1..Len(held)
      <4>1. k = m + 1 /\ n + k = l + 1
        <5>1. k \in 1..(m + 1) /\ k \notin 1..m
          BY <1>15, <3>2 DEF m
        <5> QED
          BY <1>16, <5>1
      <4>2. now[k] = tok
        <5>1. k = Len(held) + 1
          BY <4>1 DEF m
        <5>2. now[Len(held) + 1] = tok
          BY <1>7
        <5> QED
          BY <5>1, <5>2
      <4>3. said'[t][n + k] = word
        BY <1>8, <4>1 DEF l
      <4>4. word.token = tok
        OBVIOUS
      <4> QED
        BY <4>2, <4>3, <4>4 DEF n
    <3> QED
      BY <3>1, <3>2
  <2> QED
    BY <1>3, <1>10, <2>1, <2>2, <2>3 DEF Heard
<1>12. Fitting(t)'
  <2>1. agent[t].state \in {"pending", "generating"} /\ ~Completed(t)
    BY <1>1, NotAnswered DEF Intact, Placed
  <2>2. Len(kept) + Len(held) < Room /\ Room \in Nat
    BY <1>1, <2>1, AgentLoopAssumption DEF Intact, Fitting
  <2>3. Len(kept) + Len(now) <= Room /\ (Len(kept) + Len(now) = Room => ends)
    <3>1. n + m < Room
      BY <2>2 DEF n, m
    <3>2. n + Len(now) <= Room
      BY <1>15, <1>16, <2>2, <3>1
    <3>3. n + Len(now) = Room => ends
      BY <1>2 DEF n, now
    <3> QED
      BY <3>2, <3>3 DEF n
  <2>4. ~ends => Len(kept) + Len(now) < Room
    <3>1. n + Len(now) \in Nat
      BY <1>15, <1>16
    <3> QED
      BY <2>2, <2>3, <3>1 DEF n
  <2> QED
    BY <1>3, <1>7, <1>10, <2>3, <2>4 DEF Fitting
<1>13. \A k \in 1..Len(said'[t]) : said'[t][k].version \in agent[t].start..version
  <2> TAKE k \in 1..Len(said'[t])
  <2>1. CASE k \in 1..Len(said[t])
    BY <1>1, <1>8, <2>1 DEF Intact
  <2>2. CASE k \notin 1..Len(said[t])
    <3>1. k = l + 1
      BY <1>15, <1>16, <2>2 DEF l
    <3>2. said'[t][k] = word
      BY <1>8, <3>1 DEF l
    <3> QED
      BY <1>1, <3>2
  <2> QED
    BY <2>1, <2>2
<1>14. Intact(t)'
  <2>1. Sound(agent[t])'
    BY <1>1, <1>3 DEF Intact, Sound, loopOnly
  <2>2. Placed(t)' /\ Returned(t)'
    BY <1>1, <1>3, NotAnswered DEF Intact, Placed, Returned, Completed, loopOnly
  <2> QED
    BY <1>1, <1>3, <1>8, <1>10, <1>11, <1>12, <1>13, <2>1, <2>2 DEF Intact, loopOnly
<1> QED
  BY <1>1, <1>3, <1>5, <1>14, OneMoves DEF Same, Under

LEMMA GeneratedStep ==
  ASSUME AgentInv, NEW t \in Trajectories, Generated(t)
  PROVE  AgentInv'
<1> DEFINE a == agent[t]
           b == Extend(a, Tokens(t))
           c == IF IsCancel(t) THEN AfterCut(a, Tokens(t)) ELSE AfterGeneration(a, Tokens(t))
<1>1. Intact(t) /\ kind # "single_turn" /\ (Refuses(t) \/ Answers(t)) /\ version \in Nat
  BY DEF AgentInv, Generated, Phases
<1>2. UNCHANGED <<loopOnly, output, said, executed, posted>>
  BY DEF Generated, loopOnly
<1>3. /\ task'[t] = "top" /\ request'[t] = NoRequest /\ agent'[t] = c
      /\ \A u \in Trajectories \ {t} :
           task'[u] = task[u] /\ request'[u] = request[u] /\ agent'[u] = agent[u]
      /\ Arrays'
  BY <1>2 DEF Generated, AgentInv, Arrays, Trajectories, loopOnly
<1>4. /\ task[t] \in {"calling", "serving"}
      /\ b \in AgentData /\ Marked(b) /\ Len(b.mask) = Len(b.response)
      /\ b.state = a.state /\ b.assistant_turns = a.assistant_turns
      /\ b.user_turns = a.user_turns /\ b.start = a.start
      /\ b.response_ids = Tokens(t) /\ Tokens(t) \in Seq(Voices)
      /\ Len(said[t]) = Len(b.response)
      /\ \A k \in 1..Len(b.response) : said[t][k].token = b.response[k]
      /\ Len(b.response) \in Nat /\ Len(b.response) <= Room
      /\ IsCancel(t) => Len(b.response) < Room
      /\ ~IsCancel(t) => b.response # <<>>
      /\ executed[t] + ToolCalls(Tokens(t)) <= ToolCalls(b.response)
  BY <1>1, Replied
<1>5. a.state = "generating" /\ Sound(a) /\ a.assistant_turns \in Nat /\ a.user_turns \in Nat
  BY <1>1, <1>4 DEF Intact, Placed, AgentData
<1> HIDE DEF b
<1>6. /\ c \in AgentData /\ c.response = b.response /\ c.mask = b.mask
      /\ c.logprobs = b.logprobs /\ c.start = b.start /\ c.user_turns = b.user_turns
      /\ c.response_ids = b.response_ids
      /\ c.state = IF IsCancel(t) THEN IF LengthReached(b) THEN "terminated" ELSE "generating"
                   ELSE NextState([b EXCEPT !.assistant_turns = @ + 1])
      /\ c.assistant_turns = IF IsCancel(t) /\ ~LengthReached(b) THEN b.assistant_turns
                             ELSE b.assistant_turns + 1
  <2>1. b.assistant_turns + 1 \in Nat
    BY <1>4, <1>5
  <2>2. CASE IsCancel(t) /\ LengthReached(b)
    <3>1. c = [b EXCEPT !.state = "terminated", !.assistant_turns = @ + 1]
      BY <2>2 DEF AfterCut, b
    <3> QED
      BY <1>4, <2>1, <2>2, <3>1 DEF AgentData, AgentStates
  <2>3. CASE IsCancel(t) /\ ~LengthReached(b)
    <3>1. c = [b EXCEPT !.state = "generating"]
      BY <2>3 DEF AfterCut, b
    <3> QED
      BY <1>4, <2>3, <3>1 DEF AgentData, AgentStates
  <2>4. CASE ~IsCancel(t)
    <3> DEFINE d == [b EXCEPT !.assistant_turns = @ + 1]
    <3>1. c = [d EXCEPT !.state = NextState(d)]
      BY <2>4 DEF AfterGeneration, b
    <3>2. NextState(d) \in AgentStates
      BY DEF NextState, AgentStates
    <3>3. /\ d \in AgentData /\ d.response = b.response /\ d.mask = b.mask
          /\ d.logprobs = b.logprobs /\ d.start = b.start /\ d.user_turns = b.user_turns
          /\ d.response_ids = b.response_ids /\ d.assistant_turns = b.assistant_turns + 1
      BY <1>4, <2>1 DEF AgentData
    <3> HIDE DEF d, c
    <3>4. /\ c \in AgentData /\ c.response = b.response /\ c.mask = b.mask
          /\ c.logprobs = b.logprobs /\ c.start = b.start /\ c.user_turns = b.user_turns
          /\ c.response_ids = b.response_ids /\ c.assistant_turns = b.assistant_turns + 1
          /\ c.state = NextState(d)
      BY <3>1, <3>2, <3>3 DEF AgentData
    <3> QED
      BY <2>4, <3>4 DEF d
  <2> QED
    BY <2>2, <2>3, <2>4
<1> DEFINE d == [b EXCEPT !.assistant_turns = @ + 1]
<1>7. d.mask = b.mask /\ d.assistant_turns = b.assistant_turns + 1 /\ d.response_ids = Tokens(t)
  BY <1>4 DEF AgentData
<1>8. ~IsCancel(t) =>
        /\ c.state \in {"terminated", "processing_tools", "interacting"}
        /\ c.state # "terminated" => Len(b.mask) < ResponseLength
        /\ MaxAssistantTurns > 0 /\ b.assistant_turns + 1 >= MaxAssistantTurns =>
             c.state = "terminated"
        /\ c.state = "interacting" => kind = "interaction"
  <2>1. ~IsCancel(t) => c.state = NextState(d)
    BY <1>6
  <2>2. ResponseLength \in Nat /\ Len(b.mask) \in Nat
    BY <1>4, AgentLoopAssumption
  <2> HIDE DEF c, d
  <2> QED
    BY <1>7, <2>1, <2>2 DEF NextState, LengthReached, TurnsReached
<1> HIDE DEF c, d
<1>9. LengthReached(b) <=> Len(b.response) >= ResponseLength
  BY <1>4 DEF LengthReached
<1>10. c.state = "terminated" \/ ~IsCancel(t) => c.response # <<>>
  <2>1. ResponseLength \in Nat \ {0}
    BY AgentLoopAssumption
  <2>2. LengthReached(b) => b.response # <<>>
    BY <1>9, <2>1, EmptySeq
  <2> QED
    BY <1>4, <1>6, <2>2
<1>11. Sound(c)
  <2>1. Marked(c)
    BY <1>4, <1>6 DEF Marked
  <2>2. c.state \in {"processing_tools", "interacting"} =>
          ~IsCancel(t) /\ Len(c.mask) < ResponseLength
    BY <1>6, <1>8
  <2>3. c.state \in {"processing_tools", "interacting", "terminated"} => c.response # <<>>
    BY <1>10, <2>2
  <2>4. MaxAssistantTurns > 0 =>
          /\ c.assistant_turns <= MaxAssistantTurns
          /\ c.state # "terminated" => c.assistant_turns < MaxAssistantTurns
    <3>1. MaxAssistantTurns > 0 => a.assistant_turns < MaxAssistantTurns
      BY <1>5 DEF Sound
    <3>2. c.state # "terminated" =>
            \/ IsCancel(t) /\ ~LengthReached(b)
            \/ ~IsCancel(t) /\ ~(MaxAssistantTurns > 0 /\ b.assistant_turns + 1 >= MaxAssistantTurns)
      BY <1>6, <1>8
    <3>3. MaxAssistantTurns \in Nat
      BY AgentLoopAssumption
    <3>4. b.assistant_turns = a.assistant_turns
      BY <1>4
    <3> QED
      BY <1>5, <1>6, <3>1, <3>2, <3>3, <3>4
  <2>5. kind = "tool" =>
          /\ c.state # "interacting"
          /\ c.assistant_turns = c.user_turns
               + IF c.state \in {"pending", "generating"} THEN 0 ELSE 1
    <3> SUFFICES ASSUME kind = "tool"
                 PROVE  /\ c.state # "interacting"
                        /\ c.assistant_turns = c.user_turns
                             + IF c.state \in {"pending", "generating"} THEN 0 ELSE 1
      OBVIOUS
    <3>1. a.assistant_turns = a.user_turns
      BY <1>5 DEF Sound
    <3>2. b.assistant_turns = a.assistant_turns /\ b.user_turns = a.user_turns
      BY <1>4
    <3>3. CASE IsCancel(t) /\ ~LengthReached(b)
      BY <1>5, <1>6, <3>1, <3>2, <3>3
    <3>4. CASE ~(IsCancel(t) /\ ~LengthReached(b))
      <4>1. c.state \notin {"pending", "generating", "interacting"}
        BY <1>6, <1>8, <3>4
      <4>2. c.assistant_turns = b.assistant_turns + 1
        BY <1>6, <3>4
      <4> QED
        BY <1>5, <1>6, <3>1, <3>2, <4>1, <4>2
    <3> QED
      BY <3>3, <3>4
  <2> QED
    BY <1>1, <2>1, <2>2, <2>3, <2>4, <2>5 DEF Sound
<1>12. executed[t] + Owed(c) <= ToolCalls(c.response)
  <2>1. executed[t] \in Nat /\ ToolCalls(Tokens(t)) \in Nat /\ ToolCalls(b.response) \in Nat
    BY <1>1, <1>4, CallsFinite DEF Intact, AgentData
  <2>2. Owed(c) \in {0, ToolCalls(Tokens(t))}
    BY <1>4, <1>6 DEF Owed
  <2> QED
    BY <1>4, <1>6, <2>1, <2>2
<1>13. c.state \in {"pending", "generating"} => Len(c.response) < Room
  <2>1. c.state \in {"pending", "generating"} => IsCancel(t)
    BY <1>6, <1>8
  <2> QED
    BY <1>4, <1>6, <2>1
<1>14. \A k \in 1..Len(c.response) :
         said'[t][k].token = c.response[k] /\ said'[t][k].version \in c.start..version
  BY <1>1, <1>2, <1>4, <1>6 DEF Intact
<1>15. /\ output'[t] = output[t] /\ posted'[t] = posted[t] /\ executed'[t] = executed[t]
       /\ said'[t] = said[t] /\ UNCHANGED <<kind, version>> /\ task[t] # "returned"
       /\ c.start = a.start /\ Len(said[t]) = Len(c.response) /\ Len(c.response) <= Room
       /\ said[t] \in Seq(Utterance) /\ executed[t] \in Nat
  BY <1>1, <1>2, <1>4, <1>6 DEF loopOnly, Intact
<1>16. Intact(t)'
  BY <1>1, <1>3, <1>6, <1>11, <1>12, <1>13, <1>14, <1>15, AtTop
<1> QED
  BY <1>2, <1>3, <1>4, <1>16, OneMoves DEF Same, Under

(* What a tool or a user said is appended to what was said.                *)
LEMMA ToldMore ==
  ASSUME NEW t, Intact(t), NEW n \in Nat \ {0}, version \in Nat, request[t] = NoRequest,
         NEW b, GrownBy(Repeat("observation", n), agent[t], b)
  PROVE  /\ Told(t, n) \in Seq(Utterance) /\ Len(Told(t, n)) = Len(b.response)
         /\ \A k \in 1..Len(b.response) :
              /\ Told(t, n)[k].token = b.response[k]
              /\ Told(t, n)[k].version \in b.start..version
<1> DEFINE word == [token |-> "observation", version |-> version]
           more == Repeat(word, n)
           o == Repeat("observation", n)
           kept == agent[t].response
           m == Len(kept)
<1>1. word \in Utterance
  BY DEF Utterance, Vocabulary
<1>2. more \in Seq(Utterance) /\ Len(more) = n /\ \A k \in 1..n : more[k] = word
  BY <1>1, Repeated
<1>3. Len(o) = n /\ \A k \in 1..n : o[k] = "observation"
  BY Repeated
<1>4. /\ said[t] \in Seq(Utterance) /\ Len(said[t]) = m /\ m \in Nat
      /\ \A k \in 1..m : said[t][k].token = kept[k]
      /\ \A k \in 1..Len(said[t]) : said[t][k].version \in agent[t].start..version
      /\ agent[t].start \in Nat /\ agent[t].start <= version
  <2>1. request[t].tokens = <<>> /\ Len(<<>>) = 0
    BY EmptySeq DEF NoRequest
  <2>2. m \in Nat /\ agent[t].start \in Nat
    BY LenProperties DEF Intact, AgentData
  <2> QED
    BY <2>1, <2>2 DEF Intact, Heard
<1>5. /\ Told(t, n) \in Seq(Utterance) /\ Len(Told(t, n)) = m + n
      /\ \A k \in 1..(m + n) : Told(t, n)[k] = IF k <= m THEN said[t][k] ELSE more[k - m]
  <2> DEFINE s == said[t]
  <2>1. Told(t, n) = s \o more
    BY DEF Told
  <2>2. s \in Seq(Utterance) /\ more \in Seq(Utterance)
    BY <1>2, <1>4
  <2> HIDE DEF more, m, s
  <2>3. /\ s \o more \in Seq(Utterance) /\ Len(s \o more) = Len(s) + Len(more)
        /\ \A k \in 1..(Len(s) + Len(more)) :
             (s \o more)[k] = IF k <= Len(s) THEN s[k] ELSE more[k - Len(s)]
    BY <2>2, ConcatProperties
  <2>4. Len(s) = m /\ Len(more) = n /\ s = said[t]
    BY <1>2, <1>4 DEF s
  <2> QED
    BY <2>1, <2>3, <2>4
<1>6. /\ Len(b.response) = m + n /\ b.start = agent[t].start
      /\ \A k \in 1..m : b.response[k] = kept[k]
      /\ \A k \in 1..n : b.response[m + k] = o[k]
  BY <1>3 DEF GrownBy
<1> HIDE DEF more, o, m, word
<1>7. ASSUME NEW k \in 1..(m + n)
      PROVE  Told(t, n)[k].token = b.response[k] /\ Told(t, n)[k].version \in b.start..version
  <2>1. CASE k <= m
    <3>1. k \in 1..m
      BY <1>4, <2>1
    <3>2. Told(t, n)[k] = said[t][k]
      BY <1>5, <2>1
    <3> QED
      BY <1>4, <1>6, <3>1, <3>2
  <2>2. CASE ~(k <= m)
    <3> DEFINE i == k - m
    <3>1. i \in 1..n /\ m + i = k
      BY <1>4, <2>2
    <3>2. Told(t, n)[k] = more[i]
      BY <1>5, <2>2
    <3> HIDE DEF i
    <3>3. Told(t, n)[k] = word
      BY <1>2, <3>1, <3>2
    <3>4. b.response[k] = "observation"
      BY <1>3, <1>6, <3>1
    <3> QED
      BY <1>4, <1>6, <3>3, <3>4 DEF word
  <2> QED
    BY <2>1, <2>2
<1> QED
  BY <1>5, <1>6, <1>7

LEMMA ToolsReturnStep ==
  ASSUME AgentInv, NEW t \in Trajectories, ToolsReturn(t)
  PROVE  AgentInv'
<1> DEFINE a == agent[t]
           calls == ToolCalls(a.response_ids)
           run == IF calls < MaxParallelCalls THEN calls ELSE MaxParallelCalls
<1>1. /\ Intact(t) /\ task[t] = "tools" /\ kind # "single_turn" /\ version \in Nat
      /\ a.state = "processing_tools" /\ request[t] = NoRequest /\ a \in AgentData /\ Sound(a)
  BY DEF AgentInv, ToolsReturn, Intact, Placed, Phases
<1>2. UNCHANGED <<loopOnly, request, output, posted>>
  BY DEF ToolsReturn, loopOnly
<1>3. PICK n \in Observation :
        /\ agent' = [agent EXCEPT ![t] = AfterTools(@, n)]
        /\ said' = [said EXCEPT ![t] = IF Fits(agent[t], n) THEN Told(t, n) ELSE @]
  BY DEF ToolsReturn
<1>4. /\ executed' = [executed EXCEPT ![t] = @ + run]
      /\ task' = [task EXCEPT ![t] = "top"]
  BY DEF ToolsReturn
<1>5. n \in Nat \ {0} /\ ResponseLength \in Nat /\ MaxParallelCalls \in Nat
      /\ Room \in Nat /\ Room >= ResponseLength + n
  BY AgentLoopAssumption
<1> DEFINE c == AfterTools(a, n)
<1>6. /\ task'[t] = "top" /\ executed'[t] = executed[t] + run /\ agent'[t] = c
      /\ said'[t] = IF Fits(a, n) THEN Told(t, n) ELSE said[t]
      /\ \A u \in Trajectories \ {t} :
           /\ task'[u] = task[u] /\ executed'[u] = executed[u]
           /\ agent'[u] = agent[u] /\ said'[u] = said[u]
      /\ Arrays'
  BY <1>2, <1>3, <1>4 DEF AgentInv, Arrays, Trajectories, loopOnly
<1>7. /\ calls \in Nat /\ executed[t] \in Nat /\ ToolCalls(a.response) \in Nat
      /\ executed[t] + calls <= ToolCalls(a.response)
  BY <1>1, CallsFinite DEF Intact, AgentData, Owed
<1>8. run \in Nat /\ run <= calls
  BY <1>5, <1>7
<1> HIDE DEF run
<1>9. executed'[t] \in Nat /\ executed'[t] <= ToolCalls(a.response)
  <2> HIDE DEF calls
  <2> QED
    BY <1>6, <1>7, <1>8
<1>10. /\ Marked(a) /\ a.response # <<>> /\ Len(a.mask) = Len(a.response)
       /\ Len(a.mask) < ResponseLength /\ Len(a.response) \in Nat
       /\ a.assistant_turns \in Nat /\ a.user_turns \in Nat
  BY <1>1, LenProperties DEF Sound, Marked, AgentData
<1> DEFINE b == ExtendByObservation(a, n)
<1>11. /\ GrownBy(Repeat("observation", n), a, b) /\ b.user_turns = a.user_turns + 1
       /\ Len(Repeat("observation", n)) = n
  BY <1>1, <1>5, <1>10, Observed
<1> HIDE DEF b
<1>12. CASE Fits(a, n)
  <2>1. c = [b EXCEPT !.state = "generating"]
    BY <1>12 DEF AfterTools, b
  <2>2. /\ b \in AgentData /\ Marked(b) /\ b.assistant_turns = a.assistant_turns
        /\ b.start = a.start /\ Len(b.response) = Len(a.response) + n
        /\ Len(b.mask) = Len(b.response)
    BY <1>11 DEF GrownBy
  <2>3. /\ c \in AgentData /\ c.response = b.response /\ c.mask = b.mask
        /\ c.logprobs = b.logprobs /\ c.start = b.start /\ c.user_turns = b.user_turns
        /\ c.assistant_turns = b.assistant_turns /\ c.state = "generating"
    BY <2>1, <2>2 DEF AgentData, AgentStates
  <2> HIDE DEF c
  <2>4. Sound(c)
    <3>1. Marked(c)
      BY <2>2, <2>3 DEF Marked
    <3>2. MaxAssistantTurns > 0 => c.assistant_turns < MaxAssistantTurns
      BY <1>1, <2>2, <2>3 DEF Sound
    <3>3. kind = "tool" => c.assistant_turns = c.user_turns
      <4>1. kind = "tool" => a.assistant_turns = a.user_turns + 1
        BY <1>1 DEF Sound
      <4> QED
        BY <1>10, <1>11, <2>2, <2>3, <4>1
    <3>4. MaxAssistantTurns \in Nat /\ c.assistant_turns \in Nat /\ c.user_turns \in Nat
      BY <2>3, AgentLoopAssumption DEF AgentData
    <3>5. MaxAssistantTurns > 0 => c.assistant_turns <= MaxAssistantTurns
      BY <3>2, <3>4
    <3> QED
      BY <1>1, <2>3, <3>1, <3>2, <3>3, <3>4, <3>5 DEF Sound
  <2>5. said'[t] = Told(t, n)
    BY <1>6, <1>12
  <2>6. /\ said'[t] \in Seq(Utterance) /\ Len(said'[t]) = Len(c.response)
        /\ \A k \in 1..Len(c.response) :
             said'[t][k].token = c.response[k] /\ said'[t][k].version \in c.start..version
    BY <1>1, <1>5, <1>11, <2>3, <2>5, ToldMore
  <2>7. Len(c.response) < Room /\ Len(c.response) <= Room
    BY <1>5, <1>10, <2>2, <2>3
  <2>8. executed'[t] + Owed(c) <= ToolCalls(c.response)
    <3>1. a.response \in Seq(Vocabulary) /\ b.response \in Seq(Vocabulary)
      BY <1>1, <2>2 DEF AgentData
    <3>2. ToolCalls(a.response) <= ToolCalls(b.response)
      <4>1. Len(a.response) <= Len(b.response)
        BY <1>5, <1>10, <2>2
      <4>2. \A k \in 1..Len(a.response) : b.response[k] = a.response[k]
        BY <1>11 DEF GrownBy
      <4> QED
        BY <3>1, <4>1, <4>2, CallsOfLonger
    <3>3. ToolCalls(a.response) \in Nat /\ ToolCalls(b.response) \in Nat
      BY <3>1, CallsFinite
    <3>4. Owed(c) = 0
      BY <2>3 DEF Owed
    <3> QED
      BY <1>9, <2>3, <3>2, <3>3, <3>4
  <2>9. Intact(t)'
    BY <1>1, <1>2, <1>6, <1>9, <2>2, <2>3, <2>4, <2>6, <2>7, <2>8, AtTop DEF loopOnly
  <2> QED
    BY <1>1, <1>2, <1>6, <2>9, OneMoves DEF Same, Under
<1>13. CASE ~Fits(a, n)
  <2>1. c = [a EXCEPT !.state = "terminated"]
    BY <1>13 DEF AfterTools
  <2>2. /\ c \in AgentData /\ c.response = a.response /\ c.mask = a.mask
        /\ c.logprobs = a.logprobs /\ c.start = a.start /\ c.user_turns = a.user_turns
        /\ c.assistant_turns = a.assistant_turns /\ c.state = "terminated"
    BY <1>1, <2>1 DEF AgentData, AgentStates
  <2> HIDE DEF c
  <2>3. Sound(c)
    <3>1. Marked(c)
      BY <1>10, <2>2 DEF Marked
    <3>2. MaxAssistantTurns > 0 => c.assistant_turns <= MaxAssistantTurns
      BY <1>1, <2>2 DEF Sound
    <3>3. kind = "tool" => c.assistant_turns = c.user_turns + 1
      BY <1>1, <2>2 DEF Sound
    <3> QED
      BY <1>1, <1>10, <2>2, <3>1, <3>2, <3>3 DEF Sound
  <2>4. said'[t] = said[t] /\ said[t] \in Seq(Utterance)
    BY <1>1, <1>6, <1>13 DEF Intact
  <2>5. Len(said[t]) = Len(c.response)
    <3>1. request[t].tokens = <<>> /\ Len(<<>>) = 0
      BY <1>1, EmptySeq DEF NoRequest
    <3>2. Len(said[t]) = Len(a.response) + Len(request[t].tokens)
      BY <1>1 DEF Intact, Heard
    <3> QED
      BY <1>10, <2>2, <3>1, <3>2
  <2>6. \A k \in 1..Len(c.response) :
          said'[t][k].token = c.response[k] /\ said'[t][k].version \in c.start..version
    BY <1>1, <2>2, <2>4, <2>5 DEF Intact, Heard
  <2>7. Len(c.response) <= Room
    BY <1>5, <1>10, <2>2
  <2>8. executed'[t] + Owed(c) <= ToolCalls(c.response)
    BY <1>9, <2>2 DEF Owed
  <2>9. Intact(t)'
    BY <1>1, <1>2, <1>6, <1>9, <2>2, <2>3, <2>4, <2>5, <2>6, <2>7, <2>8, AtTop DEF loopOnly
  <2> QED
    BY <1>1, <1>2, <1>6, <2>9, OneMoves DEF Same, Under
<1> QED
  BY <1>12, <1>13

LEMMA UserAnswersStep ==
  ASSUME AgentInv, NEW t \in Trajectories, UserAnswers(t)
  PROVE  AgentInv'
<1> DEFINE a == agent[t]
<1>1. /\ Intact(t) /\ task[t] = "interaction" /\ kind \notin {"single_turn", "tool"}
      /\ version \in Nat /\ a.state = "interacting" /\ request[t] = NoRequest
      /\ a \in AgentData /\ Sound(a)
  BY DEF AgentInv, UserAnswers, Intact, Placed, Sound, Phases
<1>2. UNCHANGED <<loopOnly, request, output, executed, posted>>
  BY DEF UserAnswers, loopOnly
<1>3. PICK n \in Observation, next \in {"terminated", "generating"} :
        /\ agent' = [agent EXCEPT ![t] = [ExtendByObservation(@, n) EXCEPT !.state = next]]
        /\ said' = [said EXCEPT ![t] = Told(t, n)]
  BY DEF UserAnswers
<1>4. task' = [task EXCEPT ![t] = "top"]
  BY DEF UserAnswers
<1>5. /\ n \in Nat \ {0} /\ ResponseLength \in Nat /\ Room \in Nat /\ Room >= ResponseLength + n
      /\ MaxAssistantTurns \in Nat
  BY AgentLoopAssumption
<1> DEFINE b == ExtendByObservation(a, n)
           c == [b EXCEPT !.state = next]
<1>6. /\ task'[t] = "top" /\ agent'[t] = c /\ said'[t] = Told(t, n)
      /\ \A u \in Trajectories \ {t} :
           task'[u] = task[u] /\ agent'[u] = agent[u] /\ said'[u] = said[u]
      /\ Arrays'
  BY <1>2, <1>3, <1>4 DEF AgentInv, Arrays, Trajectories, loopOnly
<1>7. /\ Marked(a) /\ a.response # <<>> /\ Len(a.mask) = Len(a.response)
      /\ Len(a.mask) < ResponseLength /\ Len(a.response) \in Nat
  BY <1>1, LenProperties DEF Sound, Marked, AgentData
<1>8. GrownBy(Repeat("observation", n), a, b) /\ Len(Repeat("observation", n)) = n
  BY <1>1, <1>5, <1>7, Observed
<1> HIDE DEF b
<1>9. /\ b \in AgentData /\ Marked(b) /\ b.assistant_turns = a.assistant_turns
      /\ b.start = a.start /\ Len(b.response) = Len(a.response) + n
      /\ Len(b.mask) = Len(b.response)
  BY <1>8 DEF GrownBy
<1>10. /\ c \in AgentData /\ c.response = b.response /\ c.mask = b.mask
       /\ c.logprobs = b.logprobs /\ c.start = b.start
       /\ c.assistant_turns = b.assistant_turns /\ c.state = next
  BY <1>9 DEF AgentData, AgentStates
<1> HIDE DEF c
<1>11. c.response # <<>>
  <2>1. Len(c.response) # 0
    BY <1>5, <1>7, <1>9, <1>10
  <2> QED
    BY <2>1, EmptySeq
<1>12. Sound(c)
  <2>1. Marked(c)
    BY <1>9, <1>10 DEF Marked
  <2>2. MaxAssistantTurns > 0 => c.assistant_turns < MaxAssistantTurns
    BY <1>1, <1>9, <1>10 DEF Sound
  <2>3. MaxAssistantTurns > 0 => c.assistant_turns <= MaxAssistantTurns
    BY <1>5, <1>10, <2>2 DEF AgentData
  <2> QED
    BY <1>1, <1>10, <1>11, <2>1, <2>2, <2>3 DEF Sound
<1>13. /\ said'[t] \in Seq(Utterance) /\ Len(said'[t]) = Len(c.response)
       /\ \A k \in 1..Len(c.response) :
            said'[t][k].token = c.response[k] /\ said'[t][k].version \in c.start..version
  <2>1. /\ Told(t, n) \in Seq(Utterance) /\ Len(Told(t, n)) = Len(b.response)
        /\ \A k \in 1..Len(b.response) :
             /\ Told(t, n)[k].token = b.response[k]
             /\ Told(t, n)[k].version \in b.start..version
    BY <1>1, <1>5, <1>8, ToldMore
  <2> QED
    BY <1>6, <1>10, <2>1
<1>14. Len(c.response) < Room /\ Len(c.response) <= Room
  BY <1>5, <1>7, <1>9, <1>10
<1>15. executed'[t] + Owed(c) <= ToolCalls(c.response)
  <2>1. a.response \in Seq(Vocabulary) /\ b.response \in Seq(Vocabulary)
    BY <1>1, <1>9 DEF AgentData
  <2>2. Len(a.response) <= Len(b.response)
    BY <1>5, <1>7, <1>9
  <2>3. \A k \in 1..Len(a.response) : b.response[k] = a.response[k]
    BY <1>8 DEF GrownBy
  <2>4. ToolCalls(a.response) <= ToolCalls(b.response)
    BY <2>1, <2>2, <2>3, CallsOfLonger
  <2>5. /\ ToolCalls(a.response) \in Nat /\ ToolCalls(b.response) \in Nat /\ executed[t] \in Nat
        /\ executed[t] <= ToolCalls(a.response) /\ executed'[t] = executed[t]
    BY <1>1, <1>2, <2>1, CallsFinite DEF Intact, Owed
  <2>6. Owed(c) = 0
    BY <1>10 DEF Owed
  <2> QED
    BY <1>10, <2>4, <2>5, <2>6
<1>16. executed'[t] \in Nat /\ output'[t] = output[t] /\ posted'[t] = posted[t]
       /\ request'[t] = NoRequest /\ UNCHANGED <<kind, version>>
  BY <1>1, <1>2 DEF Intact, loopOnly
<1>17. Intact(t)'
  BY <1>1, <1>6, <1>9, <1>10, <1>12, <1>13, <1>14, <1>15, <1>16, AtTop
<1> QED
  BY <1>1, <1>2, <1>6, <1>17, OneMoves DEF Same, Under

(* Changes of the state of a loop that leave the rest of it.               *)
LEMMA PendingStep ==
  ASSUME AgentInv, NEW t \in Trajectories, Pending(t)
  PROVE  AgentInv'
<1> DEFINE a == agent[t]
           c == [a EXCEPT !.state = "generating"]
<1>1. /\ Intact(t) /\ task[t] = "top" /\ kind # "single_turn" /\ a.state = "pending"
      /\ a \in AgentData /\ Sound(a) /\ request[t] = NoRequest
  BY DEF AgentInv, Pending, Intact, Placed
<1>2. UNCHANGED <<loopOnly, task, request, output, said, executed, posted>>
  BY DEF Pending, loopOnly
<1>3. /\ agent'[t] = c /\ Arrays'
      /\ \A u \in Trajectories \ {t} : agent'[u] = agent[u]
  BY <1>2 DEF Pending, AgentInv, Arrays, Trajectories, loopOnly
<1>4. /\ c \in AgentData /\ c.response = a.response /\ c.mask = a.mask
      /\ c.logprobs = a.logprobs /\ c.start = a.start /\ c.user_turns = a.user_turns
      /\ c.assistant_turns = a.assistant_turns /\ c.state = "generating"
  BY <1>1 DEF AgentData, AgentStates
<1> HIDE DEF c
<1>5. Sound(agent[t])'
  BY <1>1, <1>2, <1>3, <1>4 DEF Sound, Marked, loopOnly
<1>6. Heard(t)' /\ Fitting(t)'
  BY <1>1, <1>2, <1>3, <1>4 DEF Intact, Heard, Fitting, Completed
<1>7. Placed(t)' /\ Returned(t)'
  BY <1>1, <1>2, <1>3, <1>4, NotAnswered DEF Intact, Placed, Returned, Completed, loopOnly
<1>8. Owed(agent'[t]) = 0 /\ Owed(a) = 0
  BY <1>1, <1>3, <1>4 DEF Owed
<1>9. Intact(t)'
  BY <1>1, <1>2, <1>3, <1>4, <1>5, <1>6, <1>7, <1>8 DEF Intact, Owed, loopOnly
<1> QED
  BY <1>1, <1>2, <1>3, <1>9, OneMoves DEF Same, Under

LEMMA DispatchStep ==
  ASSUME AgentInv, NEW t \in Trajectories, Dispatch(t)
  PROVE  AgentInv'
<1>1. /\ Intact(t) /\ task[t] = "top" /\ kind # "single_turn"
      /\ agent[t].state \in {"generating", "processing_tools", "interacting"}
      /\ request[t] = NoRequest
  BY DEF AgentInv, Dispatch, Intact, Placed
<1>2. UNCHANGED <<loopOnly, agent, request, output, said, executed, posted>>
  BY DEF Dispatch, loopOnly
<1>3. /\ Arrays' /\ \A u \in Trajectories \ {t} : task'[u] = task[u]
      /\ task'[t] = CASE agent[t].state = "generating" -> "calling"
                      [] agent[t].state = "processing_tools" -> "tools"
                      [] agent[t].state = "interacting" -> "interaction"
  BY <1>2 DEF Dispatch, AgentInv, Arrays, Trajectories, loopOnly
<1>4. \/ agent[t].state = "generating" /\ task'[t] = "calling"
      \/ agent[t].state = "processing_tools" /\ task'[t] = "tools"
      \/ agent[t].state = "interacting" /\ task'[t] = "interaction"
  BY <1>1, <1>3
<1>5. Sound(agent[t])' /\ Heard(t)' /\ Fitting(t)'
  BY <1>1, <1>2 DEF Intact, Sound, Heard, Fitting, Completed, loopOnly
<1>6. Placed(t)' /\ Returned(t)'
  BY <1>1, <1>2, <1>4, NotAnswered DEF Intact, Placed, Returned, Completed, loopOnly
<1>7. Intact(t)'
  BY <1>1, <1>2, <1>4, <1>5, <1>6 DEF Intact, Tasks, loopOnly
<1> QED
  BY <1>1, <1>2, <1>3, <1>4, <1>7, OneMoves DEF Same, Under

LEMMA CancelledStep ==
  ASSUME AgentInv, NEW t \in Trajectories, BuildCancelledOutput(t)
  PROVE  AgentInv'
<1>1. /\ Intact(t) /\ task[t] = "top" /\ kind # "single_turn" /\ request[t] = NoRequest
  BY DEF AgentInv, BuildCancelledOutput, Intact, Placed
<1>2. UNCHANGED <<loopOnly, agent, request, said, executed, posted>>
  BY DEF BuildCancelledOutput, loopOnly
<1>3. /\ Arrays' /\ task'[t] = "returned" /\ output'[t] = CutOutput
      /\ \A u \in Trajectories \ {t} : task'[u] = task[u] /\ output'[u] = output[u]
  BY <1>2 DEF BuildCancelledOutput, AgentInv, Arrays, Trajectories, loopOnly
<1>4. CutOutput.is_cancel = TRUE /\ CutOutput # NoAnswer
  BY DEF CutOutput, NoAnswer
<1>5. ~Completed(t) /\ ~Completed(t)' /\ posted[t] = 0
  BY <1>1, <1>3, <1>4, NotAnswered DEF Completed
<1>6. Sound(agent[t])' /\ Heard(t)' /\ Fitting(t)'
  BY <1>1, <1>2, <1>5 DEF Intact, Sound, Heard, Fitting, loopOnly
<1>7. Placed(t)' /\ Returned(t)'
  BY <1>1, <1>2, <1>3, <1>4, <1>5 DEF Placed, Returned, loopOnly
<1>8. Intact(t)'
  BY <1>1, <1>2, <1>3, <1>6, <1>7 DEF Intact, Tasks, loopOnly
<1> QED
  BY <1>1, <1>2, <1>3, <1>8, OneMoves DEF Same, Under

(* A completed trajectory answers with what it kept, and for good.         *)
LEMMA Completes ==
  ASSUME NEW t, Intact(t), task[t] # "returned", version \in Nat, stamp = version,
         UNCHANGED <<kind, version, stamp>>, executed'[t] = executed[t], said'[t] = said[t],
         NEW c, agent'[t] = c, c \in AgentData, Sound(c), c.start = agent[t].start,
         c.response # <<>>, Len(said[t]) = Len(c.response), Len(c.response) <= Room,
         \A k \in 1..Len(c.response) : said[t][k].token = c.response[k],
         executed[t] + Owed(c) <= ToolCalls(c.response),
         NEW turns, kind = "tool" => turns = 2 * (c.user_turns + 1),
         output'[t] = Outcome(c, turns), posted'[t] = posted[t] + 1,
         task'[t] = "returned", request'[t] = NoRequest
  PROVE  Intact(t)'
<1>1. /\ output'[t].is_cancel = FALSE
      /\ output'[t].response = Prefix(c.response, ResponseLength)
      /\ output'[t].mask = Prefix(c.mask, ResponseLength)
      /\ output'[t].logprobs = Prefix(c.logprobs, ResponseLength)
      /\ output'[t].turns = turns /\ output'[t].start = c.start /\ output'[t].end = version
  BY DEF Outcome
<1>2. output'[t] # NoAnswer
  <2>1. "response" \in DOMAIN Outcome(c, turns) /\ "response" \notin DOMAIN NoAnswer
    BY DEF Outcome, NoAnswer
  <2> QED
    BY <2>1
<1>3. NoRequest \in ServerRequest /\ NoRequest.tokens = <<>> /\ NoRequest.finished = FALSE
  BY EmptySeq DEF NoRequest, ServerRequest
<1>4. Len(c.response) \in Nat /\ Len(<<>>) = 0
  BY LenProperties, EmptySeq DEF AgentData
<1>5. posted'[t] = 1
  BY NotAnswered
<1>6. Completed(t)'
  BY <1>1, <1>2 DEF Completed
<1>7. Heard(t)'
  BY <1>3, <1>4 DEF Heard
<1>8. Fitting(t)'
  BY <1>3, <1>4, <1>6 DEF Fitting
<1>9. Answered(t)'
  BY <1>1, <1>5 DEF Answered, Intact
<1>10. Placed(t)' /\ Returned(t)'
  BY <1>1, <1>2, <1>6, <1>9 DEF Placed, Returned
<1>11. Sound(agent[t])'
  BY DEF Sound
<1>12. executed'[t] \in Nat /\ said'[t] \in Seq(Utterance) /\ c.start <= version'
       /\ \A k \in 1..Len(said'[t]) : said'[t][k].version \in c.start..version'
  BY DEF Intact
<1> QED
  BY <1>3, <1>5, <1>7, <1>8, <1>10, <1>11, <1>12 DEF Intact, Tasks

LEMMA CompletedStep ==
  ASSUME AgentInv, NEW t \in Trajectories, BuildCompletedOutput(t)
  PROVE  AgentInv'
<1> DEFINE a == agent[t]
           turns == a.user_turns + a.assistant_turns + 1
<1>1. /\ Intact(t) /\ task[t] = "top" /\ kind # "single_turn" /\ a.state = "terminated"
      /\ request[t] = NoRequest /\ version \in Nat /\ a \in AgentData /\ Sound(a)
  BY DEF AgentInv, BuildCompletedOutput, Intact, Placed, Phases
<1>2. UNCHANGED <<loopOnly, agent, request, said, executed>>
  BY DEF BuildCompletedOutput, loopOnly
<1>3. /\ output' = [output EXCEPT ![t] = Outcome(a, turns)]
      /\ posted' = [posted EXCEPT ![t] = @ + 1]
      /\ task' = [task EXCEPT ![t] = "returned"]
  BY DEF BuildCompletedOutput
<1> HIDE DEF turns
<1>4. /\ Arrays' /\ task'[t] = "returned" /\ output'[t] = Outcome(a, turns)
      /\ posted'[t] = posted[t] + 1
      /\ \A u \in Trajectories \ {t} :
           task'[u] = task[u] /\ output'[u] = output[u] /\ posted'[u] = posted[u]
  BY <1>2, <1>3 DEF AgentInv, Arrays, Trajectories, loopOnly
<1>5. stamp = version
  BY <1>1, UnderWay DEF Under
<1>6. a.response # <<>> /\ Len(a.response) \in Nat
  BY <1>1, LenProperties DEF Sound, AgentData
<1>7. kind = "tool" => turns = 2 * (a.user_turns + 1)
  <2>1. kind = "tool" => a.assistant_turns = a.user_turns + 1
    BY <1>1 DEF Sound
  <2>2. a.user_turns \in Nat
    BY <1>1 DEF AgentData
  <2> QED
    BY <2>1, <2>2 DEF turns
<1>8. request[t].tokens = <<>> /\ Len(<<>>) = 0
  BY <1>1, EmptySeq DEF NoRequest
<1>9. Len(said[t]) = Len(a.response)
  <2>1. Len(said[t]) = Len(a.response) + Len(request[t].tokens)
    BY <1>1 DEF Intact, Heard
  <2> QED
    BY <1>6, <1>8, <2>1
<1>10. Len(a.response) <= Room
  <2>1. Len(a.response) + Len(request[t].tokens) <= Room
    BY <1>1 DEF Intact, Fitting
  <2> QED
    BY <1>6, <1>8, <2>1
<1>11. \A k \in 1..Len(a.response) : said[t][k].token = a.response[k]
  BY <1>1 DEF Intact, Heard
<1>12. executed[t] + Owed(a) <= ToolCalls(a.response)
  BY <1>1 DEF Intact
<1>13. Intact(t)'
  BY <1>1, <1>2, <1>4, <1>5, <1>6, <1>7, <1>9, <1>10, <1>11, <1>12, Completes DEF loopOnly
<1> QED
  BY <1>1, <1>2, <1>4, <1>13, OneMoves DEF Same, Under

LEMMA SingleTurnStep ==
  ASSUME AgentInv, NEW t \in Trajectories, SingleTurn(t)
  PROVE  AgentInv'
<1> DEFINE a == agent[t]
           c == Extend(a, Tokens(t))
           cut == IsCancel(t) /\ ~LengthReached(c)
<1>1. /\ Intact(t) /\ kind = "single_turn" /\ (Refuses(t) \/ Answers(t)) /\ version \in Nat
      /\ Sound(a)
  BY DEF AgentInv, SingleTurn, Intact, Phases
<1>2. UNCHANGED <<loopOnly, said, executed>>
  BY DEF SingleTurn, loopOnly
<1>3. /\ agent' = [agent EXCEPT ![t] = c]
      /\ output' = [output EXCEPT ![t] = IF cut THEN CutOutput ELSE Outcome(c, 2)]
      /\ posted' = [posted EXCEPT ![t] = IF cut THEN @ ELSE @ + 1]
      /\ task' = [task EXCEPT ![t] = "returned"]
      /\ request' = [request EXCEPT ![t] = NoRequest]
  BY DEF SingleTurn
<1> HIDE DEF cut, c
<1>4. /\ Arrays' /\ task'[t] = "returned" /\ agent'[t] = c /\ request'[t] = NoRequest
      /\ output'[t] = IF cut THEN CutOutput ELSE Outcome(c, 2)
      /\ posted'[t] = IF cut THEN posted[t] ELSE posted[t] + 1
      /\ \A u \in Trajectories \ {t} :
           /\ task'[u] = task[u] /\ agent'[u] = agent[u] /\ request'[u] = request[u]
           /\ output'[u] = output[u] /\ posted'[u] = posted[u]
  BY <1>2, <1>3 DEF AgentInv, Arrays, Trajectories, loopOnly
<1>5. /\ task[t] \in {"calling", "serving"}
      /\ c \in AgentData /\ Marked(c) /\ Len(c.mask) = Len(c.response)
      /\ c.state = a.state /\ c.assistant_turns = a.assistant_turns
      /\ c.user_turns = a.user_turns /\ c.start = a.start
      /\ Tokens(t) \in Seq(Voices)
      /\ Len(said[t]) = Len(c.response)
      /\ \A k \in 1..Len(c.response) : said[t][k].token = c.response[k]
      /\ Len(c.response) \in Nat /\ Len(c.response) <= Room
      /\ IsCancel(t) => Len(c.response) < Room
      /\ ~IsCancel(t) => c.response # <<>>
      /\ executed[t] + ToolCalls(Tokens(t)) <= ToolCalls(c.response)
  BY <1>1, Replied DEF c
<1>6. a.state = "pending"
  BY <1>1, <1>5 DEF Intact, Placed
<1>7. Sound(c)
  BY <1>1, <1>5, <1>6 DEF Sound
<1>8. executed[t] + Owed(c) <= ToolCalls(c.response) /\ executed[t] \in Nat
  <2>1. ToolCalls(Tokens(t)) \in Nat /\ ToolCalls(c.response) \in Nat /\ executed[t] \in Nat
    BY <1>1, <1>5, CallsFinite DEF Intact, AgentData
  <2>2. Owed(c) = 0
    BY <1>5, <1>6 DEF Owed
  <2> QED
    BY <1>5, <2>1, <2>2
<1>9. UNCHANGED <<kind, version, stamp>> /\ stamp = version
      /\ said'[t] = said[t] /\ executed'[t] = executed[t] /\ task[t] # "returned"
  BY <1>2, <1>5, UnderWay DEF loopOnly, Under
<1>10. CASE ~cut
  <2>1. c.response # <<>>
    <3>1. CASE ~IsCancel(t)
      BY <1>5, <3>1
    <3>2. CASE LengthReached(c)
      <4>1. Len(c.response) # 0
        BY <1>5, <3>2, AgentLoopAssumption DEF LengthReached
      <4> QED
        BY <4>1, EmptySeq
    <3> QED
      BY <1>10, <3>1, <3>2 DEF cut
  <2>2. output'[t] = Outcome(c, 2) /\ posted'[t] = posted[t] + 1
    BY <1>4, <1>10
  <2> DEFINE turns == 2
  <2>3. kind = "tool" => turns = 2 * (c.user_turns + 1)
    BY <1>1
  <2>4. output'[t] = Outcome(c, turns)
    BY <2>2
  <2> HIDE DEF turns
  <2>5. UNCHANGED <<kind, version, stamp>> /\ agent'[t] = c /\ c \in AgentData /\ Sound(c)
        /\ c.start = agent[t].start /\ Len(said[t]) = Len(c.response) /\ Len(c.response) <= Room
        /\ task'[t] = "returned" /\ request'[t] = NoRequest /\ version \in Nat
    BY <1>1, <1>4, <1>5, <1>7, <1>9
  <2>6. Intact(t)'
    BY <1>1, <1>5, <1>8, <1>9, <2>1, <2>2, <2>3, <2>4, <2>5, Completes, ZenonT(60)
  <2> QED
    BY <1>2, <1>4, <1>5, <2>6, OneMoves DEF Same, Under
<1>11. CASE cut
  <2>1. output'[t] = CutOutput /\ posted'[t] = posted[t]
    BY <1>4, <1>11
  <2>2. CutOutput.is_cancel = TRUE /\ CutOutput # NoAnswer
    BY DEF CutOutput, NoAnswer
  <2>3. ~Completed(t)' /\ posted[t] = 0
    BY <1>1, <1>9, <2>1, <2>2, NotAnswered DEF Completed
  <2>4. NoRequest \in ServerRequest /\ NoRequest.tokens = <<>> /\ NoRequest.finished = FALSE
    BY EmptySeq DEF NoRequest, ServerRequest
  <2>5. Len(<<>>) = 0
    BY EmptySeq
  <2>6. Heard(t)'
    BY <1>4, <1>5, <1>9, <2>4, <2>5 DEF Heard
  <2>7. Fitting(t)'
    <3>1. /\ agent'[t].response = c.response /\ request'[t].tokens = <<>>
          /\ request'[t].finished = FALSE
      BY <1>4, <2>4
    <3>2. Len(c.response) + Len(request'[t].tokens) < Room
      <4>1. Len(c.response) < Room /\ Len(c.response) \in Nat
        BY <1>5, <1>11 DEF cut
      <4>2. Len(request'[t].tokens) = 0
        BY <2>5, <3>1
      <4> QED
        BY <4>1, <4>2
    <3>3. Len(c.response) + Len(request'[t].tokens) <= Room
      <4>1. Room \in Nat /\ Len(c.response) \in Nat /\ Len(request'[t].tokens) = 0
        BY <1>5, <2>5, <3>1, AgentLoopAssumption
      <4> QED
        BY <3>2, <4>1
    <3> QED
      BY <3>1, <3>2, <3>3 DEF Fitting
  <2>8. Placed(t)' /\ Returned(t)'
    BY <1>1, <1>4, <1>9, <2>1, <2>2, <2>3 DEF Placed, Returned
  <2>9. Sound(agent[t])'
    BY <1>4, <1>7, <1>9 DEF Sound
  <2>10. posted'[t] \in Nat /\ said'[t] \in Seq(Utterance) /\ c.start <= version'
         /\ \A k \in 1..Len(said'[t]) : said'[t][k].version \in c.start..version'
    BY <1>1, <1>5, <1>9, <2>1 DEF Intact
  <2>11. Intact(t)'
    BY <1>4, <1>5, <1>8, <1>9, <2>4, <2>6, <2>7, <2>8, <2>9, <2>10 DEF Intact, Tasks
  <2> QED
    BY <1>2, <1>4, <1>5, <2>11, OneMoves DEF Same, Under
<1> QED
  BY <1>10, <1>11

LEMMA RunStep ==
  ASSUME AgentInv, NEW t \in Trajectories, Run(t)
  PROVE  AgentInv'
BY AdmitStep, EmitStep, GeneratedStep, ToolsReturnStep, UserAnswersStep, PendingStep,
   DispatchStep, CancelledStep, CompletedStep, SingleTurnStep DEF Run

-------------------------------------------------------------------------------
(* The rollouter and the worker.                                           *)
LEMMA AllAlone ==
  ASSUME AgentInv, UNCHANGED <<kind, loopVars>>, version' \in Nat, version <= version', Phases'
  PROVE  AgentInv'
<1>1. Trajectories' = Trajectories
  BY DEF Trajectories
<1>2. version \in Nat
  BY DEF AgentInv, Phases
<1>3. Arrays'
  BY <1>1 DEF AgentInv, Arrays, loopVars
<1>4. \A t \in Trajectories : Same(t)
  BY DEF Same, loopVars
<1>5. \A t \in Trajectories : Intact(t)'
  BY <1>2, <1>4, LeftAlone DEF AgentInv
<1> QED
  BY <1>1, <1>3, <1>5 DEF AgentInv

(* The weights and the cuts are changed while no trajectory moves.         *)
LEMMA QuietStep ==
  ASSUME AgentInv,
         \/ Submit \/ WorkerReturns \/ Pause \/ CancelAgentLoops \/ Transfer
         \/ ResumeAgentLoops \/ ResumeServer \/ Resumed \/ UNCHANGED agentVars
  PROVE  AgentInv'
<1>1. Phases /\ \A t \in Trajectories : task[t] \in Tasks
  BY DEF AgentInv, Intact
<1>2. version \in Nat /\ MaxCuts \in Nat /\ stamp \in Nat
  BY <1>1, AgentLoopAssumption DEF Phases
<1>3. UNCHANGED <<kind, loopVars>>
  BY DEF Submit, WorkerReturns, Pause, CancelAgentLoops, Transfer, ResumeAgentLoops,
         ResumeServer, Resumed, agentVars, loopVars
<1>4. Trajectories' = Trajectories /\ task' = task
  BY <1>3 DEF Trajectories, loopVars
<1>5. CASE Submit
  <2>1. version' = version /\ Phases'
    BY <1>1, <1>2, <1>3, <1>4, <1>5 DEF Phases, Submit
  <2> QED
    BY <1>2, <1>3, <2>1, AllAlone
<1>6. CASE WorkerReturns
  <2>1. version' = version /\ Phases'
    BY <1>1, <1>2, <1>3, <1>4, <1>6 DEF Phases, WorkerReturns
  <2> QED
    BY <1>2, <1>3, <2>1, AllAlone
<1>7. CASE Pause
  <2>1. version' = version /\ Phases'
    BY <1>1, <1>2, <1>3, <1>4, <1>7 DEF Phases, Pause
  <2> QED
    BY <1>2, <1>3, <2>1, AllAlone
<1>8. CASE CancelAgentLoops \/ ResumeAgentLoops \/ ResumeServer \/ Resumed
  <2>1. version' = version
    BY <1>8 DEF CancelAgentLoops, ResumeAgentLoops, ResumeServer, Resumed
  <2>2. UNCHANGED <<sample, stamp>>
    BY <1>8 DEF CancelAgentLoops, ResumeAgentLoops, ResumeServer, Resumed
  <2>3. event' \in BOOLEAN /\ paused' \in BOOLEAN
    BY <1>1, <1>8 DEF Phases, CancelAgentLoops, ResumeAgentLoops, ResumeServer, Resumed
  <2>4. phase' = phase \/ phase' = "running"
    BY <1>8 DEF CancelAgentLoops, ResumeAgentLoops, ResumeServer, Resumed
  <2>5. Phases'
    BY <1>1, <1>2, <1>3, <1>4, <2>1, <2>2, <2>3, <2>4 DEF Phases
  <2> QED
    BY <1>2, <1>3, <2>1, <2>5, AllAlone
<1>9. CASE Transfer
  <2>1. version' = version + 1 /\ sample \in {"queued", "done"} /\ phase = "cancelling"
        /\ phase' = "resuming" /\ UNCHANGED <<kind, event, paused, sample, stamp>>
    BY <1>9 DEF Transfer
  <2>2. version < MaxCuts
    BY <1>1, <2>1 DEF Phases
  <2>3. version' \in 0..MaxCuts /\ stamp' \in 0..version' /\ version <= version' /\ version' \in Nat
    BY <1>1, <1>2, <2>1, <2>2 DEF Phases
  <2>4. Phases'
    BY <1>1, <1>4, <2>1, <2>3 DEF Phases
  <2> QED
    BY <1>3, <2>3, <2>4, AllAlone
<1>10. CASE UNCHANGED agentVars
  <2>1. UNCHANGED <<phase, version, event, paused, sample, stamp>>
    BY <1>10 DEF agentVars
  <2>2. Phases'
    BY <1>1, <1>3, <1>4, <2>1 DEF Phases
  <2> QED
    BY <1>2, <1>3, <2>1, <2>2, AllAlone
<1> QED
  BY <1>5, <1>6, <1>7, <1>8, <1>9, <1>10

(* The server is told to cut; what it has made so far stays.               *)
LEMMA CancelServerStep ==
  ASSUME AgentInv, CancelServer
  PROVE  AgentInv'
<1>1. /\ UNCHANGED <<kind, phase, version, event, sample, stamp, task, agent, output, said,
                     executed, posted>>
      /\ paused' = TRUE
      /\ request' = [t \in Trajectories |->
                      IF task[t] = "serving" THEN [request[t] EXCEPT !.cancelled = TRUE]
                      ELSE request[t]]
  BY DEF CancelServer
<1>2. Trajectories' = Trajectories
  BY <1>1 DEF Trajectories
<1>3. Arrays' /\ Phases'
  BY <1>1, <1>2 DEF AgentInv, Arrays, Phases
<1>4. ASSUME NEW t \in Trajectories
      PROVE  Intact(t)'
  <2>1. Intact(t)
    BY DEF AgentInv
  <2>2. request'[t] = IF task[t] = "serving" THEN [request[t] EXCEPT !.cancelled = TRUE]
                      ELSE request[t]
    BY <1>1
  <2>3. /\ request'[t] \in ServerRequest /\ request'[t].tokens = request[t].tokens
        /\ request'[t].finished = request[t].finished
        /\ task[t] # "serving" => request'[t] = request[t]
    BY <2>1, <2>2 DEF Intact, ServerRequest
  <2>4. Sound(agent[t])'
    BY <1>1, <2>1 DEF Intact, Sound
  <2>5. Heard(t)' /\ Fitting(t)'
    BY <1>1, <2>1, <2>3 DEF Intact, Heard, Fitting, Completed
  <2>6. Placed(t)'
    BY <1>1, <2>1, <2>3 DEF Intact, Placed, Untouched
  <2>7. Returned(t)'
    BY <1>1, <2>1, <2>3 DEF Intact, Returned, Answered, Completed
  <2> QED
    BY <1>1, <2>1, <2>3, <2>4, <2>5, <2>6, <2>7 DEF Intact
<1> QED
  BY <1>2, <1>3, <1>4 DEF AgentInv

(* A fresh trajectory is intact, whatever its versions.                    *)
LEMMA FreshData ==
  ASSUME NEW v \in Nat
  PROVE  /\ [Fresh EXCEPT !.start = v] \in AgentData /\ [Fresh EXCEPT !.start = v].start = v
         /\ [Fresh EXCEPT !.start = v].state = "pending"
         /\ [Fresh EXCEPT !.start = v].response = <<>>
         /\ Sound([Fresh EXCEPT !.start = v])
<1> DEFINE a == [Fresh EXCEPT !.start = v]
<1>1. a = [state |-> "pending", response |-> <<>>, mask |-> <<>>, logprobs |-> <<>>,
           response_ids |-> <<>>, assistant_turns |-> 0, user_turns |-> 0, start |-> v]
  BY DEF Fresh
<1>2. /\ <<>> \in Seq(Vocabulary) /\ <<>> \in Seq({0, 1}) /\ <<>> \in Seq(Voices)
      /\ <<>> \in Seq(Voices \cup {"zero"})
  BY EmptySeq
<1>3. a \in AgentData
  <2> DEFINE none == <<>>
  <2>1. a = [state |-> "pending", response |-> none, mask |-> none, logprobs |-> none,
             response_ids |-> none, assistant_turns |-> 0, user_turns |-> 0, start |-> v]
    BY <1>1
  <2>2. /\ none \in Seq(Vocabulary) /\ none \in Seq({0, 1}) /\ none \in Seq(Voices)
        /\ none \in Seq(Voices \cup {"zero"}) /\ "pending" \in AgentStates
    BY <1>2 DEF AgentStates
  <2> HIDE DEF none, a
  <2> QED
    BY <2>1, <2>2 DEF AgentData
<1>4. /\ a.state = "pending" /\ a.response = <<>> /\ a.mask = <<>> /\ a.logprobs = <<>>
      /\ a.assistant_turns = 0 /\ a.user_turns = 0 /\ a.start = v
  BY <1>1
<1> HIDE DEF a
<1>5. Marked(a)
  <2>1. Len(<<>>) = 0 /\ 1..0 = {}
    BY EmptySeq
  <2> QED
    BY <1>4, <2>1 DEF Marked
<1>6. MaxAssistantTurns > 0 => 0 < MaxAssistantTurns /\ 0 <= MaxAssistantTurns
  BY AgentLoopAssumption
<1>7. Sound(a)
  BY <1>4, <1>5, <1>6 DEF Sound
<1> QED
  BY <1>3, <1>4, <1>7 DEF a

(* A trajectory starts afresh or goes on from where it was cut.            *)
LEMMA StartOne ==
  ASSUME AgentInv, Start, NEW t \in Trajectories
  PROVE  Intact(t)' /\ task'[t] # "none"
<1> DEFINE a == agent[t]
           c == agent'[t]
<1>1. /\ Intact(t) /\ task[t] \in {"none", "returned"} /\ stamp = version /\ version \in Nat
      /\ kind \in LoopKinds
  BY DEF AgentInv, Start, Phases
<1>2. /\ UNCHANGED <<kind, version, request, output, said, executed, posted>>
      /\ task'[t] = IF Completed(t) THEN "returned"
                    ELSE IF kind = "single_turn" THEN "calling" ELSE "top"
      /\ c = IF output[t] = NoAnswer THEN [Fresh EXCEPT !.start = stamp] ELSE a
  BY DEF Start
<1>3. request[t] = NoRequest /\ (Completed(t)' <=> Completed(t))
  BY <1>1, <1>2 DEF Intact, Placed, Completed
<1> HIDE DEF c
<1>4. CASE Completed(t)
  <2>1. task'[t] = task[t] /\ c = a
    BY <1>1, <1>2, <1>4 DEF Intact, Returned, Answered, Completed
  <2>2. Same(t)
    BY <1>2, <2>1 DEF Same, c
  <2> QED
    BY <1>1, <1>2, <1>4, <2>2, LeftAlone
<1>5. CASE ~Completed(t)
  <2>1. /\ task'[t] = IF kind = "single_turn" THEN "calling" ELSE "top"
        /\ c \in AgentData /\ Sound(c) /\ c.start <= version /\ c.start \in Nat
        /\ c.response = a.response /\ c.state = a.state
        /\ \A k \in 1..Len(said[t]) : said[t][k].version \in c.start..version
        /\ executed[t] + Owed(c) <= ToolCalls(c.response)
    <3>1. CASE output[t] = NoAnswer
      <4>1. Untouched(t) /\ c = [Fresh EXCEPT !.start = version]
        BY <1>1, <1>2, <3>1 DEF Intact, Returned, Placed
      <4>2. /\ c \in AgentData /\ Sound(c) /\ c.start = version /\ c.state = "pending"
            /\ c.response = <<>>
        BY <1>1, <4>1, FreshData
      <4>3. a.response = <<>> /\ a.state = "pending" /\ said[t] = <<>> /\ executed[t] = 0
        BY <4>1 DEF Untouched, Fresh
      <4>4. 1..Len(said[t]) = {}
        <5>1. Len(said[t]) = 0
          BY <4>3, EmptySeq
        <5> QED
          BY <5>1
      <4>5. ToolCalls(<<>>) \in Nat
        <5>1. <<>> \in Seq(Voices)
          BY EmptySeq
        <5> QED
          BY <5>1, CallsFinite
      <4>6. executed[t] + Owed(c) <= ToolCalls(c.response)
        BY <4>2, <4>3, <4>5 DEF Owed
      <4> QED
        BY <1>1, <1>2, <1>5, <4>2, <4>3, <4>4, <4>6
    <3>2. CASE output[t] # NoAnswer
      <4>1. c = a
        BY <1>2, <3>2
      <4> QED
        BY <1>1, <1>2, <1>5, <4>1 DEF Intact, AgentData
    <3> QED
      BY <3>1, <3>2
  <2>2. Sound(agent[t])'
    BY <1>2, <2>1 DEF Sound, c
  <2>3. Heard(t)' /\ Fitting(t)'
    <3>1. /\ agent'[t].response = agent[t].response /\ agent'[t].state = agent[t].state
          /\ said'[t] = said[t] /\ request'[t] = request[t]
      BY <1>2, <2>1 DEF c
    <3> QED
      BY <1>1, <1>3, <3>1 DEF Intact, Heard, Fitting
  <2>4. kind = "single_turn" => c.state = "pending"
    BY <2>1 DEF Sound
  <2>5. Placed(t)'
    BY <1>2, <1>3, <2>1, <2>4 DEF Placed, c
  <2>6. Returned(t)'
    <3>1. output'[t].is_cancel \in BOOLEAN /\ posted'[t] = 0 /\ task'[t] # "returned"
      BY <1>1, <1>2, <1>5, <2>1 DEF Intact, Returned
    <3> QED
      BY <1>3, <1>5, <3>1 DEF Returned
  <2>7. task'[t] \in Tasks /\ task'[t] # "none"
    BY <2>1 DEF Tasks
  <2>8. /\ request'[t] \in ServerRequest /\ said'[t] \in Seq(Utterance)
        /\ executed'[t] \in Nat /\ posted'[t] \in Nat
    BY <1>1, <1>2 DEF Intact
  <2> QED
    BY <1>2, <2>1, <2>2, <2>3, <2>5, <2>6, <2>7, <2>8 DEF Intact, c
<1> QED
  BY <1>4, <1>5

LEMMA StartStep ==
  ASSUME AgentInv, Start
  PROVE  AgentInv'
<1>1. /\ UNCHANGED <<kind, phase, version, event, paused, stamp, request, output, said,
                     executed, posted>>
      /\ sample = "submitted" /\ sample' = "running"
      /\ DOMAIN task' = Trajectories /\ DOMAIN agent' = Trajectories
  BY DEF Start
<1>2. Trajectories' = Trajectories
  BY <1>1 DEF Trajectories
<1>3. Arrays'
  BY <1>1, <1>2 DEF AgentInv, Arrays
<1>4. \A t \in Trajectories : Intact(t)' /\ task'[t] # "none"
  BY StartOne
<1>5. Phases'
  BY <1>1, <1>2, <1>4 DEF AgentInv, Phases
<1> QED
  BY <1>2, <1>3, <1>4, <1>5 DEF AgentInv

LEMMA AgentInitially == AgentInit => AgentInv
<1> SUFFICES ASSUME AgentInit PROVE AgentInv
  OBVIOUS
<1>1. version = 0 /\ stamp = 0 /\ kind \in LoopKinds /\ sample = "queued"
  BY DEF AgentInit
<1>2. Arrays
  BY DEF AgentInit, Arrays
<1>3. Phases
  <2>1. 0 \in 0..MaxCuts /\ 0 \in 0..0 /\ 0 <= MaxCuts
    BY AgentLoopAssumption
  <2>2. /\ phase = "running" /\ event = FALSE /\ paused = FALSE
        /\ \A t \in Trajectories : task[t] = "none"
    BY DEF AgentInit
  <2> QED
    BY <1>1, <2>1, <2>2 DEF Phases
<1>4. ASSUME NEW t \in Trajectories
      PROVE  Intact(t)
  <2>1. /\ task[t] = "none" /\ agent[t] = Fresh /\ request[t] = NoRequest
        /\ output[t] = NoAnswer /\ said[t] = <<>> /\ executed[t] = 0 /\ posted[t] = 0
    BY DEF AgentInit
  <2>2. Fresh = [Fresh EXCEPT !.start = 0]
    BY DEF Fresh
  <2> DEFINE a == agent[t]
  <2>3. a \in AgentData /\ Sound(a) /\ a.start = 0 /\ a.state = "pending" /\ a.response = <<>>
    BY <2>1, <2>2, FreshData, ZenonT(60)
  <2>4. NoRequest \in ServerRequest /\ NoRequest.tokens = <<>> /\ NoRequest.finished = FALSE
    BY EmptySeq DEF NoRequest, ServerRequest
  <2>5. <<>> \in Seq(Utterance) /\ <<>> \in Seq(Voices) /\ Len(<<>>) = 0 /\ 1..0 = {}
    BY EmptySeq
  <2>6. NoAnswer.is_cancel = FALSE
    BY DEF NoAnswer
  <2>7. Heard(t)
    BY <2>1, <2>3, <2>4, <2>5 DEF Heard
  <2>8. Fitting(t)
    <3>1. Len(a.response) + Len(request[t].tokens) = 0
      BY <2>1, <2>3, <2>4, <2>5
    <3>2. Room \in Nat /\ Room > 0
      BY AgentLoopAssumption
    <3> QED
      BY <2>1, <2>4, <3>1, <3>2 DEF Fitting
  <2>9. Placed(t) /\ Returned(t)
    BY <2>1, <2>6 DEF Placed, Returned, Untouched, Completed
  <2>10. ToolCalls(<<>>) \in Nat
    BY <2>5, CallsFinite
  <2>11. executed[t] + Owed(a) <= ToolCalls(a.response)
    BY <2>1, <2>3, <2>10 DEF Owed
  <2>12. \A k \in 1..Len(said[t]) : said[t][k].version \in a.start..version
    BY <2>1, <2>5
  <2>13. request[t] \in ServerRequest /\ said[t] \in Seq(Utterance) /\ task[t] \in Tasks
    BY <2>1, <2>4, <2>5 DEF Tasks
  <2> QED
    BY <1>1, <2>1, <2>3, <2>7, <2>8, <2>9, <2>11, <2>12, <2>13 DEF Intact
<1> QED
  BY <1>2, <1>3, <1>4 DEF AgentInv

LEMMA AgentPreserved == AgentInv /\ [AgentNext]_agentVars => AgentInv'
<1> SUFFICES ASSUME AgentInv, [AgentNext]_agentVars PROVE AgentInv'
  OBVIOUS
<1>1. CASE \/ Submit \/ WorkerReturns \/ Pause \/ CancelAgentLoops \/ Transfer
           \/ ResumeAgentLoops \/ ResumeServer \/ Resumed \/ UNCHANGED agentVars
  BY <1>1, QuietStep
<1>2. CASE Start
  BY <1>2, StartStep
<1>3. CASE CancelServer
  BY <1>3, CancelServerStep
<1>4. CASE \E t \in Trajectories : Run(t)
  BY <1>4, RunStep
<1> QED
  BY <1>1, <1>2, <1>3, <1>4 DEF AgentNext, Cut, AgentFinished

LEMMA AgentAlways == AgentSpec => []AgentInv
BY AgentInitially, AgentPreserved, PTL DEF AgentSpec

-------------------------------------------------------------------------------
(* What the invariant says of the results.                                 *)
LEMMA Prefixed ==
  ASSUME NEW S, NEW s \in Seq(S), NEW n \in Nat
  PROVE  /\ Prefix(s, n) \in Seq(S)
         /\ Len(Prefix(s, n)) = IF Len(s) < n THEN Len(s) ELSE n
         /\ \A k \in 1..Len(Prefix(s, n)) : k \in 1..Len(s) /\ Prefix(s, n)[k] = s[k]
<1>1. Len(s) \in Nat
  BY LenProperties
<1>2. CASE Len(s) <= n
  <2>1. Prefix(s, n) = s
    BY <1>2 DEF Prefix
  <2>2. Len(s) = IF Len(s) < n THEN Len(s) ELSE n
    BY <1>1, <1>2
  <2> QED
    BY <2>1, <2>2
<1>3. CASE ~(Len(s) <= n)
  <2>1. Prefix(s, n) = SubSeq(s, 1, n)
    BY <1>3 DEF Prefix
  <2>2. n \in 0..Len(s) /\ ~(Len(s) < n)
    BY <1>1, <1>3
  <2>3. \A k \in 1..n : s[k] \in S
    BY <1>1, <2>2, ElementOfSeq
  <2>4. /\ SubSeq(s, 1, n) \in Seq(S) /\ Len(SubSeq(s, 1, n)) = n
        /\ \A k \in 1..n : SubSeq(s, 1, n)[k] = s[k]
    BY <1>1, <2>2, <2>3, SubSeqProperties
  <2>5. \A k \in 1..n : k \in 1..Len(s)
    BY <1>1, <2>2
  <2> QED
    BY <2>1, <2>2, <2>4, <2>5
<1> QED
  BY <1>2, <1>3

LEMMA AlignedOne ==
  ASSUME NEW t, Intact(t), Completed(t)
  PROVE  /\ Len(output[t].response) \in 1..ResponseLength
         /\ DOMAIN output[t].mask = DOMAIN output[t].response
         /\ DOMAIN output[t].logprobs = DOMAIN output[t].response
         /\ \A k \in DOMAIN output[t].response :
              IF output[t].response[k] = "observation"
              THEN output[t].mask[k] = 0 /\ output[t].logprobs[k] = "zero"
              ELSE output[t].mask[k] = 1 /\ output[t].logprobs[k] = output[t].response[k]
<1> DEFINE a == agent[t]
           o == output[t]
<1>1. Answered(t) /\ a \in AgentData /\ Marked(a)
  BY DEF Intact, Returned, Sound
<1>2. /\ o.response = Prefix(a.response, ResponseLength)
      /\ o.mask = Prefix(a.mask, ResponseLength)
      /\ o.logprobs = Prefix(a.logprobs, ResponseLength)
      /\ a.response # <<>>
  BY <1>1 DEF Answered
<1>3. /\ a.response \in Seq(Vocabulary) /\ a.mask \in Seq({0, 1})
      /\ a.logprobs \in Seq(Voices \cup {"zero"}) /\ ResponseLength \in Nat /\ ResponseLength > 0
  BY <1>1, AgentLoopAssumption, SMTT(60) DEF AgentData
<1>4. /\ Len(a.mask) = Len(a.response) /\ Len(a.logprobs) = Len(a.response)
      /\ Len(a.response) \in Nat /\ Len(a.response) # 0
  BY <1>1, <1>2, <1>3, LenProperties, EmptySeq DEF Marked
<1>5. /\ o.response \in Seq(Vocabulary)
      /\ Len(o.response) = IF Len(a.response) < ResponseLength THEN Len(a.response)
                           ELSE ResponseLength
      /\ \A k \in 1..Len(o.response) : k \in 1..Len(a.response) /\ o.response[k] = a.response[k]
  <2> DEFINE words == Vocabulary
             s == a.response
             n == ResponseLength
  <2>1. s \in Seq(words) /\ n \in Nat
    BY <1>3
  <2> HIDE DEF words, s, n
  <2>2. /\ Prefix(s, n) \in Seq(words)
        /\ Len(Prefix(s, n)) = IF Len(s) < n THEN Len(s) ELSE n
        /\ \A k \in 1..Len(Prefix(s, n)) : k \in 1..Len(s) /\ Prefix(s, n)[k] = s[k]
    BY <2>1, Prefixed
  <2> QED
    BY <1>2, <2>2 DEF words, s, n
<1>6. /\ o.mask \in Seq({0, 1})
      /\ Len(o.mask) = IF Len(a.mask) < ResponseLength THEN Len(a.mask) ELSE ResponseLength
      /\ \A k \in 1..Len(o.mask) : o.mask[k] = a.mask[k]
  <2> DEFINE bits == {0, 1}
             s == a.mask
  <2>1. s \in Seq(bits) /\ ResponseLength \in Nat
    BY <1>3
  <2> HIDE DEF bits, s
  <2>2. /\ Prefix(s, ResponseLength) \in Seq(bits)
        /\ Len(Prefix(s, ResponseLength)) = IF Len(s) < ResponseLength THEN Len(s)
                                             ELSE ResponseLength
        /\ \A k \in 1..Len(Prefix(s, ResponseLength)) : Prefix(s, ResponseLength)[k] = s[k]
    BY <2>1, Prefixed
  <2> QED
    BY <1>2, <2>2 DEF bits, s
<1>7. /\ o.logprobs \in Seq(Voices \cup {"zero"})
      /\ Len(o.logprobs) = IF Len(a.logprobs) < ResponseLength THEN Len(a.logprobs)
                           ELSE ResponseLength
      /\ \A k \in 1..Len(o.logprobs) : o.logprobs[k] = a.logprobs[k]
  <2> DEFINE credits == Voices \cup {"zero"}
             s == a.logprobs
             n == ResponseLength
  <2>1. s \in Seq(credits) /\ n \in Nat
    BY <1>3
  <2> HIDE DEF credits, s, n
  <2>2. /\ Prefix(s, n) \in Seq(credits)
        /\ Len(Prefix(s, n)) = IF Len(s) < n THEN Len(s) ELSE n
        /\ \A k \in 1..Len(Prefix(s, n)) : Prefix(s, n)[k] = s[k]
    BY <2>1, Prefixed
  <2> QED
    BY <1>2, <2>2 DEF credits, s, n
<1> HIDE DEF o
<1>8. Len(o.mask) = Len(o.response) /\ Len(o.logprobs) = Len(o.response)
  BY <1>4, <1>5, <1>6, <1>7
<1>9. /\ DOMAIN o.response = 1..Len(o.response) /\ DOMAIN o.mask = 1..Len(o.mask)
      /\ DOMAIN o.logprobs = 1..Len(o.logprobs)
  BY <1>5, <1>6, <1>7, LenProperties
<1>10. Len(o.response) \in 1..ResponseLength
  BY <1>3, <1>4, <1>5
<1>11. ASSUME NEW k \in DOMAIN o.response
       PROVE  IF o.response[k] = "observation" THEN o.mask[k] = 0 /\ o.logprobs[k] = "zero"
              ELSE o.mask[k] = 1 /\ o.logprobs[k] = o.response[k]
  <2>1. /\ k \in 1..Len(a.response) /\ o.response[k] = a.response[k]
        /\ o.mask[k] = a.mask[k] /\ o.logprobs[k] = a.logprobs[k]
    BY <1>5, <1>6, <1>7, <1>8, <1>9
  <2> QED
    BY <1>1, <2>1 DEF Marked
<1> QED
  BY <1>8, <1>9, <1>10, <1>11 DEF o

LEMMA NothingLostOne ==
  ASSUME NEW t, Intact(t), Completed(t)
  PROVE  /\ output[t].response = [k \in DOMAIN output[t].response |-> said[t][k].token]
         /\ Len(output[t].response) = IF Len(said[t]) < ResponseLength THEN Len(said[t])
                                      ELSE ResponseLength
<1> DEFINE kept == agent[t].response
           r == output[t].response
<1>1. /\ Answered(t) /\ Heard(t) /\ kept \in Seq(Vocabulary) /\ ResponseLength \in Nat
  BY AgentLoopAssumption DEF Intact, Returned, AgentData
<1>2. r = Prefix(kept, ResponseLength) /\ request[t] = NoRequest
  BY <1>1 DEF Answered
<1>3. /\ Len(request[t].tokens) = 0 /\ Len(kept) \in Nat
  BY <1>1, <1>2, EmptySeq, LenProperties DEF NoRequest
<1>4. /\ Len(said[t]) = Len(kept) + Len(request[t].tokens)
      /\ \A k \in 1..Len(kept) : said[t][k].token = kept[k]
  BY <1>1 DEF Heard
<1>5. Len(said[t]) = Len(kept)
  BY <1>3, <1>4
<1>6. /\ r \in Seq(Vocabulary)
      /\ Len(r) = IF Len(kept) < ResponseLength THEN Len(kept) ELSE ResponseLength
      /\ \A k \in 1..Len(r) : k \in 1..Len(kept) /\ r[k] = kept[k]
  BY <1>1, <1>2, Prefixed
<1> HIDE DEF r
<1>7. DOMAIN r = 1..Len(r) /\ r = [k \in DOMAIN r |-> r[k]]
  <2>1. r \in [1..Len(r) -> Vocabulary]
    BY <1>6, LenProperties
  <2> QED
    BY <2>1
<1>8. \A k \in DOMAIN r : r[k] = said[t][k].token
  BY <1>4, <1>6, <1>7
<1>9. r = [k \in DOMAIN r |-> said[t][k].token]
  BY <1>7, <1>8
<1> QED
  BY <1>5, <1>6, <1>9 DEF r

LEMMA ExecutedOnceOne ==
  ASSUME NEW t, Intact(t)
  PROVE  executed[t] <= ToolCalls(Spoken(t))
<1> DEFINE kept == agent[t].response
           n == Len(kept)
           m == Len(request[t].tokens)
<1>1. /\ Heard(t) /\ kept \in Seq(Vocabulary) /\ said[t] \in Seq(Utterance)
      /\ request[t].tokens \in Seq(Voices) /\ executed[t] \in Nat
      /\ agent[t].response_ids \in Seq(Voices)
      /\ executed[t] + Owed(agent[t]) <= ToolCalls(kept)
  BY DEF Intact, AgentData, ServerRequest
<1>2. n \in Nat /\ m \in Nat /\ Len(said[t]) \in Nat
  BY <1>1, LenProperties
<1>3. Spoken(t) \in Seq(Vocabulary) /\ Len(Spoken(t)) = Len(said[t])
      /\ \A k \in 1..Len(said[t]) : Spoken(t)[k] = said[t][k].token
  <2>1. DOMAIN said[t] = 1..Len(said[t])
    BY <1>1, LenProperties
  <2>2. \A k \in 1..Len(said[t]) : said[t][k].token \in Vocabulary
    <3>1. \A k \in 1..Len(said[t]) : said[t][k] \in Utterance
      BY <1>1, ElementOfSeq
    <3> QED
      BY <3>1 DEF Utterance
  <2>3. Spoken(t) = [k \in 1..Len(said[t]) |-> said[t][k].token]
    BY <2>1 DEF Spoken
  <2>4. Spoken(t) \in Seq(Vocabulary)
    BY <1>2, <2>2, <2>3, IsASeq
  <2>5. DOMAIN Spoken(t) = 1..Len(said[t])
    BY <2>3
  <2>6. Len(Spoken(t)) = Len(said[t])
    BY <1>2, <2>4, <2>5, LenProperties
  <2> QED
    BY <2>3, <2>4, <2>6
<1>4. Len(said[t]) = n + m /\ \A k \in 1..n : said[t][k].token = kept[k]
  BY <1>1 DEF Heard
<1>5. n <= Len(Spoken(t)) /\ \A k \in 1..n : k \in 1..Len(said[t])
  <2> DEFINE l == Len(said[t])
  <2>1. n \in Nat /\ m \in Nat /\ l = n + m /\ Len(Spoken(t)) = l
    BY <1>2, <1>3, <1>4
  <2> HIDE DEF n, m, l
  <2>2. n <= l /\ \A k \in 1..n : k \in 1..l
    BY <2>1
  <2> QED
    BY <2>1, <2>2 DEF l
<1>6. \A k \in 1..n : k \in 1..Len(said[t])
  BY <1>5
<1>7. \A k \in 1..n : Spoken(t)[k] = kept[k]
  BY <1>3, <1>4, <1>6
<1>8. ToolCalls(kept) <= ToolCalls(Spoken(t))
  BY <1>1, <1>3, <1>5, <1>7, CallsOfLonger
<1>9. Owed(agent[t]) \in Nat /\ ToolCalls(kept) \in Nat /\ ToolCalls(Spoken(t)) \in Nat
  <2>1. ToolCalls(agent[t].response_ids) \in Nat
    BY <1>1, CallsFinite
  <2>2. Owed(agent[t]) \in Nat
    BY <2>1 DEF Owed
  <2> QED
    BY <1>1, <1>3, <2>2, CallsFinite
<1> QED
  BY <1>1, <1>8, <1>9

LEMMA IntactImplied == AgentInv => TrajectoryIntact
<1> SUFFICES ASSUME AgentInv PROVE TrajectoryIntact
  OBVIOUS
<1>1. Phases /\ \A t \in Trajectories : Intact(t)
  BY DEF AgentInv
<1>2. AgentTypeOK
  <2>1. /\ kind \in LoopKinds /\ version \in 0..MaxCuts /\ stamp \in 0..version
        /\ phase \in {"running", "cancelling", "resuming"}
        /\ {event, paused} \subseteq BOOLEAN
        /\ sample \in {"queued", "submitted", "running", "done"}
    BY <1>1 DEF Phases
  <2>2. ASSUME NEW t \in Trajectories
        PROVE  /\ task[t] \in {"none", "top", "calling", "serving", "tools", "interaction",
                               "returned"}
               /\ agent[t].state \in {"pending", "generating", "processing_tools",
                                      "interacting", "terminated"}
               /\ Len(agent[t].response) <= Room /\ agent[t].start \in 0..version
               /\ output[t].is_cancel \in BOOLEAN
    <3>1. Intact(t) /\ version \in Nat
      BY <1>1, <2>1
    <3>2. task[t] \in Tasks /\ agent[t].state \in AgentStates /\ output[t].is_cancel \in BOOLEAN
      BY <3>1 DEF Intact, AgentData, Returned
    <3>3. agent[t].start \in Nat /\ agent[t].start <= version
      BY <3>1 DEF Intact, AgentData
    <3>4. agent[t].start \in 0..version
      BY <3>1, <3>3
    <3>5. agent[t].response \in Seq(Vocabulary) /\ request[t].tokens \in Seq(Voices)
      BY <3>1 DEF Intact, AgentData, ServerRequest
    <3>6. Len(agent[t].response) \in Nat /\ Len(request[t].tokens) \in Nat
      BY <3>5, LenProperties
    <3>7. Len(agent[t].response) + Len(request[t].tokens) <= Room /\ Room \in Nat
      BY <3>1, AgentLoopAssumption DEF Intact, Fitting
    <3>8. Len(agent[t].response) <= Room
      <4> DEFINE n == Len(agent[t].response)
                 m == Len(request[t].tokens)
      <4>1. n \in Nat /\ m \in Nat /\ n + m <= Room /\ Room \in Nat
        BY <3>6, <3>7
      <4> HIDE DEF n, m
      <4>2. n <= Room
        BY <4>1
      <4> QED
        BY <4>2 DEF n
    <3> QED
      BY <3>2, <3>4, <3>8 DEF Tasks, AgentStates
  <2> QED
    BY <2>1, <2>2 DEF AgentTypeOK
<1>3. Aligned
  BY <1>1, AlignedOne DEF Aligned
<1>4. NothingLost
  BY <1>1, NothingLostOne DEF NothingLost
<1>5. VersionSpan
  <2>1. ASSUME NEW t \in Trajectories, Completed(t), NEW k \in DOMAIN said[t]
        PROVE  said[t][k].version \in output[t].start..output[t].end
    <3>1. k \in 1..Len(said[t])
      BY <1>1, LenProperties DEF Intact
    <3> QED
      BY <1>1, <2>1, <3>1 DEF Intact, Returned, Answered
  <2> QED
    BY <2>1 DEF VersionSpan
<1>6. TurnsCounted
  BY <1>1 DEF TurnsCounted, Intact, Sound, Returned, Answered
<1>7. PostprocessedOnce
  BY <1>1 DEF PostprocessedOnce, Intact, Returned, Answered
<1>8. CallsExecutedOnce
  BY <1>1, ExecutedOnceOne DEF CallsExecutedOnce
<1> QED
  BY <1>2, <1>3, <1>4, <1>5, <1>6, <1>7, <1>8 DEF TrajectoryIntact

(* However often a synchronisation cuts a sample, and in whatever order    *)
(* the cut reaches the server and the loops (generate_sequences_no_post,   *)
(* _run_state_machine, generate_for_partial), a completed trajectory is    *)
(* what was said, with its mask and log-probabilities token for token and  *)
(* its versions, and no turn, call or post-processing is done twice.       *)
THEOREM TrajectoriesStayWhole == AgentSpec => []TrajectoryIntact
BY AgentAlways, IntactImplied, PTL
===============================================================================
