----------------------------- MODULE Services_proofs -----------------------------
(***************************************************************************)
(* Two services.  ResumesWhole and ProgressKept of Checkpoint, for any     *)
(* trainers, managers and settings, any length of training and any number  *)
(* of crashes.  CkptInv says, for what is left of the save under way, what *)
(* the directory of its step already holds, what the tracker names         *)
(* meanwhile, and that neither the rotation of old paths nor a later save  *)
(* touches it.  LimitsKept of RewardLimiter, for any requests and any      *)
(* settings: LimInv says of each limiter how what it let through stands to *)
(* what is in its bucket, and of the semaphore who holds it.               *)
(***************************************************************************)
EXTENDS Checkpoint, RewardLimiter, FiniteSetTheorems, SequenceTheorems, NaturalsInduction, TLAPS

BeginActor == <<"begin", "actor">>
BeginCritic == <<"begin", "critic">>
EndActor == <<"end", "actor">>
EndCritic == <<"end", "critic">>
Data == <<"write", "data">>
Truncate == <<"truncate", "tracker">>
Name == <<"write", "tracker">>

(* What can be left of a save, and of the finalisation of one: T with the   *)
(* tracker next, A asynchronously, S of the supervised trainer, F and G of *)
(* FSDP without and with a critic, M and L of Megatron.                    *)
T1 == <<Name>>
T2 == <<Truncate, Name>>
A1 == <<Data>>
A2 == <<BeginActor, Data>>
A3 == <<BeginCritic, Data>>
A4 == <<BeginActor, BeginCritic, Data>>
S2 == <<Data, Name>>
S3 == <<EndActor, Data, Name>>
S4 == <<BeginActor, EndActor, Data, Name>>
F3 == <<Data, Truncate, Name>>
F4 == <<EndActor, Data, Truncate, Name>>
F5 == <<BeginActor, EndActor, Data, Truncate, Name>>
G4 == <<EndCritic, Data, Truncate, Name>>
G5 == <<BeginCritic, EndCritic, Data, Truncate, Name>>
G6 == <<EndActor, BeginCritic, EndCritic, Data, Truncate, Name>>
G7 == <<BeginActor, EndActor, BeginCritic, EndCritic, Data, Truncate, Name>>
M4 == <<Name, Data, Truncate, Name>>
M5 == <<Truncate, Name, Data, Truncate, Name>>
M6 == <<EndActor, Truncate, Name, Data, Truncate, Name>>
M7 == <<BeginActor, EndActor, Truncate, Name, Data, Truncate, Name>>
L6 == <<EndCritic, Truncate, Name, Data, Truncate, Name>>
L7 == <<BeginCritic, EndCritic, Truncate, Name, Data, Truncate, Name>>
L8 == <<Name, BeginCritic, EndCritic, Truncate, Name, Data, Truncate, Name>>
L9 == <<Truncate, Name, BeginCritic, EndCritic, Truncate, Name, Data, Truncate, Name>>
L10 == <<EndActor, Truncate, Name, BeginCritic, EndCritic, Truncate, Name, Data,
         Truncate, Name>>
L11 == <<BeginActor, EndActor, Truncate, Name, BeginCritic, EndCritic, Truncate, Name,
         Data, Truncate, Name>>

Left(j, s) ==
  \/ s = <<>>
  \/ j.manager = "async" /\ ~j.critic /\ s \in {T1, T2, A1, A2}
  \/ j.manager = "async" /\ j.critic /\ s \in {T1, T2, A1, A3, A4}
  \/ j.manager = "fsdp" /\ j.trainer = "sft" /\ ~j.critic /\ s \in {T1, S2, S3, S4}
  \/ j.manager = "fsdp" /\ j.trainer # "sft" /\ ~j.critic /\ s \in {T1, T2, F3, F4, F5}
  \/ j.manager = "fsdp" /\ j.trainer # "sft" /\ j.critic /\ s \in {T1, T2, F3, G4, G5, G6, G7}
  \/ j.manager = "megatron" /\ ~j.critic /\ s \in {T1, T2, F3, M4, M5, M6, M7}
  \/ j.manager = "megatron" /\ j.critic
       /\ s \in {T1, T2, F3, M4, M5, L6, L7, L8, L9, L10, L11}

Within(op, s) == \E k \in DOMAIN s : s[k] = op
Ahead(op) == Within(op, todo)
Async == job.manager = "async"
Asynchronous == job.trainer = "fully_async"
Finalising == Async /\ Ahead(Name)
Slack(n) == IF Asynchronous THEN Lead * n ELSE 0

Directory ==
  [actor : {"none", "partial", "whole"}, critic : {"none", "partial", "whole"},
   data : [DpRanks(job) -> NoFile..Steps], weights : SUBSET ({0, 1} \X (1..Steps))]
AsyncCall == [part : {"actor", "critic"}, step : 1..Steps, written : BOOLEAN]

Types ==
  /\ job \in CkptJobs /\ trainer \in {"running", "done", "failed"}
  /\ step \in 0..Steps /\ weights \in SUBSET ({0, 1} \X (1..Steps))
  /\ position \in [DpRanks(job) -> 0..Steps]
  /\ inflight \in Seq(1..Steps) /\ Len(inflight) <= Lead
  /\ target \in 0..Steps /\ late \in SUBSET {1}
  /\ previous_saved_paths \in [actor : Seq(1..Steps), critic : Seq(1..Steps)]
  /\ pending \in Seq(AsyncCall) /\ disk \in [1..Steps -> Directory]
  /\ tracker \in EmptyTracker..Steps /\ durable \in 0..Steps /\ restarts \in 0..CkptCrashes

(* The save under way. *)
LastOf(paths, s) == paths # <<>> /\ paths[Len(paths)] = s
Planned ==
  /\ Left(job, todo)
  /\ todo # <<>> \/ late # {} => target \in 1..step
  /\ todo # <<>> /\ ~Finalising => target = step
  /\ late # {} =>
       /\ target = step /\ job.trainer = "sft" /\ ~Ahead(BeginActor) /\ ~Ahead(EndActor)
       /\ LastOf(previous_saved_paths.actor, target)
  /\ trainer = "running" /\ tracker = EmptyTracker => todo # <<>> /\ Head(todo) = Name

(* The dataloaders. *)
Reading ==
  /\ ~Asynchronous =>
       /\ inflight = <<>>
       /\ \A r \in DpRanks(job) : position[r] <= step
       /\ \A s \in 1..Steps : \A r \in DpRanks(job) : disk[s].data[r] <= s
  /\ Asynchronous =>
       \A k \in 1..Len(inflight) : inflight[k] = position[0] - Len(inflight) + k

(* The batches in the weights, in memory and on disk. *)
Taken == position[0] - Len(inflight)
Trained ==
  Ordered(job) =>
    /\ weights \subseteq {0} \X (1..Taken) /\ Cardinality(weights) = step
    /\ Taken <= step + Slack(restarts)
Most == Slack(restarts + 1)
Fits(dir, s, n) ==
  /\ dir.data[0] # NoFile
  /\ dir.weights \subseteq {0} \X (1..dir.data[0]) /\ Cardinality(dir.weights) = s
  /\ dir.data[0] <= s + n
PartsWhole(s) ==
  disk[s].actor = "whole" /\ (job.critic => disk[s].critic = "whole")
Named ==
  Ordered(job) =>
    /\ tracker \in 1..Steps => PartsWhole(tracker) /\ Fits(disk[tracker], tracker, Most)
    /\ Ahead(Data) => tracker < target

(* What is on disk of the step being saved. *)
Saved ==
  /\ ~Async /\ todo # <<>> =>
       /\ ~Ahead(BeginActor) /\ ~Ahead(EndActor) =>
            disk[target].actor = "whole" /\ LastOf(previous_saved_paths.actor, target)
       /\ job.critic /\ ~Ahead(BeginCritic) /\ ~Ahead(EndCritic) =>
            disk[target].critic = "whole" /\ LastOf(previous_saved_paths.critic, target)
  /\ Ordered(job) /\ todo # <<>> =>
       /\ Ahead(Data) /\ ~Ahead(BeginActor) => disk[target].weights = weights
       /\ ~Ahead(Data) => Fits(disk[target], target, Most)
       /\ ~Ahead(Data) => PartsWhole(target)

(* The paths the managers remember. *)
Rising(paths) == \A k, l \in 1..Len(paths) : k < l => paths[k] < paths[l]
UpTo(s, paths) == \A k \in 1..Len(paths) : paths[k] <= s
Rotating ==
  ~Async =>
    /\ pending = <<>> /\ (~job.critic => previous_saved_paths.critic = <<>>)
    /\ Rising(previous_saved_paths.actor) /\ Rising(previous_saved_paths.critic)
    /\ UpTo(IF Ahead(EndActor) THEN step - 1 ELSE step, previous_saved_paths.actor)
    /\ UpTo(IF Ahead(EndCritic) THEN step - 1 ELSE step, previous_saved_paths.critic)
    /\ (todo = <<>> \/ Ahead(BeginActor)) /\ previous_saved_paths.actor # <<>> =>
         LastOf(previous_saved_paths.actor, tracker)
    /\ job.manager = "fsdp" /\ (todo = <<>> \/ Ahead(BeginCritic))
         /\ previous_saved_paths.critic # <<>> => LastOf(previous_saved_paths.critic, tracker)

(* No restart goes back behind a save. *)
Advanced ==
  job.keep # 1 /\ trainer # "failed" =>
    /\ tracker <= step /\ durable <= step
    /\ tracker \in 1..Steps => disk[tracker].actor # "none"
    /\ tracker # EmptyTracker => durable <= tracker
    /\ Ahead(BeginActor) => tracker < step

(* The asynchronous saves. *)
Calls ==
  Async =>
    /\ \A k, l \in 1..Len(pending) : k <= l => pending[k].step <= pending[l].step
    /\ \A k \in 1..Len(pending) :
         LET c == pending[k]
         IN /\ c.step <= step /\ tracker <= c.step /\ durable <= c.step
            /\ Ahead(BeginActor) => c.step < step
            /\ Ahead(BeginCritic) /\ c.part = "critic" => c.step < step
            /\ disk[c.step].actor # "none"
            /\ Finalising => target <= c.step
            /\ c.written => disk[c.step][c.part] = "whole"
            /\ ~job.critic => c.part = "actor"
            /\ Ordered(job) => Fits(disk[c.step], c.step, Most) \/ (Ahead(Data) /\ c.step = step)
    /\ Finalising => tracker <= target /\ durable <= target /\ disk[target].actor # "none"
    /\ Ahead(Data) /\ ~Ahead(BeginActor) => \E k \in 1..Len(pending) : pending[k].step = step

(* The last step is saved before training returns. *)
Finishing ==
  ~Asynchronous =>
    /\ step = Steps /\ trainer = "running" /\ ~Async /\ todo = <<>> =>
         tracker = Steps /\ PartsWhole(Steps)
    /\ step = Steps /\ trainer = "running" /\ Async =>
         /\ \A part \in {"actor"} \cup (IF job.critic THEN {"critic"} ELSE {}) :
              \/ Ahead(<<"begin", part>>) \/ disk[Steps][part] = "whole"
              \/ \E k \in 1..Len(pending) : pending[k].part = part /\ pending[k].step = Steps
         /\ \/ Ahead(BeginActor) \/ tracker = Steps \/ (Finalising /\ target = Steps)
            \/ \E k \in 1..Len(pending) : pending[k].step = Steps
    /\ trainer = "done" => tracker = Steps /\ PartsWhole(Steps)

(* The directories there are: those of earlier lives, of the paths, and of *)
(* the save under way.                                                     *)
Directories ==
  job.keep > 0 =>
    /\ Len(previous_saved_paths.actor) <= job.keep
    /\ todo # <<>> /\ Head(todo) = EndActor => Len(previous_saved_paths.actor) < job.keep
    /\ \E earlier \in SUBSET (1..Steps) :
         /\ Cardinality(earlier) <= job.keep * restarts
         /\ \A s \in 1..Steps : disk[s].actor # "none" =>
              \/ s \in earlier
              \/ \E k \in 1..Len(previous_saved_paths.actor) : previous_saved_paths.actor[k] = s
              \/ todo # <<>> /\ Head(todo) = EndActor /\ s = target

CkptInv ==
  /\ Types /\ Planned /\ Reading /\ Trained /\ Named /\ Saved /\ Rotating /\ Advanced /\ Calls
  /\ Finishing /\ Directories

-------------------------------------------------------------------------------
(* The operations of a save, in their order.                               *)
LEMMA Ops ==
  /\ BeginActor # BeginCritic /\ BeginActor # EndActor /\ BeginActor # EndCritic
     /\ BeginActor # Data /\ BeginActor # Truncate /\ BeginActor # Name
  /\ BeginCritic # EndActor /\ BeginCritic # EndCritic /\ BeginCritic # Data
     /\ BeginCritic # Truncate /\ BeginCritic # Name
  /\ EndActor # EndCritic /\ EndActor # Data /\ EndActor # Truncate /\ EndActor # Name
  /\ EndCritic # Data /\ EndCritic # Truncate /\ EndCritic # Name
  /\ Data # Truncate /\ Data # Name
  /\ Truncate # Name
BY DEF BeginActor, BeginCritic, EndActor, EndCritic, Data, Truncate, Name

LEMMA Heads ==
  /\ T1 # <<>> /\ Head(T1) = Name /\ Tail(T1) = <<>>
  /\ T2 # <<>> /\ Head(T2) = Truncate /\ Tail(T2) = T1
  /\ A1 # <<>> /\ Head(A1) = Data /\ Tail(A1) = <<>>
  /\ A2 # <<>> /\ Head(A2) = BeginActor /\ Tail(A2) = A1
  /\ A3 # <<>> /\ Head(A3) = BeginCritic /\ Tail(A3) = A1
  /\ A4 # <<>> /\ Head(A4) = BeginActor /\ Tail(A4) = A3
  /\ S2 # <<>> /\ Head(S2) = Data /\ Tail(S2) = T1
  /\ S3 # <<>> /\ Head(S3) = EndActor /\ Tail(S3) = S2
  /\ S4 # <<>> /\ Head(S4) = BeginActor /\ Tail(S4) = S3
  /\ F3 # <<>> /\ Head(F3) = Data /\ Tail(F3) = T2
  /\ F4 # <<>> /\ Head(F4) = EndActor /\ Tail(F4) = F3
  /\ F5 # <<>> /\ Head(F5) = BeginActor /\ Tail(F5) = F4
  /\ G4 # <<>> /\ Head(G4) = EndCritic /\ Tail(G4) = F3
  /\ G5 # <<>> /\ Head(G5) = BeginCritic /\ Tail(G5) = G4
  /\ G6 # <<>> /\ Head(G6) = EndActor /\ Tail(G6) = G5
  /\ G7 # <<>> /\ Head(G7) = BeginActor /\ Tail(G7) = G6
  /\ M4 # <<>> /\ Head(M4) = Name /\ Tail(M4) = F3
  /\ M5 # <<>> /\ Head(M5) = Truncate /\ Tail(M5) = M4
  /\ M6 # <<>> /\ Head(M6) = EndActor /\ Tail(M6) = M5
  /\ M7 # <<>> /\ Head(M7) = BeginActor /\ Tail(M7) = M6
  /\ L6 # <<>> /\ Head(L6) = EndCritic /\ Tail(L6) = M5
  /\ L7 # <<>> /\ Head(L7) = BeginCritic /\ Tail(L7) = L6
  /\ L8 # <<>> /\ Head(L8) = Name /\ Tail(L8) = L7
  /\ L9 # <<>> /\ Head(L9) = Truncate /\ Tail(L9) = L8
  /\ L10 # <<>> /\ Head(L10) = EndActor /\ Tail(L10) = L9
  /\ L11 # <<>> /\ Head(L11) = BeginActor /\ Tail(L11) = L10
BY DEF T1, T2, A1, A2, A3, A4, S2, S3, S4, F3, F4, F5, G4, G5, G6, G7, M4, M5, M6, M7, L6, L7,
   L8, L9, L10, L11

(* What each list begins with. *)
First(s) == Head(s)
LEMMA FirstOps ==
  /\ First(T1) = Name /\ First(T2) = Truncate /\ First(A1) = Data
  /\ First(A2) = BeginActor /\ First(A3) = BeginCritic /\ First(A4) = BeginActor
  /\ First(S2) = Data /\ First(S3) = EndActor /\ First(S4) = BeginActor
  /\ First(F3) = Data /\ First(F4) = EndActor /\ First(F5) = BeginActor
  /\ First(G4) = EndCritic /\ First(G5) = BeginCritic /\ First(G6) = EndActor
  /\ First(G7) = BeginActor /\ First(M4) = Name /\ First(M5) = Truncate
  /\ First(M6) = EndActor /\ First(M7) = BeginActor /\ First(L6) = EndCritic
  /\ First(L7) = BeginCritic /\ First(L8) = Name /\ First(L9) = Truncate
  /\ First(L10) = EndActor /\ First(L11) = BeginActor
BY Heads DEF First

LEMMA Nothing == \A x : ~Within(x, <<>>)
BY DEF Within

LEMMA TrueOrFalse == \A x, s : Within(x, s) \in BOOLEAN
BY DEF Within

LEMMA OfT ==
  /\ T1 # <<>> /\ Head(T1) = Name /\ Tail(T1) = <<>>
     /\ \A x : Within(x, T1) <=> x \in {Name}
  /\ T2 # <<>> /\ Head(T2) = Truncate /\ Tail(T2) = T1
     /\ \A x : Within(x, T2) <=> x \in {Truncate, Name}
BY DEF Within, T1, T2

LEMMA OfA ==
  /\ A1 # <<>> /\ Head(A1) = Data /\ Tail(A1) = <<>>
     /\ \A x : Within(x, A1) <=> x \in {Data}
  /\ A2 # <<>> /\ Head(A2) = BeginActor /\ Tail(A2) = A1
     /\ \A x : Within(x, A2) <=> x \in {BeginActor, Data}
  /\ A3 # <<>> /\ Head(A3) = BeginCritic /\ Tail(A3) = A1
     /\ \A x : Within(x, A3) <=> x \in {BeginCritic, Data}
  /\ A4 # <<>> /\ Head(A4) = BeginActor /\ Tail(A4) = A3
     /\ \A x : Within(x, A4) <=> x \in {BeginActor, BeginCritic, Data}
BY DEF Within, A1, A2, A3, A4

LEMMA OfS ==
  /\ S2 # <<>> /\ Head(S2) = Data /\ Tail(S2) = T1
     /\ \A x : Within(x, S2) <=> x \in {Data, Name}
  /\ S3 # <<>> /\ Head(S3) = EndActor /\ Tail(S3) = S2
     /\ \A x : Within(x, S3) <=> x \in {EndActor, Data, Name}
  /\ S4 # <<>> /\ Head(S4) = BeginActor /\ Tail(S4) = S3
     /\ \A x : Within(x, S4) <=> x \in {BeginActor, EndActor, Data, Name}
BY DEF Within, S2, S3, S4, T1

LEMMA OfF ==
  /\ F3 # <<>> /\ Head(F3) = Data /\ Tail(F3) = T2
     /\ \A x : Within(x, F3) <=> x \in {Data, Truncate, Name}
  /\ F4 # <<>> /\ Head(F4) = EndActor /\ Tail(F4) = F3
     /\ \A x : Within(x, F4) <=> x \in {EndActor, Data, Truncate, Name}
  /\ F5 # <<>> /\ Head(F5) = BeginActor /\ Tail(F5) = F4
     /\ \A x : Within(x, F5) <=> x \in {BeginActor, EndActor, Data, Truncate, Name}
BY DEF Within, F3, F4, F5, T2

LEMMA OfG ==
  /\ G4 # <<>> /\ Head(G4) = EndCritic /\ Tail(G4) = F3
     /\ \A x : Within(x, G4) <=> x \in {EndCritic, Data, Truncate, Name}
  /\ G5 # <<>> /\ Head(G5) = BeginCritic /\ Tail(G5) = G4
     /\ \A x : Within(x, G5) <=> x \in {BeginCritic, EndCritic, Data, Truncate, Name}
  /\ G6 # <<>> /\ Head(G6) = EndActor /\ Tail(G6) = G5
     /\ \A x : Within(x, G6) <=> x \in {EndActor, BeginCritic, EndCritic, Data, Truncate, Name}
  /\ G7 # <<>> /\ Head(G7) = BeginActor /\ Tail(G7) = G6
     /\ \A x : Within(x, G7) <=> x \in {BeginActor, EndActor, BeginCritic, EndCritic, Data, Truncate, Name}
BY DEF Within, F3, G4, G5, G6, G7

LEMMA OfM ==
  /\ M4 # <<>> /\ Head(M4) = Name /\ Tail(M4) = F3
     /\ \A x : Within(x, M4) <=> x \in {Name, Data, Truncate}
  /\ M5 # <<>> /\ Head(M5) = Truncate /\ Tail(M5) = M4
     /\ \A x : Within(x, M5) <=> x \in {Truncate, Name, Data}
  /\ M6 # <<>> /\ Head(M6) = EndActor /\ Tail(M6) = M5
     /\ \A x : Within(x, M6) <=> x \in {EndActor, Truncate, Name, Data}
  /\ M7 # <<>> /\ Head(M7) = BeginActor /\ Tail(M7) = M6
     /\ \A x : Within(x, M7) <=> x \in {BeginActor, EndActor, Truncate, Name, Data}
BY DEF Within, F3, M4, M5, M6, M7

LEMMA OfL ==
  /\ L6 # <<>> /\ Head(L6) = EndCritic /\ Tail(L6) = M5
     /\ \A x : Within(x, L6) <=> x \in {EndCritic, Truncate, Name, Data}
  /\ L7 # <<>> /\ Head(L7) = BeginCritic /\ Tail(L7) = L6
     /\ \A x : Within(x, L7) <=> x \in {BeginCritic, EndCritic, Truncate, Name, Data}
  /\ L8 # <<>> /\ Head(L8) = Name /\ Tail(L8) = L7
     /\ \A x : Within(x, L8) <=> x \in {Name, BeginCritic, EndCritic, Truncate, Data}
  /\ L9 # <<>> /\ Head(L9) = Truncate /\ Tail(L9) = L8
     /\ \A x : Within(x, L9) <=> x \in {Truncate, Name, BeginCritic, EndCritic, Data}
  /\ L10 # <<>> /\ Head(L10) = EndActor /\ Tail(L10) = L9
     /\ \A x : Within(x, L10) <=> x \in {EndActor, Truncate, Name, BeginCritic, EndCritic, Data}
  /\ L11 # <<>> /\ Head(L11) = BeginActor /\ Tail(L11) = L10
     /\ \A x : Within(x, L11) <=> x \in {BeginActor, EndActor, Truncate, Name, BeginCritic, EndCritic, Data}
BY DEF Within, L10, L11, L6, L7, L8, L9, M5

(* What goes before an operation, and what is left after it.               *)
LEMMA AtBeginActor ==
  ASSUME NEW j \in CkptJobs, NEW s, Left(j, s), s # <<>>, Head(s) = BeginActor
  PROVE  /\ Left(j, Tail(s)) /\ Tail(s) # <<>>
         /\ Within(BeginActor, s) /\ ~Within(BeginActor, Tail(s))
         /\ Within(Data, s) /\ Within(Data, Tail(s))
         /\ j.critic => Within(BeginCritic, s) /\ Within(BeginCritic, Tail(s))
         /\ j.manager # "async" => /\ Within(EndActor, s) /\ Within(EndActor, Tail(s))
                                   /\ Head(Tail(s)) = EndActor
         /\ j.manager = "async" => ~Within(Name, s) /\ ~Within(Name, Tail(s))
         /\ Within(EndCritic, Tail(s)) <=> Within(EndCritic, s)
<1>1. /\ j.manager \in {"fsdp", "megatron", "async"} /\ j.critic \in BOOLEAN
      /\ j.trainer # "ppo" => j.manager = "fsdp"
      /\ j.trainer = "sft" => ~j.critic
  BY CheckpointAssumption
<1>2. \/ s = A2 /\ j.manager = "async" /\ ~j.critic
      \/ s = A4 /\ j.manager = "async" /\ j.critic
      \/ s = S4 /\ j.manager = "fsdp" /\ j.trainer = "sft" /\ ~j.critic
      \/ s = F5 /\ j.manager = "fsdp" /\ j.trainer # "sft" /\ ~j.critic
      \/ s = G7 /\ j.manager = "fsdp" /\ j.trainer # "sft" /\ j.critic
      \/ s = M7 /\ j.manager = "megatron" /\ ~j.critic
      \/ s = L11 /\ j.manager = "megatron" /\ j.critic
  <2>1. First(s) = BeginActor
    BY DEF First
  <2> QED
    BY FirstOps, Ops, <1>1, <2>1, SMTT(60) DEF Left
<1>3. CASE s = A2 /\ j.manager = "async" /\ ~j.critic
  BY <1>1, <1>3, OfA, Ops DEF Left
<1>4. CASE s = A4 /\ j.manager = "async" /\ j.critic
  BY <1>1, <1>4, OfA, Ops DEF Left
<1>5. CASE s = S4 /\ j.manager = "fsdp" /\ j.trainer = "sft" /\ ~j.critic
  BY <1>1, <1>5, OfS, Ops DEF Left
<1>6. CASE s = F5 /\ j.manager = "fsdp" /\ j.trainer # "sft" /\ ~j.critic
  BY <1>1, <1>6, OfF, Ops DEF Left
<1>7. CASE s = G7 /\ j.manager = "fsdp" /\ j.trainer # "sft" /\ j.critic
  BY <1>1, <1>7, OfG, Ops DEF Left
<1>8. CASE s = M7 /\ j.manager = "megatron" /\ ~j.critic
  BY <1>1, <1>8, OfM, Ops DEF Left
<1>9. CASE s = L11 /\ j.manager = "megatron" /\ j.critic
  BY <1>1, <1>9, OfL, Ops, ZenonT(30) DEF Left
<1> QED
  BY <1>1, <1>2, <1>3, <1>4, <1>5, <1>6, <1>7, <1>8, <1>9

LEMMA AtBeginCritic ==
  ASSUME NEW j \in CkptJobs, NEW s, Left(j, s), s # <<>>, Head(s) = BeginCritic
  PROVE  /\ j.critic /\ j.trainer # "sft"
         /\ Left(j, Tail(s)) /\ Tail(s) # <<>>
         /\ Within(BeginCritic, s) /\ ~Within(BeginCritic, Tail(s))
         /\ Within(Data, s) /\ Within(Data, Tail(s)) /\ Head(Tail(s)) # EndActor
         /\ \A x \in {BeginActor, EndActor} : ~Within(x, s) /\ ~Within(x, Tail(s))
         /\ j.manager # "async" => Within(EndCritic, s) /\ Within(EndCritic, Tail(s))
         /\ j.manager = "async" => ~Within(Name, s) /\ ~Within(Name, Tail(s))
<1>1. /\ j.manager \in {"fsdp", "megatron", "async"} /\ j.critic \in BOOLEAN
      /\ j.trainer # "ppo" => j.manager = "fsdp"
      /\ j.trainer = "sft" => ~j.critic
  BY CheckpointAssumption
<1>2. \/ s = A3 /\ j.manager = "async" /\ j.critic
      \/ s = G5 /\ j.manager = "fsdp" /\ j.trainer # "sft" /\ j.critic
      \/ s = L7 /\ j.manager = "megatron" /\ j.critic
  <2>1. First(s) = BeginCritic
    BY DEF First
  <2> QED
    BY FirstOps, Ops, <1>1, <2>1, SMTT(60) DEF Left
<1>3. CASE s = A3 /\ j.manager = "async" /\ j.critic
  BY <1>1, <1>3, OfA, Ops DEF Left
<1>4. CASE s = G5 /\ j.manager = "fsdp" /\ j.trainer # "sft" /\ j.critic
  BY <1>1, <1>4, OfG, Ops DEF Left
<1>5. CASE s = L7 /\ j.manager = "megatron" /\ j.critic
  BY <1>1, <1>5, OfL, Ops, ZenonT(30) DEF Left
<1> QED
  BY <1>1, <1>2, <1>3, <1>4, <1>5

LEMMA AtEndActor ==
  ASSUME NEW j \in CkptJobs, NEW s, Left(j, s), s # <<>>, Head(s) = EndActor
  PROVE  /\ j.manager # "async"
         /\ Left(j, Tail(s)) /\ Tail(s) # <<>>
         /\ Within(EndActor, s) /\ ~Within(EndActor, Tail(s))
         /\ \A x \in {BeginActor} : ~Within(x, s) /\ ~Within(x, Tail(s))
         /\ Within(Data, s) /\ Within(Data, Tail(s)) /\ Head(Tail(s)) # EndActor
         /\ j.critic => Within(BeginCritic, s) /\ Within(BeginCritic, Tail(s))
         /\ Within(BeginCritic, Tail(s)) <=> Within(BeginCritic, s)
         /\ Within(EndCritic, Tail(s)) <=> Within(EndCritic, s)
<1>1. /\ j.manager \in {"fsdp", "megatron", "async"} /\ j.critic \in BOOLEAN
      /\ j.trainer # "ppo" => j.manager = "fsdp"
      /\ j.trainer = "sft" => ~j.critic
  BY CheckpointAssumption
<1>2. \/ s = S3 /\ j.manager = "fsdp" /\ j.trainer = "sft" /\ ~j.critic
      \/ s = F4 /\ j.manager = "fsdp" /\ j.trainer # "sft" /\ ~j.critic
      \/ s = G6 /\ j.manager = "fsdp" /\ j.trainer # "sft" /\ j.critic
      \/ s = M6 /\ j.manager = "megatron" /\ ~j.critic
      \/ s = L10 /\ j.manager = "megatron" /\ j.critic
  <2>1. First(s) = EndActor
    BY DEF First
  <2> QED
    BY FirstOps, Ops, <1>1, <2>1, SMTT(60) DEF Left
<1>3. CASE s = S3 /\ j.manager = "fsdp" /\ j.trainer = "sft" /\ ~j.critic
  BY <1>1, <1>3, OfS, Ops DEF Left
<1>4. CASE s = F4 /\ j.manager = "fsdp" /\ j.trainer # "sft" /\ ~j.critic
  BY <1>1, <1>4, OfF, Ops DEF Left
<1>5. CASE s = G6 /\ j.manager = "fsdp" /\ j.trainer # "sft" /\ j.critic
  BY <1>1, <1>5, OfG, Ops DEF Left
<1>6. CASE s = M6 /\ j.manager = "megatron" /\ ~j.critic
  BY <1>1, <1>6, OfM, Ops DEF Left
<1>7. CASE s = L10 /\ j.manager = "megatron" /\ j.critic
  BY <1>1, <1>7, OfL, Ops, ZenonT(30) DEF Left
<1> QED
  BY <1>1, <1>2, <1>3, <1>4, <1>5, <1>6, <1>7

LEMMA AtEndCritic ==
  ASSUME NEW j \in CkptJobs, NEW s, Left(j, s), s # <<>>, Head(s) = EndCritic
  PROVE  /\ j.manager # "async" /\ j.critic /\ j.trainer # "sft"
         /\ Left(j, Tail(s)) /\ Tail(s) # <<>>
         /\ Within(EndCritic, s) /\ ~Within(EndCritic, Tail(s))
         /\ \A x \in {BeginActor, EndActor, BeginCritic} : ~Within(x, s) /\ ~Within(x, Tail(s))
         /\ Within(Data, s) /\ Within(Data, Tail(s)) /\ Head(Tail(s)) # EndActor
<1>1. /\ j.manager \in {"fsdp", "megatron", "async"} /\ j.critic \in BOOLEAN
      /\ j.trainer # "ppo" => j.manager = "fsdp"
      /\ j.trainer = "sft" => ~j.critic
  BY CheckpointAssumption
<1>2. \/ s = G4 /\ j.manager = "fsdp" /\ j.trainer # "sft" /\ j.critic
      \/ s = L6 /\ j.manager = "megatron" /\ j.trainer # "sft" /\ j.critic
  <2>1. First(s) = EndCritic
    BY DEF First
  <2> QED
    BY FirstOps, Ops, <1>1, <2>1, SMTT(60) DEF Left
<1>3. CASE s = G4 /\ j.manager = "fsdp" /\ j.trainer # "sft" /\ j.critic
  <2>1. Head(G4) = EndCritic /\ Tail(G4) = F3 /\ \A x : Within(x, G4) <=> x \in {EndCritic, Data, Truncate, Name}
    BY OfG
  <2>2. F3 # <<>> /\ Head(F3) = Data /\ \A x : Within(x, F3) <=> x \in {Data, Truncate, Name}
    BY OfF
  <2>3. Left(j, F3)
    BY <1>1, <1>3 DEF Left
  <2> QED
    BY <1>3, <2>1, <2>2, <2>3, Ops
<1>4. CASE s = L6 /\ j.manager = "megatron" /\ j.trainer # "sft" /\ j.critic
  <2>1. Head(L6) = EndCritic /\ Tail(L6) = M5 /\ \A x : Within(x, L6) <=> x \in {EndCritic, Truncate, Name, Data}
    BY OfL
  <2>2. M5 # <<>> /\ Head(M5) = Truncate /\ \A x : Within(x, M5) <=> x \in {Truncate, Name, Data}
    BY OfM
  <2>3. Left(j, M5)
    BY <1>1, <1>4 DEF Left
  <2> QED
    BY <1>4, <2>1, <2>2, <2>3, Ops
<1> QED
  BY <1>1, <1>2, <1>3, <1>4

LEMMA AtData ==
  ASSUME NEW j \in CkptJobs, NEW s, Left(j, s), s # <<>>, Head(s) = Data
  PROVE  /\ Left(j, Tail(s)) /\ Within(Data, s) /\ ~Within(Data, Tail(s))
         /\ \A x \in {BeginActor, EndActor, BeginCritic, EndCritic} : ~Within(x, s) /\ ~Within(x, Tail(s))
         /\ j.manager = "async" => Tail(s) = <<>> /\ ~Within(Name, s) /\ ~Within(Name, Tail(s))
         /\ j.manager # "async" => Tail(s) # <<>>
         /\ Tail(s) # <<>> => Head(Tail(s)) # EndActor
<1>1. /\ j.manager \in {"fsdp", "megatron", "async"} /\ j.critic \in BOOLEAN
      /\ j.trainer # "ppo" => j.manager = "fsdp"
      /\ j.trainer = "sft" => ~j.critic
  BY CheckpointAssumption
<1>2. \/ s = A1 /\ j.manager = "async"
      \/ s = S2 /\ j.manager = "fsdp" /\ j.trainer = "sft" /\ ~j.critic
      \/ s = F3 /\ j.manager # "async" /\ j.trainer # "sft"
  <2>1. First(s) = Data
    BY DEF First
  <2> QED
    BY FirstOps, Ops, <1>1, <2>1, SMTT(60) DEF Left
<1>3. CASE s = A1 /\ j.manager = "async"
  BY <1>1, <1>3, OfA, Nothing, Ops DEF Left
<1>4. CASE s = S2 /\ j.manager = "fsdp" /\ j.trainer = "sft" /\ ~j.critic
  <2>1. Head(S2) = Data /\ Tail(S2) = T1 /\ \A x : Within(x, S2) <=> x \in {Data, Name}
    BY OfS
  <2>2. T1 # <<>> /\ Head(T1) = Name /\ \A x : Within(x, T1) <=> x \in {Name}
    BY OfT
  <2>3. Left(j, T1)
    BY <1>1, <1>4 DEF Left
  <2> QED
    BY <1>4, <2>1, <2>2, <2>3, Ops
<1>5. CASE s = F3 /\ j.manager # "async" /\ j.trainer # "sft"
  <2>1. Head(F3) = Data /\ Tail(F3) = T2 /\ \A x : Within(x, F3) <=> x \in {Data, Truncate, Name}
    BY OfF
  <2>2. T2 # <<>> /\ Head(T2) = Truncate /\ \A x : Within(x, T2) <=> x \in {Truncate, Name}
    BY OfT
  <2>3. Left(j, T2)
    BY <1>1, <1>5 DEF Left
  <2> QED
    BY <1>5, <2>1, <2>2, <2>3, Ops
<1> QED
  BY <1>1, <1>2, <1>3, <1>4, <1>5

LEMMA AtTruncate ==
  ASSUME NEW j \in CkptJobs, NEW s, Left(j, s), s # <<>>, Head(s) = Truncate
  PROVE  /\ Left(j, Tail(s)) /\ Tail(s) # <<>> /\ Head(Tail(s)) = Name
         /\ Within(Name, s) /\ Within(Name, Tail(s))
         /\ \A x \in {BeginActor, EndActor} : ~Within(x, s) /\ ~Within(x, Tail(s))
         /\ Within(Data, Tail(s)) <=> Within(Data, s)
         /\ Within(BeginCritic, Tail(s)) <=> Within(BeginCritic, s)
         /\ Within(EndCritic, Tail(s)) <=> Within(EndCritic, s)
         /\ j.manager = "fsdp" => ~Within(BeginCritic, s)
         /\ j.manager = "async" => ~Within(BeginCritic, s) /\ ~Within(EndCritic, s) /\ ~Within(Data, s)
<1>1. /\ j.manager \in {"fsdp", "megatron", "async"} /\ j.critic \in BOOLEAN
      /\ j.trainer # "ppo" => j.manager = "fsdp"
      /\ j.trainer = "sft" => ~j.critic
  BY CheckpointAssumption
<1>2. \/ s = T2
      \/ s = M5 /\ j.manager = "megatron"
      \/ s = L9 /\ j.manager = "megatron" /\ j.critic
  <2>1. First(s) = Truncate
    BY DEF First
  <2> QED
    BY FirstOps, Ops, <1>1, <2>1, SMTT(60) DEF Left
<1>3. CASE s = T2
  BY <1>1, <1>3, OfT, Ops DEF Left
<1>4. CASE s = M5 /\ j.manager = "megatron"
  BY <1>1, <1>4, OfM, Ops DEF Left
<1>5. CASE s = L9 /\ j.manager = "megatron" /\ j.critic
  BY <1>1, <1>5, OfL, Ops, ZenonT(30) DEF Left
<1> QED
  BY <1>1, <1>2, <1>3, <1>4, <1>5

LEMMA AtName ==
  ASSUME NEW j \in CkptJobs, NEW s, Left(j, s), s # <<>>, Head(s) = Name
  PROVE  /\ Left(j, Tail(s)) /\ Within(Name, s)
         /\ \A x \in {BeginActor, EndActor} : ~Within(x, s) /\ ~Within(x, Tail(s))
         /\ Within(Data, Tail(s)) <=> Within(Data, s)
         /\ Within(BeginCritic, Tail(s)) <=> Within(BeginCritic, s)
         /\ Within(EndCritic, Tail(s)) <=> Within(EndCritic, s)
         /\ j.manager # "megatron" => Tail(s) = <<>> /\ \A x \in {BeginCritic, EndCritic, Data} : ~Within(x, s)
         /\ Tail(s) # <<>> => Head(Tail(s)) # EndActor /\ Within(Data, s)
<1>1. /\ j.manager \in {"fsdp", "megatron", "async"} /\ j.critic \in BOOLEAN
      /\ j.trainer # "ppo" => j.manager = "fsdp"
      /\ j.trainer = "sft" => ~j.critic
  BY CheckpointAssumption
<1>2. \/ s = T1
      \/ s = M4 /\ j.manager = "megatron"
      \/ s = L8 /\ j.manager = "megatron" /\ j.critic
  <2>1. First(s) = Name
    BY DEF First
  <2> QED
    BY FirstOps, Ops, <1>1, <2>1, SMTT(60) DEF Left
<1>3. CASE s = T1
  BY <1>1, <1>3, OfT, Nothing, Ops DEF Left
<1>4. CASE s = M4 /\ j.manager = "megatron"
  <2>1. Head(M4) = Name /\ Tail(M4) = F3 /\ \A x : Within(x, M4) <=> x \in {Name, Data, Truncate}
    BY OfM
  <2>2. F3 # <<>> /\ Head(F3) = Data /\ \A x : Within(x, F3) <=> x \in {Data, Truncate, Name}
    BY OfF
  <2>3. Left(j, F3)
    BY <1>1, <1>4 DEF Left
  <2> QED
    BY <1>4, <2>1, <2>2, <2>3, Ops
<1>5. CASE s = L8 /\ j.manager = "megatron" /\ j.critic
  <2>1. Head(L8) = Name /\ Tail(L8) = L7 /\ \A x : Within(x, L8) <=> x \in {Name, BeginCritic, EndCritic, Truncate, Data}
    BY OfL
  <2>2. L7 # <<>> /\ Head(L7) = BeginCritic /\ \A x : Within(x, L7) <=> x \in {BeginCritic, EndCritic, Truncate, Name, Data}
    BY OfL
  <2>3. Left(j, L7)
    BY <1>1, <1>5 DEF Left
  <2> QED
    BY <1>5, <2>1, <2>2, <2>3, Ops
<1> QED
  BY <1>1, <1>2, <1>3, <1>4, <1>5

(* A save is one of these sequences.                                       *)
DiskOps == {"begin", "end", "write", "truncate"} \X {"actor", "critic", "data", "tracker"}

LEMMA OpsTyped ==
  {BeginActor, BeginCritic, EndActor, EndCritic, Data, Truncate, Name} \subseteq DiskOps
BY DEF DiskOps, BeginActor, BeginCritic, EndActor, EndCritic, Data, Truncate, Name

LEMMA LeftTyped == ASSUME NEW j, NEW s, Left(j, s) PROVE s \in Seq(DiskOps)
<1>1. T1 \in Seq(DiskOps) /\ T2 \in Seq(DiskOps) /\ S2 \in Seq(DiskOps) /\ S3 \in Seq(DiskOps)
      /\ S4 \in Seq(DiskOps)
  BY OpsTyped DEF T1, T2, S2, S3, S4
<1>2. A1 \in Seq(DiskOps) /\ A2 \in Seq(DiskOps) /\ A3 \in Seq(DiskOps) /\ A4 \in Seq(DiskOps)
  BY OpsTyped DEF A1, A2, A3, A4
<1>3. F3 \in Seq(DiskOps) /\ F4 \in Seq(DiskOps) /\ F5 \in Seq(DiskOps)
  BY OpsTyped DEF F3, F4, F5
<1>4. G4 \in Seq(DiskOps) /\ G5 \in Seq(DiskOps) /\ G6 \in Seq(DiskOps) /\ G7 \in Seq(DiskOps)
  BY OpsTyped DEF G4, G5, G6, G7
<1>5. M4 \in Seq(DiskOps) /\ M5 \in Seq(DiskOps) /\ M6 \in Seq(DiskOps) /\ M7 \in Seq(DiskOps)
  BY OpsTyped DEF M4, M5, M6, M7
<1>6. L6 \in Seq(DiskOps) /\ L7 \in Seq(DiskOps) /\ L8 \in Seq(DiskOps)
  BY OpsTyped DEF L6, L7, L8
<1>7. L9 \in Seq(DiskOps) /\ L10 \in Seq(DiskOps) /\ L11 \in Seq(DiskOps)
  BY OpsTyped DEF L9, L10, L11
<1>8. s = <<>> => s \in Seq(DiskOps)
  OBVIOUS
<1>9. CASE s \in {T1, T2, A1, A2, A3, A4, S2, S3, S4}
  BY <1>1, <1>2, <1>9
<1>10. CASE s \in {F3, F4, F5, G4, G5, G6, G7, M4, M5, M6, M7}
  BY <1>3, <1>4, <1>5, <1>10
<1>11. CASE s \in {L6, L7, L8, L9, L10, L11}
  BY <1>6, <1>7, <1>11
<1> QED
  BY <1>8, <1>9, <1>10, <1>11 DEF Left

LEMMA Glued ==
  ASSUME NEW S, NEW s \in Seq(S), NEW t \in Seq(S), NEW u \in Seq(S), Len(u) = Len(s) + Len(t),
         \A k \in 1..Len(s) : u[k] = s[k], \A k \in 1..Len(t) : u[Len(s) + k] = t[k]
  PROVE  s \o t = u
<1>1. s \o t \in Seq(S) /\ Len(s \o t) = Len(u)
  BY ConcatProperties
<1>2. \A k \in 1..Len(u) : (s \o t)[k] = u[k]
  <2> TAKE k \in 1..Len(u)
  <2>1. Len(s) \in Nat /\ Len(t) \in Nat
    OBVIOUS
  <2>2. CASE k <= Len(s)
    BY <2>1, <2>2, ConcatProperties
  <2>3. CASE k > Len(s)
    <3>1. k - Len(s) \in 1..Len(t) /\ Len(s) + (k - Len(s)) = k
      BY <2>1, <2>3
    <3>2. (s \o t)[k] = t[k - Len(s)]
      BY <2>1, <2>3, <3>1, ConcatProperties
    <3> QED
      BY <3>1, <3>2
  <2> QED
    BY <2>1, <2>2, <2>3
<1> QED
  BY <1>1, <1>2, SeqEqual

LEMMA Gluings ==
  LET P == <<BeginActor, EndActor>>
    Q == <<BeginCritic, EndCritic>>
    D == <<Data>>
    B == <<BeginActor>>
    C == <<BeginCritic>>
    P4 == <<BeginActor, EndActor, Truncate, Name>>
    Q4 == <<BeginCritic, EndCritic, Truncate, Name>>
    B2 == <<BeginActor, BeginCritic>>
    P3 == <<BeginActor, EndActor, Data>>
    P5 == <<BeginActor, EndActor, BeginCritic, EndCritic>>
    P6 == <<BeginActor, EndActor, BeginCritic, EndCritic, Data>>
    P7 == <<BeginActor, EndActor, Truncate, Name, Data>>
    P8 == <<BeginActor, EndActor, Truncate, Name, BeginCritic, EndCritic, Truncate, Name>>
    P9 == <<BeginActor, EndActor, Truncate, Name, BeginCritic, EndCritic, Truncate, Name, Data>>
  IN /\ P \o T2 = P4
     /\ Q \o T2 = Q4
     /\ B \o D = A2
     /\ B \o C = B2
     /\ B2 \o D = A4
     /\ P \o D = P3
     /\ P3 \o T1 = S4
     /\ P3 \o T2 = F5
     /\ P \o Q = P5
     /\ P5 \o D = P6
     /\ P6 \o T2 = G7
     /\ P4 \o D = P7
     /\ P7 \o T2 = M7
     /\ P4 \o Q4 = P8
     /\ P8 \o D = P9
     /\ P9 \o T2 = L11
<1> DEFINE P == <<BeginActor, EndActor>>
           Q == <<BeginCritic, EndCritic>>
           D == <<Data>>
           B == <<BeginActor>>
           C == <<BeginCritic>>
           P4 == <<BeginActor, EndActor, Truncate, Name>>
           Q4 == <<BeginCritic, EndCritic, Truncate, Name>>
           B2 == <<BeginActor, BeginCritic>>
           P3 == <<BeginActor, EndActor, Data>>
           P5 == <<BeginActor, EndActor, BeginCritic, EndCritic>>
           P6 == <<BeginActor, EndActor, BeginCritic, EndCritic, Data>>
           P7 == <<BeginActor, EndActor, Truncate, Name, Data>>
           P8 == <<BeginActor, EndActor, Truncate, Name, BeginCritic, EndCritic, Truncate, Name>>
           P9 == <<BeginActor, EndActor, Truncate, Name, BeginCritic, EndCritic, Truncate, Name, Data>>
           S == DiskOps
<1>1. P \o T2 = P4
  <2>1. P \in Seq(S) /\ T2 \in Seq(S) /\ P4 \in Seq(S)
    BY OpsTyped DEF T2
  <2>2. /\ Len(P4) = Len(P) + Len(T2) /\ \A k \in 1..Len(P) : P4[k] = P[k]
        /\ \A k \in 1..Len(T2) : P4[Len(P) + k] = T2[k]
    BY DEF T2
  <2> HIDE DEF S, P, P4
  <2> QED
    BY <2>1, <2>2, Glued
<1>2. Q \o T2 = Q4
  <2>1. Q \in Seq(S) /\ T2 \in Seq(S) /\ Q4 \in Seq(S)
    BY OpsTyped DEF T2
  <2>2. /\ Len(Q4) = Len(Q) + Len(T2) /\ \A k \in 1..Len(Q) : Q4[k] = Q[k]
        /\ \A k \in 1..Len(T2) : Q4[Len(Q) + k] = T2[k]
    BY DEF T2
  <2> HIDE DEF S, Q, Q4
  <2> QED
    BY <2>1, <2>2, Glued
<1>3. B \o D = A2
  <2>1. B \in Seq(S) /\ D \in Seq(S) /\ A2 \in Seq(S)
    BY OpsTyped DEF A2
  <2>2. /\ Len(A2) = Len(B) + Len(D) /\ \A k \in 1..Len(B) : A2[k] = B[k]
        /\ \A k \in 1..Len(D) : A2[Len(B) + k] = D[k]
    BY DEF A2
  <2> HIDE DEF S, B, D
  <2> QED
    BY <2>1, <2>2, Glued
<1>4. B \o C = B2
  <2>1. B \in Seq(S) /\ C \in Seq(S) /\ B2 \in Seq(S)
    BY OpsTyped
  <2>2. /\ Len(B2) = Len(B) + Len(C) /\ \A k \in 1..Len(B) : B2[k] = B[k]
        /\ \A k \in 1..Len(C) : B2[Len(B) + k] = C[k]
    <3>1. Len(B) = 1 /\ Len(C) = 1 /\ Len(B2) = 2
      OBVIOUS
    <3>2. B2[1] = BeginActor /\ B2[2] = BeginCritic
      OBVIOUS
    <3>3. B[1] = BeginActor /\ C[1] = BeginCritic
      OBVIOUS
    <3> HIDE DEF B, C, B2
    <3> QED
      BY <3>1, <3>2, <3>3
  <2> HIDE DEF S, B, C, B2
  <2> QED
    BY <2>1, <2>2, Glued
<1>5. B2 \o D = A4
  <2>1. B2 \in Seq(S) /\ D \in Seq(S) /\ A4 \in Seq(S)
    BY OpsTyped DEF A4
  <2>2. /\ Len(A4) = Len(B2) + Len(D) /\ \A k \in 1..Len(B2) : A4[k] = B2[k]
        /\ \A k \in 1..Len(D) : A4[Len(B2) + k] = D[k]
    BY DEF A4
  <2> HIDE DEF S, B2, D
  <2> QED
    BY <2>1, <2>2, Glued
<1>6. P \o D = P3
  <2>1. P \in Seq(S) /\ D \in Seq(S) /\ P3 \in Seq(S)
    BY OpsTyped
  <2>2. /\ Len(P3) = Len(P) + Len(D) /\ \A k \in 1..Len(P) : P3[k] = P[k]
        /\ \A k \in 1..Len(D) : P3[Len(P) + k] = D[k]
    OBVIOUS
  <2> HIDE DEF S, P, D, P3
  <2> QED
    BY <2>1, <2>2, Glued
<1>7. P3 \o T1 = S4
  <2>1. P3 \in Seq(S) /\ T1 \in Seq(S) /\ S4 \in Seq(S)
    BY OpsTyped DEF T1, S4
  <2>2. /\ Len(S4) = Len(P3) + Len(T1) /\ \A k \in 1..Len(P3) : S4[k] = P3[k]
        /\ \A k \in 1..Len(T1) : S4[Len(P3) + k] = T1[k]
    BY DEF T1, S4
  <2> HIDE DEF S, P3
  <2> QED
    BY <2>1, <2>2, Glued
<1>8. P3 \o T2 = F5
  <2>1. P3 \in Seq(S) /\ T2 \in Seq(S) /\ F5 \in Seq(S)
    BY OpsTyped DEF T2, F5
  <2>2. /\ Len(F5) = Len(P3) + Len(T2) /\ \A k \in 1..Len(P3) : F5[k] = P3[k]
        /\ \A k \in 1..Len(T2) : F5[Len(P3) + k] = T2[k]
    BY DEF T2, F5
  <2> HIDE DEF S, P3
  <2> QED
    BY <2>1, <2>2, Glued
<1>9. P \o Q = P5
  <2>1. P \in Seq(S) /\ Q \in Seq(S) /\ P5 \in Seq(S)
    BY OpsTyped
  <2>2. /\ Len(P5) = Len(P) + Len(Q) /\ \A k \in 1..Len(P) : P5[k] = P[k]
        /\ \A k \in 1..Len(Q) : P5[Len(P) + k] = Q[k]
    <3>1. Len(P) = 2 /\ Len(Q) = 2 /\ Len(P5) = 4
      OBVIOUS
    <3>2. P5[1] = BeginActor /\ P5[2] = EndActor /\ P5[3] = BeginCritic /\ P5[4] = EndCritic
      OBVIOUS
    <3>3. P[1] = BeginActor /\ P[2] = EndActor /\ Q[1] = BeginCritic /\ Q[2] = EndCritic
      OBVIOUS
    <3> HIDE DEF P, Q, P5
    <3> QED
      BY <3>1, <3>2, <3>3
  <2> HIDE DEF S, P, Q, P5
  <2> QED
    BY <2>1, <2>2, Glued
<1>10. P5 \o D = P6
  <2>1. P5 \in Seq(S) /\ D \in Seq(S) /\ P6 \in Seq(S)
    BY OpsTyped
  <2>2. /\ Len(P6) = Len(P5) + Len(D) /\ \A k \in 1..Len(P5) : P6[k] = P5[k]
        /\ \A k \in 1..Len(D) : P6[Len(P5) + k] = D[k]
    OBVIOUS
  <2> HIDE DEF S, P5, D, P6
  <2> QED
    BY <2>1, <2>2, Glued
<1>11. P6 \o T2 = G7
  <2>1. P6 \in Seq(S) /\ T2 \in Seq(S) /\ G7 \in Seq(S)
    BY OpsTyped DEF T2, G7
  <2>2. /\ Len(G7) = Len(P6) + Len(T2) /\ \A k \in 1..Len(P6) : G7[k] = P6[k]
        /\ \A k \in 1..Len(T2) : G7[Len(P6) + k] = T2[k]
    BY DEF T2, G7
  <2> HIDE DEF S, P6
  <2> QED
    BY <2>1, <2>2, Glued
<1>12. P4 \o D = P7
  <2>1. P4 \in Seq(S) /\ D \in Seq(S) /\ P7 \in Seq(S)
    BY OpsTyped
  <2>2. /\ Len(P7) = Len(P4) + Len(D) /\ \A k \in 1..Len(P4) : P7[k] = P4[k]
        /\ \A k \in 1..Len(D) : P7[Len(P4) + k] = D[k]
    OBVIOUS
  <2> HIDE DEF S, P4, D, P7
  <2> QED
    BY <2>1, <2>2, Glued
<1>13. P7 \o T2 = M7
  <2>1. P7 \in Seq(S) /\ T2 \in Seq(S) /\ M7 \in Seq(S)
    BY OpsTyped DEF T2, M7
  <2>2. /\ Len(M7) = Len(P7) + Len(T2) /\ \A k \in 1..Len(P7) : M7[k] = P7[k]
        /\ \A k \in 1..Len(T2) : M7[Len(P7) + k] = T2[k]
    BY DEF T2, M7
  <2> HIDE DEF S, P7
  <2> QED
    BY <2>1, <2>2, Glued
<1>14. P4 \o Q4 = P8
  <2>1. P4 \in Seq(S) /\ Q4 \in Seq(S) /\ P8 \in Seq(S)
    BY OpsTyped
  <2>2. /\ Len(P8) = Len(P4) + Len(Q4) /\ \A k \in 1..Len(P4) : P8[k] = P4[k]
        /\ \A k \in 1..Len(Q4) : P8[Len(P4) + k] = Q4[k]
    OBVIOUS
  <2> HIDE DEF S, P4, Q4, P8
  <2> QED
    BY <2>1, <2>2, Glued
<1>15. P8 \o D = P9
  <2>1. P8 \in Seq(S) /\ D \in Seq(S) /\ P9 \in Seq(S)
    BY OpsTyped
  <2>2. /\ Len(P9) = Len(P8) + Len(D) /\ \A k \in 1..Len(P8) : P9[k] = P8[k]
        /\ \A k \in 1..Len(D) : P9[Len(P8) + k] = D[k]
    OBVIOUS
  <2> HIDE DEF S, P8, D, P9
  <2> QED
    BY <2>1, <2>2, Glued
<1>16. P9 \o T2 = L11
  <2>1. P9 \in Seq(S) /\ T2 \in Seq(S) /\ L11 \in Seq(S)
    BY OpsTyped DEF T2, L11
  <2>2. /\ Len(L11) = Len(P9) + Len(T2) /\ \A k \in 1..Len(P9) : L11[k] = P9[k]
        /\ \A k \in 1..Len(T2) : L11[Len(P9) + k] = T2[k]
    BY DEF T2, L11
  <2> HIDE DEF S, P9
  <2> QED
    BY <2>1, <2>2, Glued
<1> QED
  BY <1>1, <1>2, <1>3, <1>4, <1>5, <1>6, <1>7, <1>8, <1>9, <1>10, <1>11, <1>12, <1>13, <1>14,
     <1>15, <1>16
LEMMA Plan ==
  ASSUME NEW j \in CkptJobs
  PROVE  /\ Left(j, SaveCheckpoint(j)) /\ SaveCheckpoint(j) # <<>>
         /\ Head(SaveCheckpoint(j)) = BeginActor
<1>1. /\ j.manager \in {"fsdp", "megatron", "async"} /\ j.critic \in BOOLEAN
      /\ j.trainer # "ppo" => j.manager = "fsdp"
      /\ j.trainer = "sft" => ~j.critic
  BY CheckpointAssumption
<1> DEFINE actor == SavePart(j, "actor")
           critic == IF j.critic THEN SavePart(j, "critic") ELSE <<>>
           last == CASE j.manager = "async" -> <<>>
                     [] j.trainer = "sft"   -> T1
                     [] OTHER               -> T2
           D == <<Data>>
<1>2. SaveCheckpoint(j) = actor \o critic \o D \o last /\ WriteTracker = T2
  BY DEF SaveCheckpoint, WriteTracker, T1, T2, Data, Truncate, Name
<1>3. /\ j.manager = "async" => actor = <<BeginActor>>
      /\ j.manager = "fsdp" => actor = <<BeginActor, EndActor>>
      /\ j.manager = "megatron" => actor = <<BeginActor, EndActor>> \o T2
  BY <1>2 DEF SavePart, BeginActor, EndActor
<1>4. /\ ~j.critic => critic = <<>>
      /\ j.manager = "async" /\ j.critic => critic = <<BeginCritic>>
      /\ j.manager = "fsdp" /\ j.critic => critic = <<BeginCritic, EndCritic>>
      /\ j.manager = "megatron" /\ j.critic => critic = <<BeginCritic, EndCritic>> \o T2
  BY <1>1, <1>2 DEF SavePart, BeginCritic, EndCritic
<1>5. /\ j.manager = "async" => last = <<>>
      /\ j.manager # "async" /\ j.trainer = "sft" => last = T1
      /\ j.manager # "async" /\ j.trainer # "sft" => last = T2
  BY <1>1
<1>6. /\ \A X \in Seq(DiskOps) : X \o <<>> = X
      /\ A2 \in Seq(DiskOps) /\ A4 \in Seq(DiskOps)
      /\ <<BeginActor>> \in Seq(DiskOps) /\ <<BeginActor, EndActor>> \in Seq(DiskOps)
      /\ <<BeginActor, EndActor, Truncate, Name>> \in Seq(DiskOps)
  BY ConcatEmptySeq, OpsTyped DEF A2, A4
<1> HIDE DEF actor, critic, last
<1>7. CASE j.manager = "async" /\ ~j.critic
  <2>1. SaveCheckpoint(j) = A2
    BY <1>2, <1>3, <1>4, <1>5, <1>6, <1>7, Gluings, ZenonT(60)
  <2> QED
    BY <2>1, <1>7, OfA DEF Left
<1>8. CASE j.manager = "async" /\ j.critic
  <2>1. SaveCheckpoint(j) = <<BeginActor>> \o <<BeginCritic>> \o D \o <<>>
    BY <1>2, <1>3, <1>4, <1>5, <1>8
  <2>2. SaveCheckpoint(j) = A4 \o <<>>
    BY <2>1, Gluings
  <2>3. SaveCheckpoint(j) = A4
    BY <1>6, <2>2
  <2> QED
    BY <2>3, <1>8, OfA DEF Left
<1>9. CASE j.manager = "fsdp" /\ j.trainer = "sft"
  <2>1. SaveCheckpoint(j) = S4
    BY <1>1, <1>2, <1>3, <1>4, <1>5, <1>6, <1>9, Gluings
  <2> QED
    BY <1>1, <2>1, <1>9, OfS DEF Left
<1>10. CASE j.manager = "fsdp" /\ j.trainer # "sft" /\ ~j.critic
  <2>1. SaveCheckpoint(j) = F5
    BY <1>2, <1>3, <1>4, <1>5, <1>6, <1>10, Gluings
  <2> QED
    BY <2>1, <1>10, OfF DEF Left
<1>11. CASE j.manager = "fsdp" /\ j.trainer # "sft" /\ j.critic
  <2>1. SaveCheckpoint(j) = G7
    BY <1>2, <1>3, <1>4, <1>5, <1>6, <1>11, Gluings
  <2> QED
    BY <2>1, <1>11, OfG DEF Left
<1>12. CASE j.manager = "megatron" /\ ~j.critic
  <2>1. SaveCheckpoint(j) = <<BeginActor, EndActor>> \o T2 \o <<>> \o D \o T2
    BY <1>1, <1>2, <1>3, <1>4, <1>5, <1>12
  <2>2. SaveCheckpoint(j) = <<BeginActor, EndActor, Truncate, Name>> \o D \o T2
    BY <1>6, <2>1, Gluings
  <2>3. SaveCheckpoint(j) = M7
    BY <2>2, Gluings
  <2> QED
    BY <2>3, <1>12, OfM DEF Left
<1>13. CASE j.manager = "megatron" /\ j.critic
  <2> DEFINE P4 == <<BeginActor, EndActor, Truncate, Name>>
             Q4 == <<BeginCritic, EndCritic, Truncate, Name>>
  <2>1. actor = P4 /\ critic = Q4
    BY <1>3, <1>4, <1>13, Gluings
  <2>2. SaveCheckpoint(j) = P4 \o Q4 \o D \o T2
    BY <2>1, <1>1, <1>2, <1>5, <1>13
  <2>3. SaveCheckpoint(j) = L11
    BY <2>2, Gluings
  <2> QED
    BY <2>3, <1>13, OfL DEF Left
<1> QED
  BY <1>1, <1>7, <1>8, <1>9, <1>10, <1>11, <1>12, <1>13
-------------------------------------------------------------------------------
(* The constants. *)
LEMMA Settings ==
  ASSUME NEW j \in CkptJobs
  PROVE  /\ j.trainer \in {"ppo", "fully_async", "sft"} /\ j.keep \in Nat
         /\ j.manager \in {"fsdp", "megatron", "async"} /\ j.critic \in BOOLEAN
         /\ j.trainer # "ppo" => j.manager = "fsdp"
         /\ j.trainer = "sft" => ~j.critic
         /\ j.manager = "async" => j.keep = 0
         /\ DpRanks(j) = IF j.trainer = "sft" THEN {0, 1} ELSE {0}
BY CheckpointAssumption DEF DpRanks

LEMMA Numbers ==
  /\ Steps \in Nat /\ Steps > 0 /\ Lead \in Nat /\ Lead > 0 /\ CkptFreq \in Nat /\ CkptFreq > 0
  /\ CkptCrashes \in Nat
BY CheckpointAssumption

LEMMA Slacks ==
  ASSUME NEW n \in Nat
  PROVE  /\ Slack(n) \in Nat /\ Slack(n + 1) \in Nat /\ Slack(n) <= Slack(n + 1)
         /\ ~Asynchronous => Slack(n) = 0 /\ Slack(n + 1) = 0
         /\ Asynchronous => Slack(n + 1) = Slack(n) + Lead
<1>1. Lead * n \in Nat /\ Lead * (n + 1) = Lead * n + Lead
  BY Numbers
<1> QED
  BY <1>1, Numbers DEF Slack

LEMMA CkptInitial == CkptInit => CkptInv
<1> SUFFICES ASSUME CkptInit PROVE CkptInv
  OBVIOUS
<1>1. Types
  BY Settings, Numbers DEF Types, CkptInit, Directory, NoDirectory, NoTracker, EmptyTracker, NoFile
<1>2. Planned /\ Saved /\ Named
  BY Nothing, Numbers
     DEF Planned, Saved, Named, CkptInit, Left, Ahead, NoTracker, EmptyTracker
<1>3. Reading /\ Advanced
  BY Nothing, Settings, Numbers
     DEF Reading, Advanced, CkptInit, NoDirectory, Ahead, NoTracker, NoFile, EmptyTracker
<1>4. Trained
  <2>1. Cardinality({}) = 0 /\ restarts \in Nat
    BY FS_EmptySet DEF CkptInit
  <2>2. Slack(restarts) \in Nat
    BY <2>1, Slacks
  <2>3. Taken = 0
    BY Settings DEF Taken, CkptInit
  <2> QED
    BY <2>1, <2>2, <2>3 DEF Trained, CkptInit
<1>5. Rotating /\ Calls
  BY Nothing DEF Rotating, Rising, UpTo, Calls, CkptInit, Ahead, Finalising
<1>6. Finishing
  BY Numbers DEF Finishing, CkptInit
<1>7. Directories
  <2>1. Cardinality({}) = 0
    BY FS_EmptySet
  <2>2. job.keep \in Nat
    BY Settings DEF CkptInit
  <2>3. \A s \in 1..Steps : disk[s].actor = "none"
    BY DEF CkptInit, NoDirectory
  <2> QED
    BY <2>1, <2>2, <2>3 DEF Directories, CkptInit
<1> QED
  BY <1>1, <1>2, <1>3, <1>4, <1>5, <1>6, <1>7 DEF CkptInv

-------------------------------------------------------------------------------
(* Rotation: the newest path is never removed if two are kept.             *)
LEMMA Window ==
  ASSUME job \in CkptJobs, NEW paths \in Seq(1..Steps)
  PROVE  LET r == Rotated(paths)
             kept == SubSeq(paths, r + 1, Len(paths))
         IN /\ r \in Nat /\ r <= Len(paths)
            /\ kept \in Seq(1..Steps) /\ Len(kept) = Len(paths) - r
            /\ \A k \in 1..Len(kept) : kept[k] = paths[k + r]
            /\ job.keep > 0 => Len(kept) < job.keep
            /\ job.keep # 1 /\ r > 0 => r < Len(paths)
            /\ job.keep = 0 => r = 0
<1> DEFINE n == Len(paths)
           r == Rotated(paths)
           kept == SubSeq(paths, r + 1, n)
<1>1. n \in Nat /\ job.keep \in Nat
  BY Settings
<1>2. /\ r \in Nat /\ r <= n /\ (job.keep = 0 => r = 0)
      /\ job.keep > 0 => n - r < job.keep
      /\ job.keep # 1 /\ r > 0 => r < n
  <2>1. CASE job.keep > 0 /\ n >= job.keep
    <3>1. r = n - job.keep + 1
      BY <2>1 DEF Rotated
    <3> HIDE DEF n, r
    <3> QED
      BY <1>1, <2>1, <3>1
  <2>2. CASE ~(job.keep > 0 /\ n >= job.keep)
    <3>1. r = 0
      BY <2>2 DEF Rotated
    <3> HIDE DEF n, r
    <3> QED
      BY <1>1, <2>2, <3>1
  <2> QED
    BY <2>1, <2>2
<1>3. /\ kept \in Seq(1..Steps) /\ Len(kept) = n - r
      /\ \A k \in 1..Len(kept) : kept[k] = paths[k + r]
  <2>1. /\ kept \in Seq(1..Steps)
        /\ Len(kept) = IF r + 1 <= n THEN n - (r + 1) + 1 ELSE 0
        /\ \A k \in 1..n - (r + 1) + 1 : kept[k] = paths[(r + 1) + k - 1]
    <3>1. \A k \in 1..n : paths[k] \in 1..Steps
      BY ElementOfSeq
    <3> HIDE DEF r, n
    <3>2. r + 1 \in Int /\ n \in Int /\ \A k \in r + 1..n : paths[k] \in 1..Steps
      BY <1>1, <1>2, <3>1
    <3> QED
      BY <3>2, SubSeqProperties
  <2> HIDE DEF n, r, kept
  <2>2. Len(kept) = n - r
    BY <2>1, <1>1, <1>2
  <2>3. n - (r + 1) + 1 = n - r /\ \A k \in 1..n - r : (r + 1) + k - 1 = k + r
    BY <1>1, <1>2
  <2> QED
    BY <2>1, <2>2, <2>3
<1> QED
  BY <1>2, <1>3

LEMMA BeginTyped ==
  ASSUME Types, NEW part \in {"actor", "critic"}, BeginPart(part), target \in 1..Steps
  PROVE  Types'
<1> DEFINE paths == previous_saved_paths[part]
           kept == SubSeq(paths, Rotated(paths) + 1, Len(paths))
           call == [part |-> part, step |-> target, written |-> FALSE]
<1>1. job \in CkptJobs /\ weights \in SUBSET ({0, 1} \X (1..Steps))
      /\ previous_saved_paths \in [actor : Seq(1..Steps), critic : Seq(1..Steps)]
      /\ pending \in Seq(AsyncCall) /\ disk \in [1..Steps -> Directory]
  BY DEF Types
<1>2. paths \in Seq(1..Steps)
  BY <1>1
<1>3. kept \in Seq(1..Steps)
  BY <1>1, <1>2, Window
<1>4. previous_saved_paths' \in [actor : Seq(1..Steps), critic : Seq(1..Steps)]
  <2>1. Append(kept, target) \in Seq(1..Steps)
    BY <1>3, AppendProperties
  <2> DEFINE new == IF job.manager = "async" THEN Append(kept, target) ELSE kept
  <2>2. new \in Seq(1..Steps)
    BY <1>3, <2>1
  <2>3. previous_saved_paths' = [previous_saved_paths EXCEPT ![part] = new]
    BY DEF BeginPart
  <2> HIDE DEF new
  <2> QED
    BY <1>1, <2>2, <2>3
<1>5. pending' \in Seq(AsyncCall)
  <2>1. call \in AsyncCall
    BY DEF AsyncCall
  <2>2. Append(pending, call) \in Seq(AsyncCall)
    BY <1>1, <2>1, AppendProperties
  <2>3. pending' = IF job.manager = "async" THEN Append(pending, call) ELSE pending
    BY DEF BeginPart
  <2> HIDE DEF call
  <2> QED
    BY <1>1, <2>2, <2>3
<1>6. disk' \in [1..Steps -> Directory]
  <2> DEFINE removed == {paths[k] : k \in 1..Rotated(paths)}
             begun(s) == [disk[s] EXCEPT ![part] = "partial", !.weights = weights]
  <2>1. disk' = [s \in 1..Steps |-> IF s = target THEN begun(s)
                   ELSE IF s \in removed THEN WithoutPart(disk[s], part) ELSE disk[s]]
    BY DEF BeginPart
  <2>2. ASSUME NEW s \in 1..Steps
        PROVE  begun(s) \in Directory /\ WithoutPart(disk[s], part) \in Directory
    <3>1. disk[s] \in Directory
      BY <1>1
    <3>2. begun(s) \in Directory
      BY <1>1, <3>1 DEF Directory
    <3>3. NoDirectory(job) \in Directory
      BY <1>1, Numbers DEF Directory, NoDirectory, NoFile
    <3>4. [disk[s] EXCEPT ![part] = "none"] \in Directory
      BY <3>1 DEF Directory
    <3> QED
      BY <3>2, <3>3, <3>4 DEF WithoutPart
  <2> HIDE DEF removed, begun
  <2> QED
    BY <1>1, <2>1, <2>2
<1>7. durable' \in 0..Steps
  BY DEF BeginPart, SaveGoesOn, Types
<1>8. UNCHANGED <<job, trainer, step, weights, position, inflight, target, late, tracker, restarts>>
  BY DEF BeginPart, SaveGoesOn
<1> QED
  BY <1>4, <1>5, <1>6, <1>7, <1>8 DEF Types, Directory, AsyncCall

LEMMA BeginActorKeeps ==
  ASSUME CkptInv, BeginPart("actor")
  PROVE  CkptInv'
<1> DEFINE paths == previous_saved_paths.actor
           r == Rotated(paths)
           kept == SubSeq(paths, r + 1, Len(paths))
           removed == {paths[k] : k \in 1..r}
           call == [part |-> "actor", step |-> target, written |-> FALSE]
           others == <<job, trainer, step, weights, position, inflight, target, late, tracker, restarts>>
<1>1. Types /\ Planned /\ Reading /\ Trained /\ Named /\ Saved /\ Rotating /\ Advanced /\ Calls
      /\ Finishing /\ Directories
  BY DEF CkptInv
<1>2. /\ trainer = "running" /\ todo # <<>> /\ Head(todo) = BeginActor /\ todo' = Tail(todo)
      /\ UNCHANGED others
  BY DEF BeginPart, AtDiskOp, SaveGoesOn, BeginActor
<1>3. /\ job \in CkptJobs /\ Left(job, todo) /\ paths \in Seq(1..Steps)
      /\ previous_saved_paths \in [actor : Seq(1..Steps), critic : Seq(1..Steps)]
      /\ disk \in [1..Steps -> Directory] /\ pending \in Seq(AsyncCall)
      /\ step \in 0..Steps /\ tracker \in EmptyTracker..Steps /\ durable \in 0..Steps
  BY <1>1 DEF Types, Planned
<1>4. /\ Left(job, Tail(todo)) /\ Tail(todo) # <<>>
      /\ Within(BeginActor, todo) /\ ~Within(BeginActor, Tail(todo))
      /\ Within(Data, todo) /\ Within(Data, Tail(todo))
      /\ job.critic => Within(BeginCritic, todo) /\ Within(BeginCritic, Tail(todo))
      /\ ~Async => /\ Within(EndActor, todo) /\ Within(EndActor, Tail(todo))
                   /\ Head(Tail(todo)) = EndActor
      /\ Async => ~Within(Name, todo) /\ ~Within(Name, Tail(todo))
      /\ Within(EndCritic, Tail(todo)) <=> Within(EndCritic, todo)
  BY <1>2, <1>3, AtBeginActor DEF Async
<1>5. /\ target = step /\ target \in 1..Steps /\ late = {} /\ tracker # EmptyTracker
  BY <1>1, <1>2, <1>3, <1>4, Ops, Numbers DEF Planned, Finalising, Ahead
<1>6. /\ durable' = durable
      /\ Async => pending' = Append(pending, call)
      /\ ~Async => pending' = pending
      /\ ~Async => previous_saved_paths'.actor = kept
      /\ previous_saved_paths'.critic = previous_saved_paths.critic
  BY <1>3, <1>4 DEF BeginPart, SaveGoesOn, Async
<1>7. /\ disk'[target].actor = "partial" /\ disk'[target].critic = disk[target].critic
      /\ disk'[target].data = disk[target].data /\ disk'[target].weights = weights
  BY <1>3, <1>5 DEF BeginPart, Directory
<1>8. ASSUME NEW s \in 1..Steps, s # target
      PROVE  /\ s \notin removed => disk'[s] = disk[s]
             /\ s \in removed => disk'[s] = WithoutPart(disk[s], "actor")
  BY <1>3, <1>8 DEF BeginPart
<1>9. ASSUME NEW s \in 1..Steps
      PROVE  /\ s \in removed /\ s # target => disk'[s].actor = "none"
             /\ \A q \in DpRanks(job) : disk'[s].data[q] \in {disk[s].data[q], NoFile}
  <2>1. disk[s].data \in [DpRanks(job) -> NoFile..Steps] /\ disk[s] \in Directory
    BY <1>3 DEF Directory
  <2>2. CASE s = target
    BY <1>7, <2>2
  <2>3. CASE s # target /\ s \notin removed
    BY <1>8, <2>3
  <2>4. CASE s # target /\ s \in removed
    <3>1. disk'[s] = WithoutPart(disk[s], "actor")
      BY <1>8, <2>4
    <3> HIDE DEF removed
    <3> QED
      BY <2>1, <2>4, <3>1 DEF WithoutPart, NoDirectory, Directory
  <2> QED
    BY <2>2, <2>3, <2>4
<1>10. Types'
  BY <1>1, <1>5, BeginTyped
<1>11. Planned'
  BY <1>2, <1>4, <1>5 DEF Planned, Ahead, Finalising, Async
<1>12. Reading'
  <2>1. ASSUME ~Asynchronous, NEW s \in 1..Steps, NEW q \in DpRanks(job)
        PROVE  disk'[s].data[q] <= s
    <3>1. disk[s].data[q] <= s
      BY <1>1, <2>1 DEF Reading
    <3> HIDE DEF removed
    <3> QED
      BY <1>9, <3>1, Numbers DEF NoFile
  <2> QED
    BY <1>1, <1>2, <2>1 DEF Reading, Asynchronous
<1>13. Trained'
  BY <1>1, <1>2 DEF Trained, Taken, Slack, Asynchronous
(* The tracker names the newest path, which is kept. *)
<1>14. job.keep # 1 /\ tracker \in 1..Steps => tracker \notin removed
  <2> SUFFICES ASSUME job.keep # 1, tracker \in 1..Steps, NEW k \in 1..r PROVE tracker # paths[k]
    OBVIOUS
  <2>1. r \in Nat /\ r <= Len(paths) /\ r < Len(paths) /\ Len(paths) \in Nat
    <3>1. r \in Nat /\ (r > 0 => r < Len(paths)) /\ Len(paths) \in Nat
      BY <1>3, Window
    <3> HIDE DEF r, paths
    <3> QED
      BY <3>1
  <2>2. ~Async
    BY <1>3, <2>1, Settings, Window, SMTT(60) DEF Async
  <2>3. tracker = paths[Len(paths)] /\ \A i, l \in 1..Len(paths) : i < l => paths[i] < paths[l]
    <3>1. paths # <<>>
      BY <2>1
    <3> QED
      BY <1>1, <1>4, <2>2, <3>1 DEF Rotating, LastOf, Ahead, Rising
  <2> DEFINE n == Len(paths)
  <2>4. n \in 1..n /\ k \in 1..n /\ k < n
    <3> HIDE DEF r, paths
    <3> QED
      BY <2>1
  <2>5. paths[k] < paths[n] /\ paths[k] \in Nat
    <3>1. paths[k] \in 1..Steps
      BY <1>3, <2>4, ElementOfSeq
    <3> QED
      BY <2>3, <2>4, <3>1, Numbers
  <2> QED
    BY <2>3, <2>5
<1>15. Ordered(job) => tracker < target
  BY <1>1, <1>4 DEF Named, Ahead
<1>16. Named'
  <2>1. ASSUME Ordered(job), tracker \in 1..Steps PROVE disk'[tracker] = disk[tracker]
    <3>1. job.keep # 1 /\ tracker # target
      BY <2>1, <1>5, <1>15, Numbers DEF Ordered
    <3> HIDE DEF removed
    <3> QED
      BY <2>1, <3>1, <1>8, <1>14
  <2> QED
    BY <1>1, <1>2, <1>4, <1>15, <2>1 DEF Named, Ahead, PartsWhole, Most, Slack, Asynchronous
<1>17. Saved'
  BY <1>2, <1>4, <1>5, <1>7 DEF Saved, Ahead, Async
<1>18. Rotating'
  <2> SUFFICES ASSUME ~Async PROVE Rotating'
    BY <1>2 DEF Rotating, Async
  <2>1. pending' = <<>> /\ (~job.critic => previous_saved_paths'.critic = <<>>)
    BY <1>1, <1>6 DEF Rotating
  <2>2. /\ \A k, l \in 1..Len(paths) : k < l => paths[k] < paths[l]
        /\ \A k \in 1..Len(paths) : paths[k] <= step - 1
    BY <1>1, <1>4 DEF Rotating, Ahead, Rising, UpTo
  <2>3. /\ kept \in Seq(1..Steps) /\ Len(kept) = Len(paths) - r /\ r \in Nat /\ r <= Len(paths)
        /\ \A k \in 1..Len(kept) : kept[k] = paths[k + r]
    BY <1>3, Window
  <2>4. Rising(kept) /\ UpTo(step - 1, kept) /\ UpTo(step, kept)
    <3> DEFINE n == Len(paths)
               m == Len(kept)
    <3> HIDE DEF paths, kept, r
    <3>0. paths \in Seq(1..Steps) /\ kept \in Seq(1..Steps)
      BY <1>3, <2>3
    <3>1. n \in Nat /\ m \in Nat
      BY <3>0
    <3>5. \A k \in 1..m : kept[k] \in 1..Steps
      BY <3>0, ElementOfSeq
    <3>2. /\ \A k \in 1..m : k + r \in 1..n
          /\ \A k, l \in 1..m : k < l => k + r < l + r
      BY <2>3, <3>1
    <3> HIDE DEF n, m
    <3>3. /\ \A k, l \in 1..m : k < l => kept[k] < kept[l]
          /\ \A k \in 1..m : kept[k] <= step - 1
      BY <2>2, <2>3, <3>2 DEF n, m
    <3>4. \A k \in 1..m : kept[k] <= step
      BY <1>3, <3>1, <3>5, <3>3, Numbers
    <3> QED
      BY <3>3, <3>4 DEF Rising, UpTo, m
  <2>5. previous_saved_paths'.actor = kept
    BY <1>6
  <2> HIDE DEF kept, paths, r
  <2> QED
    BY <1>1, <1>2, <1>4, <1>6, <2>1, <2>4, <2>5 DEF Rotating, Ahead, Async
<1>19. Advanced'
  <2> SUFFICES ASSUME job.keep # 1 PROVE Advanced'
    BY <1>2 DEF Advanced
  <2>1. /\ tracker <= step /\ durable <= step /\ (tracker \in 1..Steps => disk[tracker].actor # "none")
        /\ tracker # EmptyTracker => durable <= tracker
        /\ tracker < target
    BY <1>1, <1>2, <1>4, <1>5 DEF Advanced, Ahead
  <2>2. tracker \in 1..Steps => disk'[tracker] = disk[tracker]
    <3>1. tracker # target
      BY <2>1, <1>5, <1>3, Numbers DEF EmptyTracker
    <3> HIDE DEF removed
    <3> QED
      BY <3>1, <1>8, <1>14
  <2> QED
    BY <1>2, <1>4, <1>6, <2>1, <2>2 DEF Advanced, Ahead
<1>20. Calls'
  <2> SUFFICES ASSUME Async PROVE Calls'
    BY <1>2 DEF Calls, Async
  <2>1. job.keep = 0 /\ r = 0 /\ removed = {}
    BY <1>3, Settings, Window, SMTT(60) DEF Async
  <2>2. pending' = Append(pending, call) /\ call \in AsyncCall
    BY <1>5, <1>6 DEF AsyncCall
  <2> DEFINE n == Len(pending)
  <2>3. /\ n \in Nat /\ Len(pending') = n + 1 /\ pending'[n + 1] = call
        /\ \A k \in 1..n : pending'[k] = pending[k]
        /\ \A k \in 1..n : pending[k].step \in 1..Steps
    <3>1. n \in Nat /\ \A k \in 1..n : pending[k] \in AsyncCall
      BY <1>3, ElementOfSeq
    <3> HIDE DEF call
    <3>2. Len(Append(pending, call)) = n + 1 /\ Append(pending, call)[n + 1] = call
          /\ \A k \in 1..n : Append(pending, call)[k] = pending[k]
      BY <1>3, <2>2, AppendProperties
    <3> QED
      BY <2>2, <3>1, <3>2 DEF AsyncCall
  <2>4. \A k, l \in 1..n : k <= l => pending[k].step <= pending[l].step
    BY <1>1 DEF Calls
  <2>5. ASSUME NEW k \in 1..n
        PROVE  /\ pending[k].step < step /\ tracker <= pending[k].step /\ durable <= pending[k].step
               /\ disk[pending[k].step].actor # "none"
               /\ pending[k].written => disk[pending[k].step][pending[k].part] = "whole"
               /\ ~job.critic => pending[k].part = "actor"
               /\ Ordered(job) => Fits(disk[pending[k].step], pending[k].step, Most)
    BY <1>1, <1>4, <2>3, <1>3, Numbers DEF Calls, Ahead
  <2>6. \A s \in 1..Steps : s < step => disk'[s] = disk[s]
    BY <1>8, <1>5, <2>1, <1>3, Numbers
  <2>7. tracker <= step /\ durable <= step
    BY <1>1, <1>2, <2>1 DEF Advanced
  <2> HIDE DEF n, call
  <2>8. \A k, l \in 1..n + 1 : k <= l => pending'[k].step <= pending'[l].step
    <3> TAKE k, l \in 1..n + 1
    <3> HAVE k <= l
    <3>1. pending'[n + 1].step = step
      BY <1>5, <2>3 DEF call
    <3>2. CASE l \in 1..n
      <4>1. k \in 1..n
        BY <2>3, <3>2
      <4> QED
        BY <2>3, <2>4, <3>2, <4>1
    <3>3. CASE k \in 1..n /\ l = n + 1
      <4>1. pending[k].step \in 1..Steps /\ pending[k].step < step /\ pending'[k] = pending[k]
        BY <2>3, <2>5, <3>3
      <4> QED
        BY <1>3, <3>1, <3>3, <4>1, Numbers
    <3>4. CASE k = n + 1 /\ l = n + 1
      BY <1>3, <3>1, <3>4
    <3> QED
      BY <2>3, <3>2, <3>3, <3>4
  <2>9. ASSUME NEW k \in 1..n + 1
        PROVE  LET c == pending'[k]
               IN  /\ c.step <= step /\ tracker <= c.step /\ durable <= c.step
                   /\ disk'[c.step].actor # "none"
                   /\ c.part = "critic" => c.step < step
                   /\ c.written => disk'[c.step][c.part] = "whole"
                   /\ ~job.critic => c.part = "actor"
                   /\ Ordered(job) => Fits(disk'[c.step], c.step, Most) \/ c.step = step
    <3>1. CASE k \in 1..n
      <4> DEFINE c == pending[k]
      <4>1. pending'[k] = c /\ c.step \in 1..Steps /\ c.step < step
        BY <2>3, <2>5, <3>1
      <4>2. /\ tracker <= c.step /\ durable <= c.step /\ disk[c.step].actor # "none"
            /\ c.written => disk[c.step][c.part] = "whole"
            /\ ~job.critic => c.part = "actor"
            /\ Ordered(job) => Fits(disk[c.step], c.step, Most)
        BY <2>5, <3>1
      <4> HIDE DEF c
      <4>3. disk'[c.step] = disk[c.step]
        BY <2>6, <4>1
      <4>4. c.step <= step
        BY <1>3, <4>1, Numbers
      <4> QED
        BY <4>1, <4>2, <4>3, <4>4
    <3>2. CASE k = n + 1
      <4>1. pending'[k].step = step /\ pending'[k].part = "actor" /\ pending'[k].written = FALSE
        BY <1>5, <2>3, <3>2 DEF call
      <4> QED
        BY <1>5, <1>7, <2>7, <4>1, <1>3
    <3> QED
      BY <2>3, <3>1, <3>2
  <2>10. pending'[n + 1].step = step /\ n + 1 \in 1..Len(pending')
    BY <1>5, <2>3 DEF call
  <2>11. UNCHANGED job /\ ~Finalising' /\ ~Ahead(BeginActor)' /\ Ahead(Data)' /\ Most' = Most
    BY <1>2, <1>4 DEF Most, Slack, Asynchronous, Ahead, Finalising, Async
  <2>12. /\ UNCHANGED <<step, tracker>> /\ durable' = durable
         /\ \A k, l \in 1..Len(pending') : k <= l => pending'[k].step <= pending'[l].step
         /\ \E k \in 1..Len(pending') : pending'[k].step = step
    BY <1>2, <1>6, <2>3, <2>8, <2>10
  <2> QED
    BY <2>3, <2>9, <2>11, <2>12 DEF Calls
<1>21. Finishing'
  <2>1. todo' # <<>> /\ trainer' = "running" /\ Async' = Async /\ Asynchronous' = Asynchronous
        /\ step' = step /\ UNCHANGED <<job, tracker, target>>
    BY <1>2, <1>4 DEF Async, Asynchronous
  <2>2. ASSUME Async, step = Steps
        PROVE  \E k \in 1..Len(pending') : pending'[k].part = "actor" /\ pending'[k].step = Steps
    <3>1. pending' = Append(pending, call) /\ call.part = "actor" /\ call.step = Steps
      BY <1>5, <1>6, <2>2
    <3>2. call \in AsyncCall
      BY <1>5 DEF AsyncCall
    <3> HIDE DEF call
    <3>3. Len(Append(pending, call)) = Len(pending) + 1 /\ Len(pending) \in Nat
          /\ Append(pending, call)[Len(pending) + 1] = call
      BY <1>3, <3>2, AppendProperties
    <3> QED
      BY <3>1, <3>3
  <2>3. job.critic => Ahead(BeginCritic)'
    BY <1>2, <1>4 DEF Ahead
  <2> QED
    BY <2>1, <2>2, <2>3 DEF Finishing, BeginCritic
<1>22. Directories'
  <2> SUFFICES ASSUME job.keep > 0 PROVE Directories'
    BY <1>2 DEF Directories
  <2>1. /\ kept \in Seq(1..Steps) /\ Len(kept) = Len(paths) - r /\ r \in Nat /\ r <= Len(paths)
        /\ \A k \in 1..Len(kept) : kept[k] = paths[k + r]
        /\ Len(kept) < job.keep
    BY <1>3, Window
  <2>2. previous_saved_paths'.actor = kept
    <3>1. ~Async /\ job.keep \in Nat
      BY <1>3, Settings DEF Async
    <3> QED
      BY <1>6, <3>1
  <2>3. PICK earlier \in SUBSET (1..Steps) :
          /\ Cardinality(earlier) <= job.keep * restarts
          /\ \A s \in 1..Steps : disk[s].actor # "none" =>
               \/ s \in earlier
               \/ \E k \in 1..Len(paths) : paths[k] = s
               \/ todo # <<>> /\ Head(todo) = EndActor /\ s = target
    BY <1>1 DEF Directories
  <2>4. ASSUME NEW s \in 1..Steps, disk'[s].actor # "none", s \notin earlier, s # target
        PROVE  \E k \in 1..Len(kept) : kept[k] = s
    <3>1. s \notin removed /\ disk[s].actor # "none"
      <4> HIDE DEF removed
      <4> QED
        BY <1>8, <1>9, <2>4
    <3>2. PICK k \in 1..Len(paths) : paths[k] = s
      BY <1>2, <2>3, <2>4, <3>1, Ops
    <3> DEFINE n == Len(paths)
               m == Len(kept)
    <3>3. n \in Nat /\ k \in 1..n /\ m = n - r
      BY <1>3, <2>1
    <3>4. k \notin 1..r
      BY <3>1, <3>2
    <3> HIDE DEF n, m, r, kept, paths
    <3>5. k - r \in 1..m /\ (k - r) + r = k
      BY <2>1, <3>3, <3>4
    <3> QED
      BY <2>1, <3>2, <3>5 DEF m
  <2>5. Len(kept) <= job.keep /\ Head(todo') = EndActor
    <3>1. job.keep \in Nat /\ Len(kept) \in Nat /\ ~Async
      BY <1>3, <2>1, Settings DEF Async
    <3> HIDE DEF kept
    <3> QED
      BY <1>2, <1>4, <2>1, <3>1
  <2> HIDE DEF kept
  <2> QED
    BY <1>2, <1>4, <2>1, <2>2, <2>3, <2>4, <2>5 DEF Directories
<1> QED
  BY <1>10, <1>11, <1>12, <1>13, <1>16, <1>17, <1>18, <1>19, <1>20, <1>21, <1>22 DEF CkptInv

LEMMA BeginCriticKeeps ==
  ASSUME CkptInv, BeginPart("critic")
  PROVE  CkptInv'
<1> DEFINE paths == previous_saved_paths.critic
           r == Rotated(paths)
           kept == SubSeq(paths, r + 1, Len(paths))
           removed == {paths[k] : k \in 1..r}
           call == [part |-> "critic", step |-> target, written |-> FALSE]
           others == <<job, trainer, step, weights, position, inflight, target, late, tracker, restarts>>
<1>1. Types /\ Planned /\ Reading /\ Trained /\ Named /\ Saved /\ Rotating /\ Advanced /\ Calls
      /\ Finishing /\ Directories
  BY DEF CkptInv
<1>2. /\ trainer = "running" /\ todo # <<>> /\ Head(todo) = BeginCritic /\ todo' = Tail(todo)
      /\ UNCHANGED others
  BY DEF BeginPart, AtDiskOp, SaveGoesOn, BeginCritic
<1>3. /\ job \in CkptJobs /\ Left(job, todo) /\ paths \in Seq(1..Steps)
      /\ previous_saved_paths \in [actor : Seq(1..Steps), critic : Seq(1..Steps)]
      /\ disk \in [1..Steps -> Directory] /\ pending \in Seq(AsyncCall)
      /\ step \in 0..Steps /\ tracker \in EmptyTracker..Steps /\ durable \in 0..Steps
  BY <1>1 DEF Types, Planned
<1>4. /\ job.critic /\ job.trainer # "sft"
      /\ Left(job, Tail(todo)) /\ Tail(todo) # <<>>
      /\ Within(BeginCritic, todo) /\ ~Within(BeginCritic, Tail(todo))
      /\ Within(Data, todo) /\ Within(Data, Tail(todo)) /\ Head(Tail(todo)) # EndActor
      /\ ~Within(BeginActor, todo) /\ ~Within(BeginActor, Tail(todo))
      /\ ~Within(EndActor, todo) /\ ~Within(EndActor, Tail(todo))
      /\ ~Async => Within(EndCritic, todo) /\ Within(EndCritic, Tail(todo))
      /\ Async => ~Within(Name, todo) /\ ~Within(Name, Tail(todo))
  BY <1>2, <1>3, AtBeginCritic DEF Async
<1>5. /\ target = step /\ target \in 1..Steps /\ late = {} /\ tracker # EmptyTracker
  BY <1>1, <1>2, <1>3, <1>4, Ops, Numbers DEF Planned, Finalising, Ahead
<1>6. /\ durable' = durable
      /\ Async => pending' = Append(pending, call)
      /\ ~Async => pending' = pending
      /\ ~Async => previous_saved_paths'.critic = kept
      /\ previous_saved_paths'.actor = previous_saved_paths.actor
  BY <1>3, <1>4 DEF BeginPart, SaveGoesOn, Async
<1>7. /\ disk'[target].critic = "partial" /\ disk'[target].actor = disk[target].actor
      /\ disk'[target].data = disk[target].data /\ disk'[target].weights = weights
  BY <1>3, <1>5 DEF BeginPart, Directory
<1>8. ASSUME NEW s \in 1..Steps, s # target
      PROVE  /\ s \notin removed => disk'[s] = disk[s]
             /\ s \in removed => disk'[s] = WithoutPart(disk[s], "critic")
  BY <1>3, <1>8 DEF BeginPart
<1>9. ASSUME NEW s \in 1..Steps
      PROVE  /\ s \in removed /\ s # target => disk'[s].critic = "none"
             /\ disk'[s].actor = disk[s].actor
             /\ \A q \in DpRanks(job) : disk'[s].data[q] \in {disk[s].data[q], NoFile}
  <2>1. disk[s].data \in [DpRanks(job) -> NoFile..Steps] /\ disk[s] \in Directory
    BY <1>3 DEF Directory
  <2>2. CASE s = target
    BY <1>7, <2>2
  <2>3. CASE s # target /\ s \notin removed
    BY <1>8, <2>3
  <2>4. CASE s # target /\ s \in removed
    <3>1. disk'[s] = WithoutPart(disk[s], "critic")
      BY <1>8, <2>4
    <3> HIDE DEF removed
    <3> QED
      BY <1>4, <2>1, <2>4, <3>1 DEF WithoutPart, Directory
  <2> QED
    BY <2>2, <2>3, <2>4
<1>10. Types'
  BY <1>1, <1>5, BeginTyped
<1>11. Planned'
  BY <1>2, <1>4, <1>5 DEF Planned, Ahead, Finalising, Async
<1>12. Reading'
  <2>1. ASSUME ~Asynchronous, NEW s \in 1..Steps, NEW q \in DpRanks(job)
        PROVE  disk'[s].data[q] <= s
    <3>1. disk[s].data[q] <= s
      BY <1>1, <2>1 DEF Reading
    <3> HIDE DEF removed
    <3> QED
      BY <1>9, <3>1, Numbers DEF NoFile
  <2> QED
    BY <1>1, <1>2, <2>1 DEF Reading, Asynchronous
<1>13. Trained'
  BY <1>1, <1>2 DEF Trained, Taken, Slack, Asynchronous
(* The tracker names the newest path, which is kept. *)
<1>14. Ordered(job) /\ tracker \in 1..Steps => tracker \notin removed
  <2> SUFFICES ASSUME Ordered(job), tracker \in 1..Steps, NEW k \in 1..r PROVE tracker # paths[k]
    OBVIOUS
  <2>1. r \in Nat /\ r <= Len(paths) /\ r < Len(paths) /\ Len(paths) \in Nat
    <3>1. r \in Nat /\ (r > 0 => r < Len(paths)) /\ Len(paths) \in Nat
      BY <1>3, Window DEF Ordered
    <3> HIDE DEF r, paths
    <3> QED
      BY <3>1
  <2>2. ~Async /\ job.manager = "fsdp"
    BY <1>3, <2>1, Settings, Window, SMTT(30) DEF Async, Ordered
  <2>3. tracker = paths[Len(paths)] /\ \A i, l \in 1..Len(paths) : i < l => paths[i] < paths[l]
    <3>1. paths # <<>>
      BY <2>1
    <3> QED
      BY <1>1, <1>4, <2>2, <3>1 DEF Rotating, LastOf, Ahead, Rising
  <2> DEFINE n == Len(paths)
  <2>4. n \in 1..n /\ k \in 1..n /\ k < n
    <3> HIDE DEF r, paths
    <3> QED
      BY <2>1
  <2>5. paths[k] < paths[n] /\ paths[k] \in Nat
    <3>1. paths[k] \in 1..Steps
      BY <1>3, <2>4, ElementOfSeq
    <3> QED
      BY <2>3, <2>4, <3>1, Numbers
  <2> QED
    BY <2>3, <2>5
<1>15. Ordered(job) => tracker < target
  BY <1>1, <1>4 DEF Named, Ahead
<1>16. Named'
  <2>1. ASSUME Ordered(job), tracker \in 1..Steps PROVE disk'[tracker] = disk[tracker]
    <3>1. job.keep # 1 /\ tracker # target
      BY <2>1, <1>5, <1>15, Numbers DEF Ordered
    <3> HIDE DEF removed
    <3> QED
      BY <2>1, <3>1, <1>8, <1>14
  <2> QED
    BY <1>1, <1>2, <1>4, <1>15, <2>1 DEF Named, Ahead, PartsWhole, Most, Slack, Asynchronous
<1>17. Saved'
  <2>1. ~Async => disk[target].actor = "whole" /\ LastOf(previous_saved_paths.actor, target)
    BY <1>1, <1>2, <1>4 DEF Saved, Ahead
  <2> QED
    BY <1>2, <1>4, <1>5, <1>6, <1>7, <2>1 DEF Saved, Ahead, Async, LastOf
<1>18. Rotating'
  <2> SUFFICES ASSUME ~Async PROVE Rotating'
    BY <1>2 DEF Rotating, Async
  <2>1. pending' = <<>>
    BY <1>1, <1>6 DEF Rotating
  <2>2. /\ \A k, l \in 1..Len(paths) : k < l => paths[k] < paths[l]
        /\ \A k \in 1..Len(paths) : paths[k] <= step - 1
    BY <1>1, <1>4 DEF Rotating, Ahead, Rising, UpTo
  <2>3. /\ kept \in Seq(1..Steps) /\ Len(kept) = Len(paths) - r /\ r \in Nat /\ r <= Len(paths)
        /\ \A k \in 1..Len(kept) : kept[k] = paths[k + r]
    BY <1>3, Window
  <2>4. Rising(kept) /\ UpTo(step - 1, kept) /\ UpTo(step, kept)
    <3> DEFINE n == Len(paths)
               m == Len(kept)
    <3> HIDE DEF paths, kept, r
    <3>0. paths \in Seq(1..Steps) /\ kept \in Seq(1..Steps)
      BY <1>3, <2>3
    <3>1. n \in Nat /\ m \in Nat
      BY <3>0
    <3>5. \A k \in 1..m : kept[k] \in 1..Steps
      BY <3>0, ElementOfSeq
    <3>2. /\ \A k \in 1..m : k + r \in 1..n
          /\ \A k, l \in 1..m : k < l => k + r < l + r
      BY <2>3, <3>1
    <3> HIDE DEF n, m
    <3>3. /\ \A k, l \in 1..m : k < l => kept[k] < kept[l]
          /\ \A k \in 1..m : kept[k] <= step - 1
      BY <2>2, <2>3, <3>2 DEF n, m
    <3>4. \A k \in 1..m : kept[k] <= step
      BY <1>3, <3>1, <3>5, <3>3, Numbers
    <3> QED
      BY <3>3, <3>4 DEF Rising, UpTo, m
  <2>5. previous_saved_paths'.critic = kept
    BY <1>6
  <2> HIDE DEF kept, paths, r
  <2> QED
    BY <1>1, <1>2, <1>4, <1>6, <2>1, <2>4, <2>5 DEF Rotating, Ahead, Async
<1>19. Advanced'
  BY <1>1, <1>2, <1>4, <1>6, <1>9, <1>7, <1>5, Numbers DEF Advanced, Ahead
<1>20. Calls'
  <2> SUFFICES ASSUME Async PROVE Calls'
    BY <1>2 DEF Calls, Async
  <2>1. job.keep = 0 /\ r = 0 /\ removed = {}
    BY <1>3, Settings, Window, SMTT(60) DEF Async
  <2>2. pending' = Append(pending, call) /\ call \in AsyncCall
    BY <1>5, <1>6 DEF AsyncCall
  <2> DEFINE n == Len(pending)
  <2>3. /\ n \in Nat /\ Len(pending') = n + 1 /\ pending'[n + 1] = call
        /\ \A k \in 1..n : pending'[k] = pending[k]
        /\ \A k \in 1..n : pending[k].step \in 1..Steps
    <3>1. n \in Nat /\ \A k \in 1..n : pending[k] \in AsyncCall
      BY <1>3, ElementOfSeq
    <3> HIDE DEF call
    <3>2. Len(Append(pending, call)) = n + 1 /\ Append(pending, call)[n + 1] = call
          /\ \A k \in 1..n : Append(pending, call)[k] = pending[k]
      BY <1>3, <2>2, AppendProperties
    <3> QED
      BY <2>2, <3>1, <3>2 DEF AsyncCall
  <2>4. \A k, l \in 1..n : k <= l => pending[k].step <= pending[l].step
    BY <1>1 DEF Calls
  <2>5. ASSUME NEW k \in 1..n
        PROVE  /\ pending[k].step <= step /\ tracker <= pending[k].step /\ durable <= pending[k].step
               /\ pending[k].part = "critic" => pending[k].step < step
               /\ disk[pending[k].step].actor # "none"
               /\ pending[k].written => disk[pending[k].step][pending[k].part] = "whole"
    BY <1>1, <1>4 DEF Calls, Ahead
  <2>6. \A s \in 1..Steps : disk'[s].actor = disk[s].actor /\ (s < step => disk'[s] = disk[s])
    BY <1>8, <1>9, <1>5, <2>1, <1>3, Numbers
  <2>7. tracker <= step /\ durable <= step /\ disk[step].actor # "none"
    <3>1. PICK k \in 1..n : pending[k].step = step
      BY <1>1, <1>4 DEF Calls, Ahead
    <3> QED
      BY <2>5, <3>1
  <2> HIDE DEF n, call
  <2>8. \A k, l \in 1..n + 1 : k <= l => pending'[k].step <= pending'[l].step
    <3> TAKE k, l \in 1..n + 1
    <3> HAVE k <= l
    <3>1. pending'[n + 1].step = step
      BY <1>5, <2>3 DEF call
    <3>2. CASE l \in 1..n
      <4>1. k \in 1..n
        BY <2>3, <3>2
      <4> QED
        BY <2>3, <2>4, <3>2, <4>1
    <3>3. CASE k \in 1..n /\ l = n + 1
      BY <2>3, <2>5, <3>1, <3>3
    <3>4. CASE k = n + 1 /\ l = n + 1
      BY <1>3, <3>1, <3>4
    <3> QED
      BY <2>3, <3>2, <3>3, <3>4
  <2>9. ASSUME NEW k \in 1..n + 1
        PROVE  LET c == pending'[k]
               IN  /\ c.step <= step /\ tracker <= c.step /\ durable <= c.step
                   /\ disk'[c.step].actor # "none"
                   /\ c.written => disk'[c.step][c.part] = "whole"
    <3>1. CASE k \in 1..n
      <4> DEFINE c == pending[k]
      <4>1. pending'[k] = c /\ c.step \in 1..Steps /\ c.part \in {"actor", "critic"}
        <5>1. c \in AsyncCall
          BY <1>3, <3>1, ElementOfSeq DEF n
        <5> QED
          BY <2>3, <3>1, <5>1 DEF AsyncCall
      <4>2. /\ c.step <= step /\ tracker <= c.step /\ durable <= c.step
            /\ c.part = "critic" => c.step < step
            /\ disk[c.step].actor # "none"
            /\ c.written => disk[c.step][c.part] = "whole"
        BY <2>5, <3>1
      <4> HIDE DEF c
      <4>3. disk'[c.step].actor = disk[c.step].actor
            /\ (c.step < step => disk'[c.step] = disk[c.step])
        BY <2>6, <4>1
      <4> QED
        BY <4>1, <4>2, <4>3
    <3>2. CASE k = n + 1
      <4>1. pending'[k].step = step /\ pending'[k].written = FALSE
        BY <1>5, <2>3, <3>2 DEF call
      <4> QED
        BY <1>5, <1>7, <2>7, <4>1, <1>3
    <3> QED
      BY <2>3, <3>1, <3>2
  <2>10. pending'[n + 1].step = step /\ n + 1 \in 1..Len(pending')
    BY <1>5, <2>3 DEF call
  <2>11. UNCHANGED job /\ ~Finalising' /\ ~Ahead(BeginActor)' /\ ~Ahead(BeginCritic)' /\ Ahead(Data)'
         /\ job.critic /\ ~Ordered(job)
    BY <1>2, <1>4 DEF Ahead, Finalising, Async, Ordered
  <2>12. /\ UNCHANGED <<step, tracker>> /\ durable' = durable
         /\ \A k, l \in 1..Len(pending') : k <= l => pending'[k].step <= pending'[l].step
         /\ \E k \in 1..Len(pending') : pending'[k].step = step
    BY <1>2, <1>6, <2>3, <2>8, <2>10
  <2> QED
    BY <2>3, <2>9, <2>11, <2>12 DEF Calls
<1>21. Finishing'
  <2>1. todo' # <<>> /\ trainer' = "running" /\ Async' = Async /\ Asynchronous' = Asynchronous
        /\ step' = step /\ ~Finalising /\ ~Ahead(BeginActor) /\ UNCHANGED <<job, tracker, target>>
    BY <1>2, <1>4 DEF Async, Asynchronous, Ahead, Finalising
  <2>2. ASSUME Async, step = Steps, ~Asynchronous
        PROVE  /\ disk'[Steps].actor = disk[Steps].actor
               /\ \E k \in 1..Len(pending') : pending'[k].part = "critic" /\ pending'[k].step = Steps
               /\ \A k \in 1..Len(pending) : k \in 1..Len(pending') /\ pending'[k] = pending[k]
    <3>1. pending' = Append(pending, call) /\ call.part = "critic" /\ call.step = Steps
      BY <1>5, <1>6, <2>2
    <3>2. call \in AsyncCall
      BY <1>5 DEF AsyncCall
    <3> HIDE DEF call
    <3>3. Len(Append(pending, call)) = Len(pending) + 1 /\ Len(pending) \in Nat
          /\ Append(pending, call)[Len(pending) + 1] = call
          /\ \A k \in 1..Len(pending) : Append(pending, call)[k] = pending[k]
      BY <1>3, <3>2, AppendProperties
    <3> QED
      BY <1>9, <3>1, <3>3, Numbers
  <2>3. ASSUME Async, step = Steps, ~Asynchronous
        PROVE  \/ disk'[Steps].actor = "whole"
               \/ \E k \in 1..Len(pending') : pending'[k].part = "actor" /\ pending'[k].step = Steps
    <3>1. \/ disk[Steps].actor = "whole"
          \/ \E k \in 1..Len(pending) : pending[k].part = "actor" /\ pending[k].step = Steps
      BY <1>1, <1>2, <2>1, <2>3 DEF Finishing, BeginActor
    <3> QED
      BY <2>2, <2>3, <3>1
  <2> QED
    BY <2>1, <2>2, <2>3 DEF Finishing
<1>22. Directories'
  <2>1. UNCHANGED <<job, restarts>> /\ Head(todo) # EndActor /\ Head(todo') # EndActor
        /\ previous_saved_paths'.actor = previous_saved_paths.actor
        /\ \A s \in 1..Steps : disk'[s].actor = disk[s].actor
    <3>1. Head(todo) # EndActor
      BY <1>2, Ops
    <3> QED
      BY <1>2, <1>4, <1>6, <1>9, <3>1
  <2> QED
    BY <1>1, <2>1 DEF Directories
<1> QED
  BY <1>10, <1>11, <1>12, <1>13, <1>16, <1>17, <1>18, <1>19, <1>20, <1>21, <1>22 DEF CkptInv

LEMMA EndTyped ==
  ASSUME Types, NEW part \in {"actor", "critic"}, EndPart(part), target \in 1..Steps
  PROVE  /\ Types'
         /\ previous_saved_paths' = [previous_saved_paths EXCEPT ![part] = Append(@, target)]
         /\ \A s \in 1..Steps : s # target => disk'[s] = disk[s]
         /\ disk'[target] = [disk[target] EXCEPT ![part] = "whole"]
<1>1. job \in CkptJobs /\ disk \in [1..Steps -> Directory]
      /\ previous_saved_paths \in [actor : Seq(1..Steps), critic : Seq(1..Steps)]
  BY DEF Types
<1>2. previous_saved_paths' = [previous_saved_paths EXCEPT ![part] = Append(@, target)]
      /\ disk' = [disk EXCEPT ![target] = [disk[target] EXCEPT ![part] = "whole"]]
  BY DEF EndPart
<1>3. previous_saved_paths' \in [actor : Seq(1..Steps), critic : Seq(1..Steps)]
  <2>1. Append(previous_saved_paths[part], target) \in Seq(1..Steps)
    BY <1>1, AppendProperties
  <2> QED
    BY <1>1, <1>2, <2>1
<1>4. [disk[target] EXCEPT ![part] = "whole"] \in Directory
  BY <1>1, SMTT(30) DEF Directory
<1>5. disk' \in [1..Steps -> Directory]
  BY <1>1, <1>2, <1>4
<1>6. durable' \in 0..Steps /\ late' \in SUBSET {1}
  BY <1>1, Settings DEF EndPart, SaveGoesOn, Types
<1>7. UNCHANGED <<job, trainer, step, weights, position, inflight, target, pending, tracker, restarts>>
  BY DEF EndPart
<1>8. Types'
  BY <1>3, <1>5, <1>6, <1>7 DEF Types, Directory, AsyncCall
<1> QED
  BY <1>1, <1>2, <1>8

(* A path is added behind the others. *)
LEMMA Longer ==
  ASSUME NEW paths \in Seq(1..Steps), NEW s \in 1..Steps, Rising(paths), UpTo(s - 1, paths)
  PROVE  LET new == Append(paths, s)
         IN /\ Rising(new) /\ UpTo(s, new) /\ LastOf(new, s) /\ Len(new) = Len(paths) + 1
            /\ \A k \in 1..Len(paths) : k \in 1..Len(new) /\ new[k] = paths[k]
            /\ \E k \in 1..Len(new) : new[k] = s
<1> DEFINE n == Len(paths)
           new == Append(paths, s)
<1>1. n \in Nat /\ Len(new) = n + 1 /\ new[n + 1] = s /\ \A k \in 1..n : new[k] = paths[k]
  BY AppendProperties
<1>2. \A k \in 1..n : paths[k] \in 1..Steps
  BY ElementOfSeq
<1>3. /\ \A k, l \in 1..n : k < l => paths[k] < paths[l]
      /\ \A k \in 1..n : paths[k] <= s - 1
  BY DEF Rising, UpTo
<1> HIDE DEF n, new
<1>4. ASSUME NEW k \in 1..n PROVE paths[k] < s /\ paths[k] <= s
  BY <1>2, <1>3, Numbers
<1>5. \A k \in 1..n + 1 : new[k] <= s
  <2> TAKE k \in 1..n + 1
  <2>1. k \in 1..n \/ k = n + 1
    BY <1>1
  <2> QED
    BY <1>1, <1>4, <2>1, Numbers
<1>6. \A k, l \in 1..n + 1 : k < l => new[k] < new[l]
  <2> TAKE k, l \in 1..n + 1
  <2> HAVE k < l
  <2>1. k \in 1..n /\ (l \in 1..n \/ l = n + 1)
    BY <1>1
  <2> QED
    BY <1>1, <1>3, <1>4, <2>1
<1>7. new # <<>>
  BY <1>1
<1> QED
  BY <1>1, <1>5, <1>6, <1>7 DEF Rising, UpTo, LastOf, n, new

LEMMA EndActorKeeps ==
  ASSUME CkptInv, EndPart("actor")
  PROVE  CkptInv'
<1> DEFINE paths == previous_saved_paths.actor
           others == <<job, trainer, step, weights, position, inflight, target, pending, tracker, restarts>>
<1>1. Types /\ Planned /\ Reading /\ Trained /\ Named /\ Saved /\ Rotating /\ Advanced /\ Calls
      /\ Finishing /\ Directories
  BY DEF CkptInv
<1>2. /\ trainer = "running" /\ todo # <<>> /\ Head(todo) = EndActor /\ todo' = Tail(todo)
      /\ late' = DpRanks(job) \ {0} /\ UNCHANGED others
  BY DEF EndPart, AtDiskOp, SaveGoesOn, EndActor
<1>3. /\ job \in CkptJobs /\ Left(job, todo) /\ paths \in Seq(1..Steps)
      /\ previous_saved_paths \in [actor : Seq(1..Steps), critic : Seq(1..Steps)]
      /\ disk \in [1..Steps -> Directory]
      /\ step \in 0..Steps /\ tracker \in EmptyTracker..Steps /\ durable \in 0..Steps
  BY <1>1 DEF Types, Planned
<1>4. /\ ~Async /\ Left(job, Tail(todo)) /\ Tail(todo) # <<>>
      /\ Within(EndActor, todo) /\ ~Within(EndActor, Tail(todo))
      /\ ~Within(BeginActor, todo) /\ ~Within(BeginActor, Tail(todo))
      /\ Within(Data, todo) /\ Within(Data, Tail(todo)) /\ Head(Tail(todo)) # EndActor
      /\ job.critic => Within(BeginCritic, todo) /\ Within(BeginCritic, Tail(todo))
      /\ Within(BeginCritic, Tail(todo)) <=> Within(BeginCritic, todo)
      /\ Within(EndCritic, Tail(todo)) <=> Within(EndCritic, todo)
  BY <1>2, <1>3, AtEndActor DEF Async
<1>5. /\ target = step /\ target \in 1..Steps /\ tracker # EmptyTracker
  BY <1>1, <1>2, <1>3, <1>4, Ops, Numbers DEF Planned, Finalising, Ahead
<1>6. durable' = durable
  BY <1>4 DEF EndPart, SaveGoesOn
<1>7. /\ Types' /\ previous_saved_paths' = [previous_saved_paths EXCEPT !.actor = Append(@, target)]
      /\ \A s \in 1..Steps : s # target => disk'[s] = disk[s]
      /\ disk'[target] = [disk[target] EXCEPT !.actor = "whole"]
  BY <1>1, <1>5, EndTyped
<1>8. /\ previous_saved_paths'.actor = Append(paths, step)
      /\ previous_saved_paths'.critic = previous_saved_paths.critic
      /\ \A s \in 1..Steps :
           /\ s # target => disk'[s].actor = disk[s].actor
           /\ disk'[s].critic = disk[s].critic /\ disk'[s].data = disk[s].data
           /\ disk'[s].weights = disk[s].weights
      /\ disk'[target].actor = "whole"
  BY <1>3, <1>5, <1>7 DEF Directory
<1>9. Rising(paths) /\ UpTo(step - 1, paths)
  BY <1>1, <1>4 DEF Rotating, Ahead
<1> DEFINE new == Append(paths, step)
<1>10. /\ Rising(new) /\ UpTo(step, new) /\ LastOf(new, step) /\ Len(new) = Len(paths) + 1
       /\ \A k \in 1..Len(paths) : k \in 1..Len(new) /\ new[k] = paths[k]
       /\ \E k \in 1..Len(new) : new[k] = step
  BY <1>3, <1>5, <1>9, Longer
<1> HIDE DEF new
<1>11. previous_saved_paths'.actor = new
  BY <1>8 DEF new
<1>12. late' # {} => job.trainer = "sft"
  BY <1>2, <1>3, Settings
<1>13. Planned'
  BY <1>1, <1>2, <1>4, <1>5, <1>10, <1>11, <1>12 DEF Planned, Ahead, Finalising, Async
<1>14. Reading' /\ Trained'
  BY <1>1, <1>2, <1>8 DEF Reading, Trained, Taken, Slack, Asynchronous
<1>15. Named'
  BY <1>1, <1>2, <1>4, <1>8 DEF Named, PartsWhole, Ahead, Fits, Most, Slack, Asynchronous
<1>16. Saved'
  BY <1>1, <1>2, <1>4, <1>5, <1>8, <1>10, <1>11 DEF Saved, Ahead, Async
<1>17. Rotating'
  BY <1>1, <1>2, <1>4, <1>8, <1>10, <1>11 DEF Rotating, Ahead, Async
<1>18. Advanced'
  BY <1>1, <1>2, <1>4, <1>6, <1>8, <1>5 DEF Advanced, Ahead
<1>19. Calls' /\ Finishing'
  BY <1>2, <1>4 DEF Calls, Finishing, Async
<1>20. Directories'
  <2> SUFFICES ASSUME job.keep > 0 PROVE Directories'
    BY <1>2 DEF Directories
  <2>1. Len(new) <= job.keep
    <3>1. Len(paths) < job.keep /\ Len(paths) \in Nat /\ job.keep \in Nat
      BY <1>1, <1>2, <1>3, Settings DEF Directories
    <3> QED
      BY <1>10, <3>1
  <2>2. PICK earlier \in SUBSET (1..Steps) :
          /\ Cardinality(earlier) <= job.keep * restarts
          /\ \A s \in 1..Steps : disk[s].actor # "none" =>
               \/ s \in earlier
               \/ \E k \in 1..Len(paths) : paths[k] = s
               \/ todo # <<>> /\ Head(todo) = EndActor /\ s = target
    BY <1>1 DEF Directories
  <2>3. ASSUME NEW s \in 1..Steps, disk'[s].actor # "none", s \notin earlier
        PROVE  \E k \in 1..Len(new) : new[k] = s
    BY <1>5, <1>8, <1>10, <2>2, <2>3, SMTT(60)
  <2> QED
    BY <1>2, <1>4, <1>11, <2>1, <2>2, <2>3 DEF Directories
<1> QED
  BY <1>7, <1>13, <1>14, <1>15, <1>16, <1>17, <1>18, <1>19, <1>20 DEF CkptInv

LEMMA EndCriticKeeps ==
  ASSUME CkptInv, EndPart("critic")
  PROVE  CkptInv'
<1> DEFINE paths == previous_saved_paths.critic
           others == <<job, trainer, step, weights, position, inflight, target, pending, tracker, restarts>>
<1>1. Types /\ Planned /\ Reading /\ Trained /\ Named /\ Saved /\ Rotating /\ Advanced /\ Calls
      /\ Finishing /\ Directories
  BY DEF CkptInv
<1>2. /\ trainer = "running" /\ todo # <<>> /\ Head(todo) = EndCritic /\ todo' = Tail(todo)
      /\ late' = DpRanks(job) \ {0} /\ UNCHANGED others
  BY DEF EndPart, AtDiskOp, SaveGoesOn, EndCritic
<1>3. /\ job \in CkptJobs /\ Left(job, todo) /\ paths \in Seq(1..Steps)
      /\ previous_saved_paths \in [actor : Seq(1..Steps), critic : Seq(1..Steps)]
      /\ disk \in [1..Steps -> Directory]
      /\ step \in 0..Steps /\ tracker \in EmptyTracker..Steps /\ durable \in 0..Steps
  BY <1>1 DEF Types, Planned
<1>4. /\ ~Async /\ job.critic /\ job.trainer # "sft" /\ Left(job, Tail(todo)) /\ Tail(todo) # <<>>
      /\ Within(EndCritic, todo) /\ ~Within(EndCritic, Tail(todo))
      /\ ~Within(BeginActor, todo) /\ ~Within(BeginActor, Tail(todo))
      /\ ~Within(EndActor, todo) /\ ~Within(EndActor, Tail(todo))
      /\ ~Within(BeginCritic, todo) /\ ~Within(BeginCritic, Tail(todo))
      /\ Within(Data, todo) /\ Within(Data, Tail(todo)) /\ Head(Tail(todo)) # EndActor
  BY <1>2, <1>3, AtEndCritic DEF Async
<1>5. /\ target = step /\ target \in 1..Steps /\ tracker # EmptyTracker
  BY <1>1, <1>2, <1>3, <1>4, Ops, Numbers DEF Planned, Finalising, Ahead
<1>6. durable' = durable
  BY <1>4 DEF EndPart, SaveGoesOn
<1>7. /\ Types' /\ previous_saved_paths' = [previous_saved_paths EXCEPT !.critic = Append(@, target)]
      /\ \A s \in 1..Steps : s # target => disk'[s] = disk[s]
      /\ disk'[target] = [disk[target] EXCEPT !.critic = "whole"]
  BY <1>1, <1>5, EndTyped
<1>8. /\ previous_saved_paths'.critic = Append(paths, step)
      /\ previous_saved_paths'.actor = previous_saved_paths.actor
      /\ \A s \in 1..Steps :
           /\ s # target => disk'[s].critic = disk[s].critic
           /\ disk'[s].actor = disk[s].actor /\ disk'[s].data = disk[s].data
           /\ disk'[s].weights = disk[s].weights
      /\ disk'[target].critic = "whole"
  BY <1>3, <1>5, <1>7 DEF Directory
<1>9. Rising(paths) /\ UpTo(step - 1, paths)
  BY <1>1, <1>4 DEF Rotating, Ahead
<1> DEFINE new == Append(paths, step)
<1>10. /\ Rising(new) /\ UpTo(step, new) /\ LastOf(new, step) /\ Len(new) = Len(paths) + 1
       /\ \A k \in 1..Len(paths) : k \in 1..Len(new) /\ new[k] = paths[k]
       /\ \E k \in 1..Len(new) : new[k] = step
  BY <1>3, <1>5, <1>9, Longer
<1> HIDE DEF new
<1>11. previous_saved_paths'.critic = new
  BY <1>8 DEF new
<1>12. late' = {}
  BY <1>2, <1>3, <1>4, Settings
<1>13. Planned'
  BY <1>1, <1>2, <1>4, <1>5, <1>10, <1>11, <1>12 DEF Planned, Ahead, Finalising, Async
<1>14. Reading' /\ Trained'
  BY <1>1, <1>2, <1>8 DEF Reading, Trained, Taken, Slack, Asynchronous
<1>15. Named'
  BY <1>1, <1>2, <1>4, <1>8 DEF Named, PartsWhole, Ahead, Fits, Most, Slack, Asynchronous
<1>16. Saved'
  <2>1. disk[target].actor = "whole" /\ LastOf(previous_saved_paths.actor, target)
    BY <1>1, <1>2, <1>4 DEF Saved, Ahead
  <2> QED
    BY <1>1, <1>2, <1>4, <1>5, <1>8, <1>10, <1>11, <2>1 DEF Saved, Ahead, Async
<1>17. Rotating'
  <2>1. Rising(previous_saved_paths.actor) /\ UpTo(step, previous_saved_paths.actor) /\ pending = <<>>
    BY <1>1, <1>4 DEF Rotating, Ahead
  <2> QED
    BY <1>1, <1>2, <1>4, <1>8, <1>10, <1>11, <2>1 DEF Rotating, Ahead, Async
<1>18. Advanced'
  BY <1>1, <1>2, <1>4, <1>6, <1>8, <1>5 DEF Advanced, Ahead
<1>19. Calls' /\ Finishing'
  BY <1>2, <1>4 DEF Calls, Finishing, Async
<1>20. Directories'
  <2>1. UNCHANGED <<job, restarts>> /\ Head(todo) # EndActor /\ Head(todo') # EndActor
    BY <1>2, <1>4, Ops
  <2> QED
    BY <1>1, <1>8, <2>1 DEF Directories
<1> QED
  BY <1>7, <1>13, <1>14, <1>15, <1>16, <1>17, <1>18, <1>19, <1>20 DEF CkptInv

(* A data file is written, of rank 0 or of a later one.                    *)
LEMMA DataWritten ==
  ASSUME Types, NEW r \in DpRanks(job), target \in 1..Steps,
         disk' = [disk EXCEPT ![target].data[r] = position[r]], UNCHANGED job
  PROVE  /\ disk' \in [1..Steps -> Directory]
         /\ \A s \in 1..Steps : s # target => disk'[s] = disk[s]
         /\ \A s \in 1..Steps : /\ disk'[s].actor = disk[s].actor
                                /\ disk'[s].critic = disk[s].critic
                                /\ disk'[s].weights = disk[s].weights
         /\ disk'[target].data[r] = position[r]
         /\ \A q \in DpRanks(job) : q # r => disk'[target].data[q] = disk[target].data[q]
<1>1. disk \in [1..Steps -> Directory] /\ position \in [DpRanks(job) -> 0..Steps] /\ job \in CkptJobs
  BY DEF Types
<1>2. disk[target] \in Directory /\ disk[target].data \in [DpRanks(job) -> NoFile..Steps]
  BY <1>1 DEF Directory
<1> DEFINE written == [disk[target].data EXCEPT ![r] = position[r]]
           dir == [disk[target] EXCEPT !.data = written]
<1>3. position[r] \in NoFile..Steps
  <2>1. position[r] \in 0..Steps
    BY <1>1
  <2> QED
    BY <2>1, Numbers DEF NoFile
<1>4. /\ written \in [DpRanks(job) -> NoFile..Steps] /\ written[r] = position[r]
      /\ \A q \in DpRanks(job) : q # r => written[q] = disk[target].data[q]
  BY <1>2, <1>3
<1>5. disk' = [disk EXCEPT ![target] = dir]
  OBVIOUS
<1> HIDE DEF written
<1>6. /\ dir \in Directory /\ dir.actor = disk[target].actor /\ dir.critic = disk[target].critic
      /\ dir.weights = disk[target].weights /\ dir.data = written
  BY <1>2, <1>4 DEF Directory
<1> HIDE DEF dir
<1> QED
  BY <1>1, <1>4, <1>5, <1>6

LEMMA WriteDataKeeps ==
  ASSUME CkptInv, WriteData
  PROVE  CkptInv'
<1> DEFINE others == <<job, trainer, step, weights, position, inflight, target, late,
                       previous_saved_paths, pending, tracker, restarts>>
<1>1. Types /\ Planned /\ Reading /\ Trained /\ Named /\ Saved /\ Rotating /\ Advanced /\ Calls
      /\ Finishing /\ Directories
  BY DEF CkptInv
<1>2. /\ trainer = "running" /\ todo # <<>> /\ Head(todo) = Data /\ todo' = Tail(todo)
      /\ UNCHANGED others /\ disk' = [disk EXCEPT ![target].data[0] = position[0]]
  BY DEF WriteData, AtDiskOp, SaveGoesOn, Data
<1>3. /\ job \in CkptJobs /\ Left(job, todo) /\ disk \in [1..Steps -> Directory]
      /\ position \in [DpRanks(job) -> 0..Steps] /\ pending \in Seq(AsyncCall)
      /\ step \in 0..Steps /\ tracker \in EmptyTracker..Steps /\ durable \in 0..Steps
  BY <1>1 DEF Types, Planned
<1>4. /\ Left(job, Tail(todo)) /\ Within(Data, todo) /\ ~Within(Data, Tail(todo))
      /\ ~Within(BeginActor, todo) /\ ~Within(BeginActor, Tail(todo))
      /\ ~Within(EndActor, todo) /\ ~Within(EndActor, Tail(todo))
      /\ ~Within(BeginCritic, todo) /\ ~Within(BeginCritic, Tail(todo))
      /\ ~Within(EndCritic, todo) /\ ~Within(EndCritic, Tail(todo))
      /\ Async => Tail(todo) = <<>> /\ ~Within(Name, todo) /\ ~Within(Name, Tail(todo))
      /\ ~Async => Tail(todo) # <<>>
      /\ Tail(todo) # <<>> => Head(Tail(todo)) # EndActor
  BY <1>2, <1>3, AtData DEF Async
<1>5. /\ target = step /\ target \in 1..Steps /\ tracker # EmptyTracker
  BY <1>1, <1>2, <1>3, <1>4, Ops, Numbers DEF Planned, Finalising, Ahead
<1>6. 0 \in DpRanks(job) /\ position[0] \in 0..Steps
  BY <1>3, Settings
<1>7. /\ disk' \in [1..Steps -> Directory]
      /\ \A s \in 1..Steps : s # target => disk'[s] = disk[s]
      /\ \A s \in 1..Steps : /\ disk'[s].actor = disk[s].actor
                             /\ disk'[s].critic = disk[s].critic
                             /\ disk'[s].weights = disk[s].weights
      /\ disk'[target].data[0] = position[0]
      /\ \A q \in DpRanks(job) : q # 0 => disk'[target].data[q] = disk[target].data[q]
  BY <1>1, <1>2, <1>5, <1>6, DataWritten
(* Asynchronously, the save of the actor is still to be finalised. *)
<1>8. durable' = durable
  <2>1. Async => \E k \in DOMAIN pending : pending[k].step = target
    BY <1>1, <1>3, <1>4, <1>5 DEF Calls, Ahead
  <2> QED
    BY <1>4, <2>1 DEF WriteData, SaveGoesOn
<1>9. Types'
  BY <1>1, <1>2, <1>7, <1>8 DEF Types, Directory, AsyncCall
<1>10. Planned'
  BY <1>1, <1>2, <1>4, <1>5 DEF Planned, Ahead, Finalising, Async
<1>11. Reading'
  <2>1. ASSUME ~Asynchronous, NEW s \in 1..Steps, NEW q \in DpRanks(job)
        PROVE  disk'[s].data[q] <= s
    <3>1. disk[s].data[q] <= s /\ position[0] <= step
      BY <1>1, <1>6, <2>1 DEF Reading
    <3> QED
      BY <1>5, <1>7, <3>1
  <2> QED
    BY <1>1, <1>2, <2>1 DEF Reading, Asynchronous
<1>12. Trained'
  BY <1>1, <1>2 DEF Trained, Taken, Slack, Asynchronous
<1>13. Named'
  <2>1. Ordered(job) => tracker < target
    BY <1>1, <1>4 DEF Named, Ahead
  <2>2. ASSUME Ordered(job), tracker \in 1..Steps PROVE disk'[tracker] = disk[tracker]
    BY <2>1, <2>2, <1>5, <1>7
  <2> QED
    BY <1>1, <1>2, <1>4, <2>2 DEF Named, Ahead, PartsWhole, Most, Slack, Asynchronous
(* What is in the weights has been read by now, and only what is in flight *)
(* has been read besides.                                                  *)
<1>14. Ordered(job) => Fits(disk'[target], target, Most)
  <2> SUFFICES ASSUME Ordered(job) PROVE Fits(disk'[target], target, Most)
    OBVIOUS
  <2>1. disk'[target].weights = weights
    BY <1>1, <1>2, <1>4, <1>5, <1>7 DEF Saved, Ahead
  <2>2. weights \subseteq {0} \X (1..Taken) /\ Cardinality(weights) = step
        /\ Taken <= step + Slack(restarts)
    BY <1>1 DEF Trained
  <2>3. restarts \in Nat /\ inflight \in Seq(1..Steps) /\ Len(inflight) <= Lead
        /\ (~Asynchronous => inflight = <<>>)
    BY <1>1, Numbers DEF Types, Reading
  <2> DEFINE n == Len(inflight)
             p == position[0]
             now == Slack(restarts)
             then == Slack(restarts + 1)
  <2>4. n \in Nat /\ (~Asynchronous => n = 0) /\ n <= Lead /\ p \in 0..Steps
    BY <1>6, <2>3
  <2>5. /\ now \in Nat /\ then \in Nat /\ (~Asynchronous => now = 0 /\ then = 0)
        /\ Asynchronous => then = now + Lead
    BY <2>3, Slacks
  <2>6. Taken = p - n /\ Most = then
    BY DEF Taken, Most
  <2> HIDE DEF n, p, now, then
  <2>7. p - n <= p /\ p <= step + then
    <3>1. p - n <= step + now
      BY <2>2, <2>6 DEF now
    <3> QED
      BY <1>3, <2>4, <2>5, <3>1, Numbers
  <2>8. weights \subseteq {0} \X (1..p)
    BY <2>2, <2>4, <2>6, <2>7
  <2>9. p # NoFile
    BY <2>4, Numbers DEF NoFile
  <2> QED
    BY <1>5, <1>7, <2>1, <2>2, <2>6, <2>7, <2>8, <2>9 DEF Fits, p
<1>15. Most' = Most
  BY <1>2 DEF Most, Slack, Asynchronous
<1>16. Saved'
  <2>1. ~Async => /\ disk[target].actor = "whole" /\ LastOf(previous_saved_paths.actor, target)
                  /\ job.critic => /\ disk[target].critic = "whole"
                                   /\ LastOf(previous_saved_paths.critic, target)
    BY <1>1, <1>2, <1>4 DEF Saved, Ahead
  <2> QED
    BY <1>2, <1>4, <1>5, <1>7, <1>14, <1>15, <2>1 DEF Saved, Ahead, Async, PartsWhole
<1>17. Rotating'
  BY <1>1, <1>2, <1>4 DEF Rotating, Ahead, Async
<1>18. Advanced'
  BY <1>1, <1>2, <1>4, <1>7, <1>8 DEF Advanced, Ahead
<1>19. Calls'
  <2> SUFFICES ASSUME Async PROVE Calls'
    BY <1>2 DEF Calls, Async
  <2>1. ASSUME NEW k \in 1..Len(pending)
        PROVE  LET c == pending[k]
               IN  /\ c.step <= step /\ tracker <= c.step /\ durable <= c.step
                   /\ disk'[c.step].actor # "none"
                   /\ c.written => disk'[c.step][c.part] = "whole"
                   /\ ~job.critic => c.part = "actor"
                   /\ Ordered(job) => Fits(disk'[c.step], c.step, Most)
    <3> DEFINE c == pending[k]
    <3>1. c.step \in 1..Steps /\ c.part \in {"actor", "critic"}
      <4>1. c \in AsyncCall
        BY <1>3, ElementOfSeq
      <4> QED
        BY <4>1 DEF AsyncCall
    <3>2. /\ c.step <= step /\ tracker <= c.step /\ durable <= c.step
          /\ disk[c.step].actor # "none"
          /\ c.written => disk[c.step][c.part] = "whole"
          /\ ~job.critic => c.part = "actor"
          /\ Ordered(job) => Fits(disk[c.step], c.step, Most) \/ c.step = step
      BY <1>1 DEF Calls
    <3> HIDE DEF c
    <3> QED
      BY <1>5, <1>7, <1>14, <3>1, <3>2 DEF c
  <2>2. /\ UNCHANGED <<job, step, pending, tracker>> /\ durable' = durable /\ Async' /\ ~Finalising'
        /\ ~Ahead(BeginActor)' /\ ~Ahead(BeginCritic)' /\ ~Ahead(Data)'
    BY <1>2, <1>4, <1>8 DEF Ahead, Finalising, Async
  <2>3. \A k, l \in 1..Len(pending) : k <= l => pending[k].step <= pending[l].step
    BY <1>1 DEF Calls
  <2> QED
    BY <2>1, <2>2, <2>3, <1>15 DEF Calls
<1>20. Finishing'
  <2>1. /\ Async' = Async /\ Asynchronous' = Asynchronous /\ (~Async => todo' # <<>>)
        /\ Async => ~Finalising /\ ~Ahead(BeginActor) /\ ~Ahead(BeginCritic)
        /\ trainer = "running" /\ UNCHANGED <<job, trainer, step, tracker, target, pending>>
    BY <1>2, <1>4 DEF Async, Asynchronous, Ahead, Finalising
  <2>2. ASSUME Async, step = Steps, ~Asynchronous
        PROVE  /\ \A part \in {"actor"} \cup (IF job.critic THEN {"critic"} ELSE {}) :
                    \/ disk'[Steps][part] = "whole"
                    \/ \E k \in 1..Len(pending) : pending[k].part = part /\ pending[k].step = Steps
               /\ \/ tracker = Steps
                  \/ \E k \in 1..Len(pending) : pending[k].step = Steps
    <3>1. /\ \A part \in {"actor"} \cup (IF job.critic THEN {"critic"} ELSE {}) :
               \/ disk[Steps][part] = "whole"
               \/ \E k \in 1..Len(pending) : pending[k].part = part /\ pending[k].step = Steps
          /\ \/ tracker = Steps
             \/ \E k \in 1..Len(pending) : pending[k].step = Steps
      BY <1>1, <2>1, <2>2 DEF Finishing, BeginActor, BeginCritic
    <3>2. disk'[Steps].actor = disk[Steps].actor /\ disk'[Steps].critic = disk[Steps].critic
      BY <1>7, Numbers
    <3> QED
      BY <3>1, <3>2
  <2> QED
    BY <2>1, <2>2 DEF Finishing
<1>21. Directories'
  <2>1. UNCHANGED <<job, restarts, previous_saved_paths>> /\ Head(todo) # EndActor
        /\ (todo' # <<>> => Head(todo') # EndActor)
    BY <1>2, <1>4, Ops
  <2> QED
    BY <1>1, <1>7, <2>1 DEF Directories
<1> QED
  BY <1>9, <1>10, <1>11, <1>12, <1>13, <1>16, <1>17, <1>18, <1>19, <1>20, <1>21 DEF CkptInv

LEMMA WriteLateDataKeeps ==
  ASSUME CkptInv, NEW r \in late, WriteLateData(r)
  PROVE  CkptInv'
<1> DEFINE others == <<job, trainer, step, weights, position, inflight, todo, target,
                       previous_saved_paths, pending, tracker, restarts>>
<1>1. Types /\ Planned /\ Reading /\ Trained /\ Named /\ Saved /\ Rotating /\ Advanced /\ Calls
      /\ Finishing /\ Directories
  BY DEF CkptInv
<1>2. /\ trainer = "running" /\ late' = late \ {r} /\ UNCHANGED others
      /\ disk' = [disk EXCEPT ![target].data[r] = position[r]]
      /\ durable' = IF todo = <<>> /\ late' = {} THEN target ELSE durable
  BY DEF WriteLateData
<1>3. /\ job \in CkptJobs /\ job.trainer = "sft" /\ late \in SUBSET {1}
      /\ target = step /\ target \in 1..Steps /\ r \in DpRanks(job)
      /\ ~Ahead(BeginActor) /\ ~Ahead(EndActor) /\ LastOf(previous_saved_paths.actor, target)
      /\ job.manager = "fsdp" /\ step \in 0..Steps /\ durable \in 0..Steps
      /\ position \in [DpRanks(job) -> 0..Steps] /\ tracker \in EmptyTracker..Steps
  <2>1. job \in CkptJobs /\ late \in SUBSET {1} /\ step \in 0..Steps /\ durable \in 0..Steps
        /\ position \in [DpRanks(job) -> 0..Steps] /\ tracker \in EmptyTracker..Steps
    BY <1>1 DEF Types
  <2>2. /\ job.trainer = "sft" /\ target = step /\ target \in 1..step
        /\ ~Ahead(BeginActor) /\ ~Ahead(EndActor) /\ LastOf(previous_saved_paths.actor, target)
    BY <1>1 DEF Planned
  <2>3. job.manager = "fsdp" /\ r \in DpRanks(job)
    BY <2>1, <2>2, Settings
  <2>4. target \in 1..Steps
    BY <2>1, <2>2, Numbers
  <2> QED
    BY <2>1, <2>2, <2>3, <2>4
<1>4. ~Asynchronous /\ ~Async /\ ~Ordered(job)
  BY <1>3 DEF Asynchronous, Async, Ordered
<1>5. /\ disk' \in [1..Steps -> Directory]
      /\ \A s \in 1..Steps : s # target => disk'[s] = disk[s]
      /\ \A s \in 1..Steps : /\ disk'[s].actor = disk[s].actor
                             /\ disk'[s].critic = disk[s].critic
                             /\ disk'[s].weights = disk[s].weights
      /\ disk'[target].data[r] = position[r]
      /\ \A q \in DpRanks(job) : q # r => disk'[target].data[q] = disk[target].data[q]
  BY <1>1, <1>2, <1>3, DataWritten
<1>6. Types'
  BY <1>1, <1>2, <1>3, <1>5 DEF Types, Directory, AsyncCall
<1>7. Planned'
  BY <1>1, <1>2, <1>3 DEF Planned, Ahead, Finalising, Async
<1>8. Reading'
  <2>1. ASSUME NEW s \in 1..Steps, NEW q \in DpRanks(job)
        PROVE  disk'[s].data[q] <= s
    <3>1. disk[s].data[q] <= s /\ position[r] <= step
      BY <1>1, <1>3, <1>4 DEF Reading
    <3> QED
      BY <1>3, <1>5, <3>1
  <2> QED
    BY <1>1, <1>2, <1>4, <2>1 DEF Reading, Asynchronous
<1>9. Trained' /\ Named'
  BY <1>2, <1>4 DEF Trained, Named, Ordered
<1>10. Saved'
  BY <1>1, <1>2, <1>4, <1>5, <1>3 DEF Saved, Ahead, Async, Ordered
<1>11. Rotating'
  BY <1>1, <1>2 DEF Rotating, Ahead, Async
(* The tracker may name the new step before this file is there, but the    *)
(* save has not ended until it is.                                         *)
<1>12. Advanced'
  <2> SUFFICES ASSUME job.keep # 1 PROVE Advanced'
    BY <1>2 DEF Advanced
  <2>1. /\ tracker <= step /\ durable <= step
        /\ tracker \in 1..Steps => disk[tracker].actor # "none"
        /\ tracker # EmptyTracker => durable <= tracker
    BY <1>1, <1>2 DEF Advanced
  <2>2. todo = <<>> => tracker = target
    BY <1>1, <1>3, <1>4 DEF Rotating, LastOf
  <2>3. durable' <= step /\ (tracker # EmptyTracker => durable' <= tracker)
    BY <1>2, <1>3, <2>1, <2>2
  <2> QED
    BY <1>1, <1>2, <1>3, <1>5, <2>1, <2>3 DEF Advanced, Ahead
<1>13. Calls'
  BY <1>2, <1>4 DEF Calls, Async
<1>14. Finishing'
  <2>1. disk'[Steps].actor = disk[Steps].actor /\ disk'[Steps].critic = disk[Steps].critic
    BY <1>5, Numbers
  <2>2. Async' = Async /\ Asynchronous' = Asynchronous
    BY <1>2 DEF Async, Asynchronous
  <2> QED
    BY <1>1, <1>2, <1>4, <2>1, <2>2 DEF Finishing, PartsWhole
<1>15. Directories'
  BY <1>1, <1>2, <1>5 DEF Directories
<1> QED
  BY <1>6, <1>7, <1>8, <1>9, <1>10, <1>11, <1>12, <1>13, <1>14, <1>15 DEF CkptInv

LEMMA TruncateKeeps ==
  ASSUME CkptInv, WriteTrackerFile, Head(todo) = Truncate
  PROVE  CkptInv'
<1> DEFINE others == <<job, trainer, step, weights, position, inflight, target, late,
                       previous_saved_paths, pending, disk, restarts>>
<1>1. Types /\ Planned /\ Reading /\ Trained /\ Named /\ Saved /\ Rotating /\ Advanced /\ Calls
      /\ Finishing /\ Directories
  BY DEF CkptInv
<1>2. /\ trainer = "running" /\ todo # <<>> /\ todo' = Tail(todo)
      /\ UNCHANGED others /\ tracker' = EmptyTracker
  BY Ops DEF WriteTrackerFile, AtDiskOp, SaveGoesOn, Truncate, Name
<1>3. /\ job \in CkptJobs /\ Left(job, todo) /\ pending \in Seq(AsyncCall)
      /\ step \in 0..Steps /\ tracker \in EmptyTracker..Steps /\ durable \in 0..Steps
      /\ target \in 1..Steps
  <2>1. /\ job \in CkptJobs /\ Left(job, todo) /\ pending \in Seq(AsyncCall)
        /\ step \in 0..Steps /\ tracker \in EmptyTracker..Steps /\ durable \in 0..Steps
        /\ target \in 1..step
    BY <1>1, <1>2 DEF Types, Planned
  <2> QED
    BY <2>1, Numbers
<1>4. /\ Left(job, Tail(todo)) /\ Tail(todo) # <<>> /\ Head(Tail(todo)) = Name
      /\ Within(Name, todo) /\ Within(Name, Tail(todo))
      /\ ~Within(BeginActor, todo) /\ ~Within(BeginActor, Tail(todo))
      /\ ~Within(EndActor, todo) /\ ~Within(EndActor, Tail(todo))
      /\ Within(Data, Tail(todo)) <=> Within(Data, todo)
      /\ Within(BeginCritic, Tail(todo)) <=> Within(BeginCritic, todo)
      /\ Within(EndCritic, Tail(todo)) <=> Within(EndCritic, todo)
      /\ job.manager = "fsdp" => ~Within(BeginCritic, todo)
      /\ Async => ~Within(BeginCritic, todo) /\ ~Within(EndCritic, todo) /\ ~Within(Data, todo)
  BY <1>2, <1>3, AtTruncate DEF Async
<1>5. durable' = durable /\ EmptyTracker = -1
  BY <1>4 DEF WriteTrackerFile, SaveGoesOn, EmptyTracker
<1>6. Types'
  BY <1>1, <1>2, <1>5, Numbers DEF Types, Directory, AsyncCall
<1>7. Planned'
  BY <1>1, <1>2, <1>4 DEF Planned, Ahead, Finalising, Async
<1>8. Reading' /\ Trained'
  BY <1>1, <1>2 DEF Reading, Trained, Taken, Slack, Asynchronous
<1>9. Named'
  BY <1>2, <1>3, <1>5, Numbers DEF Named
<1>10. Saved'
  BY <1>1, <1>2, <1>4 DEF Saved, Ahead, Async, PartsWhole, Most, Slack, Asynchronous
<1>11. Rotating'
  BY <1>1, <1>2, <1>4 DEF Rotating, Ahead, Async
<1>12. Advanced'
  BY <1>1, <1>2, <1>3, <1>4, <1>5, Numbers DEF Advanced, Ahead
<1>13. Calls'
  <2> SUFFICES ASSUME Async PROVE Calls'
    BY <1>2 DEF Calls, Async
  <2>1. Finalising /\ Finalising' /\ Async' /\ UNCHANGED <<job, step, pending, disk, target, durable>>
        /\ ~Ahead(BeginActor)' /\ ~Ahead(BeginCritic)' /\ ~Ahead(Data)' /\ ~Ahead(Data)
    BY <1>2, <1>4, <1>5 DEF Ahead, Finalising, Async
  <2>2. \A k \in 1..Len(pending) : pending[k].step \in 1..Steps
    <3>1. \A k \in 1..Len(pending) : pending[k] \in AsyncCall
      BY <1>3, ElementOfSeq
    <3> QED
      BY <3>1 DEF AsyncCall
  <2>3. \A k \in 1..Len(pending) : tracker' <= pending[k].step
    BY <1>2, <1>5, <2>2, Numbers
  <2>4. tracker' <= target /\ Most' = Most
    BY <1>2, <1>3, <1>5, Numbers DEF Most, Slack, Asynchronous
  <2> QED
    BY <1>1, <2>1, <2>3, <2>4 DEF Calls
(* Asynchronously, what the tracker named is being replaced by what is not older. *)
<1>14. Finishing'
  <2>1. /\ Async' = Async /\ Asynchronous' = Asynchronous /\ (~Async => todo' # <<>>)
        /\ Async => /\ Finalising /\ Finalising' /\ ~Ahead(BeginActor) /\ ~Ahead(BeginCritic)
        /\ trainer = "running" /\ UNCHANGED <<job, trainer, step, target, pending, disk>>
    BY <1>2, <1>4 DEF Async, Asynchronous, Ahead, Finalising
  <2>2. ASSUME Async, step = Steps, ~Asynchronous
        PROVE  /\ \A part \in {"actor"} \cup (IF job.critic THEN {"critic"} ELSE {}) :
                    \/ disk[Steps][part] = "whole"
                    \/ \E k \in 1..Len(pending) : pending[k].part = part /\ pending[k].step = Steps
               /\ \/ target = Steps
                  \/ \E k \in 1..Len(pending) : pending[k].step = Steps
    <3>1. /\ \A part \in {"actor"} \cup (IF job.critic THEN {"critic"} ELSE {}) :
               \/ disk[Steps][part] = "whole"
               \/ \E k \in 1..Len(pending) : pending[k].part = part /\ pending[k].step = Steps
          /\ \/ tracker = Steps \/ target = Steps
             \/ \E k \in 1..Len(pending) : pending[k].step = Steps
      BY <1>1, <2>1, <2>2 DEF Finishing, BeginActor, BeginCritic
    <3>2. tracker <= target
      BY <1>1, <2>1, <2>2 DEF Calls
    <3>3. tracker = Steps => target = Steps
      BY <1>3, <3>2, Numbers
    <3> QED
      BY <3>1, <3>3
  <2> QED
    BY <2>1, <2>2 DEF Finishing
<1>15. Directories'
  <2>1. UNCHANGED <<job, restarts, previous_saved_paths, disk>> /\ Head(todo) # EndActor
        /\ Head(todo') # EndActor
    BY <1>2, <1>4, Ops
  <2> QED
    BY <1>1, <2>1 DEF Directories
<1> QED
  BY <1>6, <1>7, <1>8, <1>9, <1>10, <1>11, <1>12, <1>13, <1>14, <1>15 DEF CkptInv

LEMMA NameKeeps ==
  ASSUME CkptInv, WriteTrackerFile, Head(todo) = Name
  PROVE  CkptInv'
<1> DEFINE others == <<job, trainer, step, weights, position, inflight, target, late,
                       previous_saved_paths, pending, disk, restarts>>
<1>1. Types /\ Planned /\ Reading /\ Trained /\ Named /\ Saved /\ Rotating /\ Advanced /\ Calls
      /\ Finishing /\ Directories
  BY DEF CkptInv
<1>2. /\ trainer = "running" /\ todo # <<>> /\ todo' = Tail(todo)
      /\ UNCHANGED others /\ tracker' = target /\ durable' \in {durable, target}
  BY Ops DEF WriteTrackerFile, AtDiskOp, SaveGoesOn, Truncate, Name
<1>3. /\ job \in CkptJobs /\ Left(job, todo) /\ pending \in Seq(AsyncCall)
      /\ step \in 0..Steps /\ tracker \in EmptyTracker..Steps /\ durable \in 0..Steps
      /\ target \in 1..Steps /\ target <= step /\ EmptyTracker = -1
      /\ job.manager \in {"fsdp", "megatron", "async"}
  <2>1. /\ job \in CkptJobs /\ Left(job, todo) /\ pending \in Seq(AsyncCall)
        /\ step \in 0..Steps /\ tracker \in EmptyTracker..Steps /\ durable \in 0..Steps
        /\ target \in 1..step
    BY <1>1, <1>2 DEF Types, Planned
  <2> QED
    BY <2>1, Numbers, Settings DEF EmptyTracker
<1>4. /\ Left(job, Tail(todo)) /\ Within(Name, todo)
      /\ ~Within(BeginActor, todo) /\ ~Within(BeginActor, Tail(todo))
      /\ ~Within(EndActor, todo) /\ ~Within(EndActor, Tail(todo))
      /\ Within(Data, Tail(todo)) <=> Within(Data, todo)
      /\ Within(BeginCritic, Tail(todo)) <=> Within(BeginCritic, todo)
      /\ Within(EndCritic, Tail(todo)) <=> Within(EndCritic, todo)
      /\ job.manager # "megatron" =>
           /\ Tail(todo) = <<>> /\ ~Within(BeginCritic, todo) /\ ~Within(EndCritic, todo)
           /\ ~Within(Data, todo)
      /\ Tail(todo) # <<>> => Head(Tail(todo)) # EndActor /\ Within(Data, todo)
  BY <1>2, <1>3, AtName
<1>5. Async => Finalising /\ ~Ahead(BeginActor) /\ ~Ahead(BeginCritic) /\ ~Ahead(Data)
  BY <1>4 DEF Finalising, Ahead, Async
<1>6. ~Async => target = step
  BY <1>1, <1>2 DEF Planned, Finalising
<1>7. Types'
  BY <1>1, <1>2, <1>3, Numbers DEF Types, Directory, AsyncCall
<1>8. Planned'
  <2>1. todo' # <<>> => ~Async
    BY <1>2, <1>4 DEF Async
  <2> QED
    BY <1>1, <1>2, <1>3, <1>4, <1>6, <2>1 DEF Planned, Ahead, Finalising, Async
<1>9. Reading' /\ Trained'
  BY <1>1, <1>2 DEF Reading, Trained, Taken, Slack, Asynchronous
<1>10. Ordered(job) => job.manager # "megatron"
  BY DEF Ordered
<1>11. Named'
  <2>1. Ordered(job) => PartsWhole(target) /\ Fits(disk[target], target, Most)
    BY <1>1, <1>2, <1>4, <1>10 DEF Saved, Ahead
  <2> QED
    BY <1>2, <1>4, <1>10, <2>1 DEF Named, Ahead, PartsWhole, Most, Slack, Asynchronous
<1>12. Saved'
  BY <1>1, <1>2, <1>4 DEF Saved, Ahead, Async, PartsWhole, Most, Slack, Asynchronous
<1>13. Rotating'
  <2> SUFFICES ASSUME ~Async PROVE Rotating'
    BY <1>2 DEF Rotating, Async
  <2>1. LastOf(previous_saved_paths.actor, target)
    BY <1>1, <1>2, <1>4 DEF Saved, Ahead
  <2>2. job.manager = "fsdp" /\ previous_saved_paths.critic # <<>> =>
          LastOf(previous_saved_paths.critic, target)
    BY <1>1, <1>2, <1>4 DEF Saved, Ahead, Rotating
  <2>3. job.manager = "fsdp" => ~Ahead(BeginCritic)'
    BY <1>2, <1>4 DEF Ahead
  <2> QED
    BY <1>1, <1>2, <1>4, <2>1, <2>2, <2>3 DEF Rotating, Ahead, Async
<1>14. Advanced'
  <2> SUFFICES ASSUME job.keep # 1 PROVE Advanced'
    BY <1>2 DEF Advanced
  <2>1. durable <= step
    BY <1>1, <1>2 DEF Advanced
  <2>2. disk[target].actor # "none"
    <3>1. CASE Async
      BY <1>1, <1>5, <3>1 DEF Calls
    <3>2. CASE ~Async
      BY <1>1, <1>2, <1>4, <3>2 DEF Saved, Ahead
    <3> QED
      BY <3>1, <3>2
  <2>3. durable <= target
    <3>1. Async => durable <= target
      BY <1>1, <1>5 DEF Calls
    <3> QED
      BY <1>6, <2>1, <3>1
  <2>4. durable' <= step /\ durable' <= target
    BY <1>2, <1>3, <2>1, <2>3
  <2> QED
    BY <1>2, <1>3, <1>4, <2>2, <2>4 DEF Advanced, Ahead
<1>15. Calls'
  <2> SUFFICES ASSUME Async PROVE Calls'
    BY <1>2 DEF Calls, Async
  <2>1. Finalising /\ ~Finalising' /\ Async' /\ UNCHANGED <<job, step, pending, disk>>
        /\ ~Ahead(BeginActor)' /\ ~Ahead(BeginCritic)' /\ ~Ahead(Data)' /\ ~Ahead(Data)
    BY <1>2, <1>4 DEF Ahead, Finalising, Async, Within
  <2>2. \A k \in 1..Len(pending) : /\ target <= pending[k].step /\ durable <= pending[k].step
    BY <1>1, <2>1 DEF Calls
  <2>3. \A k \in 1..Len(pending) : /\ tracker' <= pending[k].step /\ durable' <= pending[k].step
    BY <1>2, <2>2
  <2>4. Most' = Most
    BY <1>2 DEF Most, Slack, Asynchronous
  <2> QED
    BY <1>1, <2>1, <2>3, <2>4 DEF Calls
<1>16. Finishing'
  <2>1. /\ Async' = Async /\ Asynchronous' = Asynchronous
        /\ trainer = "running" /\ UNCHANGED <<job, trainer, step, target, pending, disk>>
        /\ tracker' = target
    BY <1>2 DEF Async, Asynchronous
  <2>2. ASSUME Async, step = Steps, ~Asynchronous
        PROVE  /\ \A part \in {"actor"} \cup (IF job.critic THEN {"critic"} ELSE {}) :
                    \/ disk[Steps][part] = "whole"
                    \/ \E k \in 1..Len(pending) : pending[k].part = part /\ pending[k].step = Steps
               /\ \/ target = Steps
                  \/ \E k \in 1..Len(pending) : pending[k].step = Steps
    <3>1. /\ \A part \in {"actor"} \cup (IF job.critic THEN {"critic"} ELSE {}) :
               \/ disk[Steps][part] = "whole"
               \/ \E k \in 1..Len(pending) : pending[k].part = part /\ pending[k].step = Steps
          /\ \/ tracker = Steps \/ target = Steps
             \/ \E k \in 1..Len(pending) : pending[k].step = Steps
      BY <1>1, <1>2, <1>5, <2>2 DEF Finishing, BeginActor, BeginCritic
    <3>2. tracker <= target
      BY <1>1, <1>5, <2>2 DEF Calls
    <3>3. tracker = Steps => target = Steps
      BY <1>3, <3>2, Numbers
    <3> QED
      BY <3>1, <3>3
  <2>3. ASSUME ~Async, step = Steps, todo' = <<>>
        PROVE  target = Steps /\ PartsWhole(Steps)'
    <3>1. ~Within(Data, todo) /\ ~Within(BeginActor, todo) /\ ~Within(EndActor, todo)
          /\ ~Within(BeginCritic, todo) /\ ~Within(EndCritic, todo)
      BY <1>2, <1>4, <2>3, Nothing
    <3>2. PartsWhole(target)
      BY <1>1, <1>2, <2>3, <3>1 DEF Saved, Ahead, PartsWhole
    <3> QED
      BY <1>2, <1>6, <2>3, <3>2 DEF PartsWhole
  <2> QED
    BY <2>1, <2>2, <2>3 DEF Finishing
<1>17. Directories'
  <2>1. UNCHANGED <<job, restarts, previous_saved_paths, disk>> /\ Head(todo) # EndActor
        /\ (todo' # <<>> => Head(todo') # EndActor)
    BY <1>2, <1>4, Ops
  <2> QED
    BY <1>1, <2>1 DEF Directories
<1> QED
  BY <1>7, <1>8, <1>9, <1>11, <1>12, <1>13, <1>14, <1>15, <1>16, <1>17 DEF CkptInv

LEMMA AsyncWrittenKeeps ==
  ASSUME CkptInv, AsyncWritten
  PROVE  CkptInv'
<1> DEFINE others == <<job, trainer, step, weights, position, inflight, todo, target, late,
                       previous_saved_paths, tracker, durable, restarts>>
<1>1. Types /\ Planned /\ Reading /\ Trained /\ Named /\ Saved /\ Rotating /\ Advanced /\ Calls
      /\ Finishing /\ Directories
  BY DEF CkptInv
<1>2. PICK i \in DOMAIN pending :
        /\ pending' = [pending EXCEPT ![i].written = TRUE]
        /\ disk' = [disk EXCEPT ![pending[i].step][pending[i].part] = "whole"]
        /\ UNCHANGED others
  BY DEF AsyncWritten
<1> DEFINE n == Len(pending)
<1>3. /\ job \in CkptJobs /\ disk \in [1..Steps -> Directory] /\ pending \in Seq(AsyncCall)
      /\ n \in Nat /\ i \in 1..n /\ DOMAIN pending = 1..n
  BY <1>1, <1>2 DEF Types
<1>4. Async /\ job.keep = 0
  <2>1. pending # <<>>
    BY <1>3
  <2> QED
    BY <1>1, <1>3, <2>1, Settings DEF Rotating, Async
<1>5. ASSUME NEW k \in 1..n
      PROVE  pending[k] \in AsyncCall /\ pending[k].step \in 1..Steps
             /\ pending[k].part \in {"actor", "critic"}
  <2>1. pending[k] \in AsyncCall
    BY <1>3, ElementOfSeq
  <2> QED
    BY <2>1 DEF AsyncCall
<1> DEFINE s == pending[i].step
           part == pending[i].part
           call == [pending[i] EXCEPT !.written = TRUE]
           dir == [disk[s] EXCEPT ![part] = "whole"]
<1>6. s \in 1..Steps /\ part \in {"actor", "critic"}
  BY <1>3, <1>5
<1>7. /\ call \in AsyncCall /\ call.step = s /\ call.part = part
  <2>1. pending[i] \in AsyncCall
    BY <1>3, <1>5
  <2> QED
    BY <2>1 DEF AsyncCall
<1>8. pending' = [pending EXCEPT ![i] = call]
  BY <1>2
<1>9. disk' = [disk EXCEPT ![s] = dir]
  BY <1>2
<1> HIDE DEF call
<1>10. /\ pending' \in Seq(AsyncCall) /\ Len(pending') = n /\ pending'[i] = call
       /\ \A k \in 1..n : k # i => pending'[k] = pending[k]
  BY <1>3, <1>7, <1>8, ExceptSeq
<1>11. /\ dir \in Directory /\ dir[part] = "whole"
       /\ dir.data = disk[s].data /\ dir.weights = disk[s].weights
       /\ dir.actor \in {disk[s].actor, "whole"} /\ dir.critic \in {disk[s].critic, "whole"}
  <2>1. disk[s] \in Directory
    BY <1>3, <1>6
  <2> HIDE DEF s, part
  <2> QED
    BY <1>6, <2>1 DEF Directory
<1> HIDE DEF dir, s, part
<1>12. disk' \in [1..Steps -> Directory] /\ disk'[s][part] = "whole"
  BY <1>3, <1>6, <1>9, <1>11
<1>13. ASSUME NEW x \in 1..Steps
       PROVE  /\ disk'[x].data = disk[x].data /\ disk'[x].weights = disk[x].weights
              /\ disk'[x].actor \in {disk[x].actor, "whole"}
              /\ disk'[x].critic \in {disk[x].critic, "whole"}
  BY <1>3, <1>6, <1>9, <1>11
<1>14. ASSUME NEW k \in 1..n
       PROVE  pending'[k].step = pending[k].step /\ pending'[k].part = pending[k].part
              /\ (pending'[k].written => pending[k].written \/ k = i)
  BY <1>3, <1>7, <1>10 DEF s, part
<1>15. Types'
  BY <1>1, <1>2, <1>10, <1>12 DEF Types, Directory, AsyncCall
<1>16. Planned'
  BY <1>1, <1>2 DEF Planned, Ahead, Finalising, Async
<1>17. Reading'
  BY <1>1, <1>2, <1>13 DEF Reading, Asynchronous
<1>18. Trained'
  BY <1>1, <1>2 DEF Trained, Taken, Slack, Asynchronous
<1>19. Most' = Most /\ Ordered(job)' = Ordered(job)
  BY <1>2 DEF Most, Slack, Asynchronous, Ordered
<1>20. ASSUME NEW x \in 1..Steps
       PROVE  /\ Fits(disk[x], x, Most) => Fits(disk'[x], x, Most)
              /\ disk[x].actor = "whole" => disk'[x].actor = "whole"
              /\ disk[x].critic = "whole" => disk'[x].critic = "whole"
              /\ disk[x].actor # "none" => disk'[x].actor # "none"
  BY <1>13 DEF Fits
<1>21. Named'
  BY <1>1, <1>2, <1>19, <1>20 DEF Named, PartsWhole, Ahead
<1>22. Saved'
  <2>1. todo # <<>> => target \in 1..Steps
    <3>1. todo # <<>> => target \in 1..step /\ step \in 0..Steps
      BY <1>1 DEF Planned, Types
    <3> QED
      BY <3>1, Numbers
  <2> QED
    BY <1>1, <1>2, <1>4, <1>13, <1>19, <1>20, <2>1 DEF Saved, PartsWhole, Ahead, Async
<1>23. Rotating'
  BY <1>2, <1>4 DEF Rotating, Async
<1>24. Advanced'
  BY <1>1, <1>2, <1>20 DEF Advanced, Ahead
<1>25. Calls'
  <2>1. ASSUME NEW k \in 1..n
        PROVE  LET c == pending'[k]
               IN /\ c.step <= step /\ tracker <= c.step /\ durable <= c.step
                  /\ Ahead(BeginActor) => c.step < step
                  /\ Ahead(BeginCritic) /\ c.part = "critic" => c.step < step
                  /\ disk'[c.step].actor # "none"
                  /\ Finalising => target <= c.step
                  /\ c.written => disk'[c.step][c.part] = "whole"
                  /\ ~job.critic => c.part = "actor"
                  /\ Ordered(job) => Fits(disk'[c.step], c.step, Most) \/ (Ahead(Data) /\ c.step = step)
    <3> DEFINE c == pending[k]
    <3>1. /\ c.step <= step /\ tracker <= c.step /\ durable <= c.step
          /\ Ahead(BeginActor) => c.step < step
          /\ Ahead(BeginCritic) /\ c.part = "critic" => c.step < step
          /\ disk[c.step].actor # "none"
          /\ Finalising => target <= c.step
          /\ c.written => disk[c.step][c.part] = "whole"
          /\ ~job.critic => c.part = "actor"
          /\ Ordered(job) => Fits(disk[c.step], c.step, Most) \/ (Ahead(Data) /\ c.step = step)
      BY <1>1, <1>4 DEF Calls
    <3>2. c.step \in 1..Steps /\ c.part \in {"actor", "critic"}
      BY <1>5
    <3>3. pending'[k].written => disk'[c.step][c.part] = "whole"
      <4>1. CASE k = i
        BY <4>1, <1>12 DEF s, part
      <4>2. CASE k # i
        BY <4>2, <1>14, <1>20, <3>1, <3>2
      <4> QED
        BY <4>1, <4>2
    <3> HIDE DEF c
    <3> QED
      BY <1>14, <1>20, <3>1, <3>2, <3>3 DEF c
  <2>2. \A k, l \in 1..n : k <= l => pending'[k].step <= pending'[l].step
    BY <1>1, <1>4, <1>14 DEF Calls
  <2>3. /\ Finalising => tracker <= target /\ durable <= target /\ disk'[target].actor # "none"
        /\ Ahead(Data) /\ ~Ahead(BeginActor) => \E k \in 1..n : pending'[k].step = step
    <3>1. Finalising => target \in 1..step /\ step \in 0..Steps
      BY <1>1, Nothing DEF Planned, Types, Finalising, Ahead
    <3>2. Finalising => target \in 1..Steps
      BY <3>1, Numbers
    <3> QED
      BY <1>1, <1>4, <1>14, <1>20, <3>2 DEF Calls
  <2>4. /\ UNCHANGED <<job, step, tracker, durable, target>> /\ Finalising' = Finalising
        /\ Ahead(BeginActor)' = Ahead(BeginActor) /\ Ahead(BeginCritic)' = Ahead(BeginCritic)
        /\ Ahead(Data)' = Ahead(Data)
    BY <1>2 DEF Ahead, Finalising, Async
  <2> QED
    BY <1>10, <1>19, <2>1, <2>2, <2>3, <2>4 DEF Calls
<1>26. Finishing'
  <2>1. Async' /\ Asynchronous' = Asynchronous /\ Finalising' = Finalising
        /\ Ahead(BeginActor)' = Ahead(BeginActor) /\ Ahead(BeginCritic)' = Ahead(BeginCritic)
        /\ UNCHANGED <<job, step, trainer, tracker, target, todo>>
    BY <1>2, <1>4 DEF Ahead, Finalising, Async, Asynchronous
  <2>2. \A q \in {"actor", "critic"} : disk[Steps][q] = "whole" => disk'[Steps][q] = "whole"
    BY <1>20, Numbers
  <2> DEFINE Parted == {"actor"} \cup (IF job.critic THEN {"critic"} ELSE {})
  <2>3. ASSUME ~Asynchronous, step = Steps, trainer = "running", NEW q \in Parted
        PROVE  \/ Ahead(<<"begin", q>>)' \/ disk'[Steps][q] = "whole"
               \/ \E k \in 1..n : pending'[k].part = q /\ pending'[k].step = Steps
    <3>1. \/ Ahead(<<"begin", q>>) \/ disk[Steps][q] = "whole"
          \/ \E k \in 1..n : pending[k].part = q /\ pending[k].step = Steps
      BY <1>1, <1>4, <2>3 DEF Finishing
    <3>2. Ahead(<<"begin", q>>)' = Ahead(<<"begin", q>>)
      BY <1>2 DEF Ahead
    <3> HIDE DEF n
    <3> QED
      BY <1>14, <2>2, <2>3, <3>1, <3>2
  <2>4. ASSUME ~Asynchronous, step = Steps, trainer = "running"
        PROVE  \/ Ahead(BeginActor) \/ tracker = Steps \/ (Finalising /\ target = Steps)
               \/ \E k \in 1..n : pending'[k].step = Steps
    <3>1. \/ Ahead(BeginActor) \/ tracker = Steps \/ (Finalising /\ target = Steps)
          \/ \E k \in 1..n : pending[k].step = Steps
      BY <1>1, <1>4, <2>4 DEF Finishing
    <3> HIDE DEF n
    <3> QED
      BY <1>14, <3>1
  <2>5. trainer = "done" /\ ~Asynchronous => tracker = Steps /\ PartsWhole(Steps)'
    BY <1>1, <2>1, <2>2 DEF Finishing, PartsWhole
  <2> QED
    BY <1>10, <2>1, <2>3, <2>4, <2>5 DEF Finishing
<1>27. Directories'
  BY <1>2, <1>4 DEF Directories
<1> QED
  BY <1>15, <1>16, <1>17, <1>18, <1>21, <1>22, <1>23, <1>24, <1>25, <1>26, <1>27 DEF CkptInv

LEMMA FinaliseKeeps ==
  ASSUME CkptInv, Finalise
  PROVE  CkptInv'
<1> DEFINE others == <<job, trainer, step, weights, position, inflight, late,
                       previous_saved_paths, disk, tracker, durable, restarts>>
           n == Len(pending)
           first == Head(pending)
           rest == Tail(pending)
<1>1. Types /\ Planned /\ Reading /\ Trained /\ Named /\ Saved /\ Rotating /\ Advanced /\ Calls
      /\ Finishing /\ Directories
  BY DEF CkptInv
<1>2. /\ trainer = "running" /\ todo = <<>> /\ late = {} /\ pending # <<>> /\ first.written
      /\ todo' = T2 /\ target' = first.step /\ pending' = rest /\ UNCHANGED others
  BY DEF Finalise, AtTop, Saving, FinaliseDue, Finalised, WriteTracker, T2, Truncate, Name
<1>3. /\ job \in CkptJobs /\ pending \in Seq(AsyncCall) /\ disk \in [1..Steps -> Directory]
      /\ step \in 0..Steps /\ tracker \in EmptyTracker..Steps /\ durable \in 0..Steps
  BY <1>1 DEF Types
<1>4. Async /\ job.keep = 0
  BY <1>1, <1>2, <1>3, Settings DEF Rotating, Async
<1>5. /\ T2 # <<>> /\ Head(T2) = Truncate
      /\ Within(Name, T2) /\ ~Within(Data, T2) /\ ~Within(BeginActor, T2) /\ ~Within(EndActor, T2)
      /\ ~Within(BeginCritic, T2) /\ ~Within(EndCritic, T2)
  BY OfT, Ops
<1>6. ~Ahead(Data) /\ ~Ahead(BeginActor) /\ ~Ahead(BeginCritic) /\ ~Finalising
  BY <1>2, Nothing DEF Ahead, Finalising
<1>7. /\ n \in Nat \ {0} /\ rest \in Seq(AsyncCall) /\ Len(rest) = n - 1
      /\ first = pending[1] /\ \A k \in 1..n - 1 : rest[k] = pending[k + 1]
  BY <1>2, <1>3, HeadTailProperties, EmptySeq
<1>8. \A k \in 1..n : pending[k].step \in 1..Steps /\ pending[k].part \in {"actor", "critic"}
  <2>1. \A k \in 1..n : pending[k] \in AsyncCall
    BY <1>3, ElementOfSeq
  <2> QED
    BY <2>1 DEF AsyncCall
<1> HIDE DEF n, first, rest
<1>9. /\ \A k, l \in 1..n : k <= l => pending[k].step <= pending[l].step
      /\ \A k \in 1..n :
           LET c == pending[k]
           IN /\ c.step <= step /\ tracker <= c.step /\ durable <= c.step
              /\ disk[c.step].actor # "none"
              /\ c.written => disk[c.step][c.part] = "whole"
              /\ ~job.critic => c.part = "actor"
              /\ Ordered(job) => Fits(disk[c.step], c.step, Most)
  BY <1>1, <1>4, <1>6 DEF Calls, n
<1>10. \A k \in 1..n - 1 : k + 1 \in 1..n /\ 1 <= k + 1 /\ rest[k] = pending[k + 1]
  BY <1>7
<1>11. 1 \in 1..n
  BY <1>7
<1>12. /\ first.step \in 1..Steps /\ first.step <= step
       /\ tracker <= first.step /\ durable <= first.step /\ disk[first.step].actor # "none"
       /\ disk[first.step][first.part] = "whole" /\ (~job.critic => first.part = "actor")
       /\ Ordered(job) => Fits(disk[first.step], first.step, Most)
  BY <1>2, <1>7, <1>8, <1>9, <1>11
<1>13. Types'
  <2>1. target' \in 0..Steps
    BY <1>2, <1>12, Numbers
  <2> QED
    BY <1>1, <1>2, <1>7, <2>1 DEF Types, Directory, AsyncCall
<1>14. tracker # EmptyTracker
  BY <1>1, <1>2 DEF Planned
<1>15. Left(job, T2)
  BY <1>3, <1>4, Settings DEF Left, Async
<1>16. Finalising' /\ Async'
  BY <1>2, <1>4, <1>5 DEF Finalising, Ahead, Async
<1>17. Planned'
  <2>1. target' \in 1..step
    BY <1>2, <1>3, <1>12
  <2> QED
    BY <1>2, <1>14, <1>15, <1>16, <2>1 DEF Planned
<1>18. Reading' /\ Trained'
  BY <1>1, <1>2 DEF Reading, Trained, Taken, Slack, Asynchronous
<1>19. Most' = Most
  BY <1>2 DEF Most, Slack, Asynchronous
<1>20. ~Ahead(Data)' /\ ~Ahead(BeginActor)' /\ ~Ahead(BeginCritic)'
  BY <1>2, <1>5 DEF Ahead
<1>21. Named'
  BY <1>1, <1>2, <1>19, <1>20 DEF Named, PartsWhole
<1>22. Saved'
  <2>1. Ordered(job) => PartsWhole(target)'
    BY <1>2, <1>4, <1>12 DEF Ordered, PartsWhole, Async
  <2> QED
    BY <1>2, <1>12, <1>16, <1>19, <1>20, <2>1 DEF Saved
<1>23. Rotating'
  BY <1>16 DEF Rotating
<1>24. Advanced'
  BY <1>1, <1>2, <1>20 DEF Advanced
<1>25. Calls'
  <2>1. \A k, l \in 1..n - 1 : k <= l => rest[k].step <= rest[l].step
    <3> TAKE k, l \in 1..n - 1
    <3> HAVE k <= l
    <3>1. k + 1 \in 1..n /\ l + 1 \in 1..n /\ k + 1 <= l + 1
      BY <1>7
    <3> QED
      BY <1>9, <1>10, <3>1
  <2>2. ASSUME NEW k \in 1..n - 1
        PROVE  LET c == rest[k]
               IN /\ c.step <= step /\ tracker <= c.step /\ durable <= c.step
                  /\ disk[c.step].actor # "none" /\ first.step <= c.step
                  /\ c.written => disk[c.step][c.part] = "whole"
                  /\ ~job.critic => c.part = "actor"
                  /\ Ordered(job) => Fits(disk[c.step], c.step, Most)
    <3>1. first.step <= rest[k].step
      BY <1>7, <1>9, <1>10, <1>11
    <3> QED
      BY <1>9, <1>10, <3>1
  <2>3. Len(pending') = n - 1
    BY <1>2, <1>7
  <2> QED
    BY <1>2, <1>12, <1>16, <1>19, <1>20, <2>1, <2>2, <2>3 DEF Calls
<1>26. Finishing'
  <2> DEFINE parts == {"actor"} \cup (IF job.critic THEN {"critic"} ELSE {})
  <2>1. ASSUME ~Asynchronous, step = Steps, NEW q \in parts
        PROVE  \/ disk[Steps][q] = "whole"
               \/ \E k \in 1..n - 1 : rest[k].part = q /\ rest[k].step = Steps
    <3>1. \/ disk[Steps][q] = "whole"
          \/ \E k \in 1..n : pending[k].part = q /\ pending[k].step = Steps
      BY <1>1, <1>2, <1>4, <1>6, <2>1, Nothing DEF Finishing, Ahead, n
    <3>2. ASSUME NEW k \in 1..n, pending[k].part = q, pending[k].step = Steps
          PROVE  \/ disk[Steps][q] = "whole"
                 \/ \E l \in 1..n - 1 : rest[l].part = q /\ rest[l].step = Steps
      <4>1. CASE k = 1
        BY <1>7, <1>12, <3>2, <4>1
      <4>2. CASE k # 1
        <5>1. k - 1 \in 1..n - 1 /\ (k - 1) + 1 = k
          BY <1>7, <4>2
        <5> QED
          BY <1>7, <3>2, <5>1
      <4> QED
        BY <4>1, <4>2
    <3> QED
      BY <3>1, <3>2
  <2>2. ASSUME ~Asynchronous, step = Steps
        PROVE  tracker = Steps \/ first.step = Steps \/ \E k \in 1..n - 1 : rest[k].step = Steps
    <3>1. tracker = Steps \/ \E k \in 1..n : pending[k].step = Steps
      BY <1>1, <1>2, <1>4, <1>6, <2>2 DEF Finishing, n
    <3>2. ASSUME NEW k \in 1..n, pending[k].step = Steps
          PROVE  first.step = Steps \/ \E l \in 1..n - 1 : rest[l].step = Steps
      <4>1. CASE k = 1
        BY <1>7, <3>2, <4>1
      <4>2. CASE k # 1
        <5>1. k - 1 \in 1..n - 1 /\ (k - 1) + 1 = k
          BY <1>7, <4>2
        <5> QED
          BY <1>7, <3>2, <5>1
      <4> QED
        BY <4>1, <4>2
    <3> QED
      BY <3>1, <3>2
  <2>3. /\ Len(pending') = n - 1 /\ Asynchronous' = Asynchronous /\ trainer' = "running"
        /\ UNCHANGED <<job, step, disk, tracker>> /\ pending' = rest /\ target' = first.step
    BY <1>2, <1>7 DEF Asynchronous
  <2> QED
    BY <1>16, <2>1, <2>2, <2>3 DEF Finishing
<1>27. Directories'
  BY <1>2, <1>4 DEF Directories
<1> QED
  BY <1>13, <1>17, <1>18, <1>21, <1>22, <1>23, <1>24, <1>25, <1>26, <1>27 DEF CkptInv

LEMMA FeedKeeps ==
  ASSUME CkptInv, Feed
  PROVE  CkptInv'
<1> DEFINE others == <<job, trainer, step, weights, todo, target, late, previous_saved_paths,
                       pending, disk, tracker, durable, restarts>>
           n == Len(inflight)
           p == position[0]
<1>1. Types /\ Planned /\ Reading /\ Trained /\ Named /\ Saved /\ Rotating /\ Advanced /\ Calls
      /\ Finishing /\ Directories
  BY DEF CkptInv
<1>2. /\ Asynchronous /\ p < Steps /\ n < Lead /\ position' = [position EXCEPT ![0] = p + 1]
      /\ inflight' = Append(inflight, p + 1) /\ UNCHANGED others
  BY DEF Feed, Asynchronous
<1>3. /\ job \in CkptJobs /\ inflight \in Seq(1..Steps) /\ position \in [DpRanks(job) -> 0..Steps]
  BY <1>1 DEF Types
<1>4. DpRanks(job) = {0} /\ p \in 0..Steps
  BY <1>2, <1>3, Settings DEF Asynchronous
<1>5. p + 1 \in 1..Steps
  BY <1>2, <1>4, Numbers
<1>6. /\ position' \in [DpRanks(job) -> 0..Steps] /\ position'[0] = p + 1
  BY <1>2, <1>3, <1>4, <1>5
<1>7. n \in Nat
  BY <1>3
<1>8. /\ inflight' \in Seq(1..Steps) /\ Len(inflight') = n + 1
      /\ inflight'[n + 1] = p + 1 /\ \A k \in 1..n : inflight'[k] = inflight[k]
  BY <1>2, <1>3, <1>5, AppendProperties
<1>9. \A k \in 1..n : inflight[k] = p - n + k
  BY <1>1, <1>2 DEF Reading
<1> HIDE DEF n, p
<1>10. Types'
  <2>1. Len(inflight') <= Lead
    BY <1>2, <1>7, <1>8, Numbers
  <2> QED
    BY <1>1, <1>2, <1>6, <1>8, <2>1 DEF Types, Directory, AsyncCall
<1>11. Reading'
  <2>1. ASSUME NEW k \in 1..n + 1 PROVE inflight'[k] = (p + 1) - (n + 1) + k
    <3>1. CASE k \in 1..n
      BY <1>4, <1>7, <1>8, <1>9, <3>1
    <3>2. CASE k = n + 1
      BY <1>4, <1>7, <1>8, <3>2
    <3> QED
      BY <1>7, <3>1, <3>2
  <2>2. Asynchronous'
    BY <1>2 DEF Asynchronous
  <2> QED
    BY <1>6, <1>8, <2>1, <2>2 DEF Reading
<1>12. Trained'
  <2>1. Taken' = Taken
    BY <1>4, <1>6, <1>7, <1>8 DEF Taken, n, p
  <2> QED
    BY <1>1, <1>2, <2>1 DEF Trained, Slack, Asynchronous
<1>13. Planned' /\ Named' /\ Saved' /\ Rotating' /\ Advanced'
  <2>1. /\ Most' = Most /\ Async' = Async /\ Finalising' = Finalising
        /\ \A x : Ahead(x)' = Ahead(x)
    BY <1>2 DEF Most, Slack, Asynchronous, Async, Finalising, Ahead
  <2>2. Planned' /\ Advanced'
    BY <1>1, <1>2, <2>1 DEF Planned, Advanced
  <2>3. Named' /\ Saved'
    BY <1>1, <1>2, <2>1 DEF Named, Saved, PartsWhole
  <2>4. Rotating'
    BY <1>1, <1>2, <2>1 DEF Rotating
  <2> QED
    BY <2>2, <2>3, <2>4
<1>14. Calls' /\ Finishing'
  <2>1. ~Async /\ Async' = Async /\ Asynchronous'
    BY <1>2, <1>3, Settings DEF Async, Asynchronous
  <2> QED
    BY <1>2, <2>1 DEF Calls, Finishing
<1>15. Directories'
  BY <1>1, <1>2 DEF Directories
<1> QED
  BY <1>10, <1>11, <1>12, <1>13, <1>14, <1>15 DEF CkptInv

LEMMA ReturnKeeps ==
  ASSUME CkptInv, Return
  PROVE  CkptInv'
<1> DEFINE others == <<job, step, weights, position, inflight, todo, target, late,
                       previous_saved_paths, pending, disk, tracker, durable, restarts>>
<1>1. Types /\ Planned /\ Reading /\ Trained /\ Named /\ Saved /\ Rotating /\ Advanced /\ Calls
      /\ Finishing /\ Directories
  BY DEF CkptInv
<1>2. /\ trainer = "running" /\ todo = <<>> /\ pending = <<>> /\ trainer' = "done" /\ UNCHANGED others
      /\ step = Steps \/ (position[0] = Steps /\ inflight = <<>>)
  BY DEF Return, AtTop, Saving, ckptMemory
<1>3. Types' /\ Planned'
  BY <1>1, <1>2 DEF Types, Directory, AsyncCall, Planned, Ahead, Finalising, Async
<1>4. Reading' /\ Trained'
  BY <1>1, <1>2 DEF Reading, Trained, Taken, Slack, Asynchronous
<1>5. Named' /\ Saved' /\ Rotating'
  <2>1. /\ Most' = Most /\ Async' = Async /\ \A x : Ahead(x)' = Ahead(x)
    BY <1>2 DEF Most, Slack, Asynchronous, Async, Ahead
  <2>2. Named' /\ Saved'
    BY <1>1, <1>2, <2>1 DEF Named, Saved, PartsWhole
  <2>3. Rotating'
    BY <1>1, <1>2, <2>1 DEF Rotating
  <2> QED
    BY <2>2, <2>3
<1>6. Advanced' /\ Directories'
  BY <1>1, <1>2 DEF Advanced, Ahead, Directories
<1>7. Calls'
  <2>1. ~Finalising' /\ ~Ahead(Data)'
    BY <1>2, Nothing DEF Ahead, Finalising
  <2>2. Len(pending') = 0
    BY <1>2
  <2> QED
    BY <2>1, <2>2 DEF Calls
<1>8. Finishing'
  <2> SUFFICES ASSUME ~Asynchronous PROVE Finishing'
    BY <1>2 DEF Finishing, Asynchronous
  <2>1. step = Steps
    <3>1. job \in CkptJobs /\ step \in 0..Steps
      BY <1>1 DEF Types
    <3>2. position[0] <= step
      BY <1>1, <3>1, Settings DEF Reading
    <3> QED
      BY <1>2, <3>1, <3>2, Numbers
  <2>2. ~Ahead(BeginActor) /\ ~Ahead(BeginCritic) /\ ~Finalising
    BY <1>2, Nothing DEF Ahead, Finalising
  <2>3. tracker = Steps /\ PartsWhole(Steps)
    <3>1. CASE ~Async
      BY <1>1, <1>2, <2>1, <3>1 DEF Finishing
    <3>2. CASE Async
      <4>1. Len(pending) = 0
        BY <1>2
      <4>2. /\ \A part \in {"actor"} \cup (IF job.critic THEN {"critic"} ELSE {}) :
                 disk[Steps][part] = "whole"
            /\ tracker = Steps
        BY <1>1, <1>2, <2>1, <2>2, <3>2, <4>1 DEF Finishing, BeginActor, BeginCritic
      <4> QED
        BY <4>2 DEF PartsWhole
    <3> QED
      BY <3>1, <3>2
  <2> QED
    BY <1>2, <2>3 DEF Finishing, PartsWhole
<1> QED
  BY <1>3, <1>4, <1>5, <1>6, <1>7, <1>8 DEF CkptInv

LEMMA StoppedKeeps ==
  ASSUME CkptInv, UNCHANGED ckptVars
  PROVE  CkptInv'
<1> DEFINE others == <<job, trainer, step, weights, position, inflight, todo, target, late,
                       previous_saved_paths, pending, disk, tracker, durable, restarts>>
<1>1. Types /\ Planned /\ Reading /\ Trained /\ Named /\ Saved /\ Rotating /\ Advanced /\ Calls
      /\ Finishing /\ Directories
  BY DEF CkptInv
<1>2. UNCHANGED others
  BY DEF ckptVars, ckptMemory
<1>3. /\ Most' = Most /\ Async' = Async /\ Asynchronous' = Asynchronous /\ Finalising' = Finalising
      /\ \A x : Ahead(x)' = Ahead(x)
  BY <1>2 DEF Most, Slack, Asynchronous, Async, Finalising, Ahead
<1>4. Types' /\ Planned'
  BY <1>1, <1>2, <1>3 DEF Types, Directory, AsyncCall, Planned
<1>5. Reading' /\ Trained'
  BY <1>1, <1>2, <1>3 DEF Reading, Trained, Taken, Slack
<1>6. Named' /\ Saved'
  BY <1>1, <1>2, <1>3 DEF Named, Saved, PartsWhole
<1>7. Rotating' /\ Advanced'
  BY <1>1, <1>2, <1>3 DEF Rotating, Advanced
<1>8. Calls'
  BY <1>1, <1>2, <1>3 DEF Calls
<1>9. Finishing' /\ Directories'
  BY <1>1, <1>2, <1>3 DEF Finishing, PartsWhole, Directories
<1> QED
  BY <1>4, <1>5, <1>6, <1>7, <1>8, <1>9 DEF CkptInv

LEMMA TrainKeeps ==
  ASSUME CkptInv, NEW esi \in BOOLEAN, Train(esi)
  PROVE  CkptInv'
<1> DEFINE others == <<job, trainer, late, previous_saved_paths, pending, disk, tracker, durable,
                       restarts>>
           n == Len(inflight)
           p == position[0]
<1>1. Types /\ Planned /\ Reading /\ Trained /\ Named /\ Saved /\ Rotating /\ Advanced /\ Calls
      /\ Finishing /\ Directories
  BY DEF CkptInv
<1>2. /\ trainer = "running" /\ todo = <<>> /\ late = {} /\ step < Steps
      /\ step' = step + 1 /\ target' = step + 1 /\ UNCHANGED others
      /\ todo' = IF SaveIsDue(step + 1, esi) THEN SaveCheckpoint(job) ELSE <<>>
  BY DEF Train, AtTop, Saving
<1>3. /\ Asynchronous => /\ inflight # <<>> /\ inflight' = Tail(inflight) /\ position' = position
                         /\ weights' = weights \cup {<<0, Head(inflight)>>}
      /\ ~Asynchronous => /\ position' = [r \in DpRanks(job) |-> position[r] + 1]
                          /\ weights' = weights \cup {<<r, position[r] + 1>> : r \in DpRanks(job)}
                          /\ inflight' = inflight
  BY DEF Train, Asynchronous
<1>4. /\ job \in CkptJobs /\ inflight \in Seq(1..Steps) /\ position \in [DpRanks(job) -> 0..Steps]
      /\ weights \in SUBSET ({0, 1} \X (1..Steps)) /\ step \in 0..Steps /\ n <= Lead
      /\ tracker \in EmptyTracker..Steps /\ durable \in 0..Steps /\ restarts \in 0..CkptCrashes
      /\ pending \in Seq(AsyncCall) /\ previous_saved_paths \in [actor : Seq(1..Steps), critic : Seq(1..Steps)]
  BY <1>1 DEF Types
<1>5. /\ step + 1 \in 1..Steps /\ step + 1 \in 0..Steps /\ step <= step + 1 /\ step < step + 1
      /\ (step + 1) - 1 = step
  BY <1>2, <1>4, Numbers
<1>6. 0 \in DpRanks(job) /\ (Asynchronous => DpRanks(job) = {0}) /\ DpRanks(job) \subseteq {0, 1}
  BY <1>4, Settings DEF Asynchronous
<1>7. /\ Left(job, todo')
      /\ todo' # <<>> =>
           /\ Head(todo') = BeginActor /\ Within(BeginActor, todo') /\ Within(Data, todo')
           /\ job.critic => Within(BeginCritic, todo')
           /\ job.manager # "async" => Within(EndActor, todo')
           /\ job.manager = "async" => ~Within(Name, todo')
  <2>1. CASE todo' = SaveCheckpoint(job)
    <3>1. /\ Left(job, todo') /\ todo' # <<>> /\ Head(todo') = BeginActor
      BY <1>4, <2>1, Plan
    <3> QED
      BY <1>4, <3>1, AtBeginActor
  <2>2. CASE todo' = <<>>
    BY <2>2 DEF Left
  <2> QED
    BY <1>2, <2>1, <2>2
<1>8. /\ \A x : ~Ahead(x)
      /\ \A x : Ahead(x)' = Within(x, todo')
  BY <1>2, Nothing DEF Ahead
<1>9. ~Finalising /\ ~Finalising' /\ Async' = Async /\ Asynchronous' = Asynchronous /\ Most' = Most
  <2>1. ~Finalising'
    BY <1>2, <1>7, <1>8, Nothing DEF Finalising, Async
  <2> QED
    BY <1>2, <1>8, <2>1 DEF Finalising, Async, Asynchronous, Most, Slack
<1>10. n \in Nat /\ p \in 0..Steps
  BY <1>4, <1>6
<1>11. Asynchronous =>
         /\ n > 0 /\ inflight' \in Seq(1..Steps) /\ Len(inflight') = n - 1
         /\ Head(inflight) = inflight[1] /\ \A k \in 1..n - 1 : inflight'[k] = inflight[k + 1]
  <2> SUFFICES ASSUME Asynchronous
               PROVE  /\ n > 0 /\ inflight' \in Seq(1..Steps) /\ Len(inflight') = n - 1
                      /\ Head(inflight) = inflight[1]
                      /\ \A k \in 1..n - 1 : inflight'[k] = inflight[k + 1]
    OBVIOUS
  <2>1. inflight \in Seq(1..Steps) /\ inflight # <<>> /\ inflight' = Tail(inflight)
    BY <1>3, <1>4
  <2>2. n > 0
    BY <2>1
  <2>3. Tail(inflight) \in Seq(1..Steps) /\ Len(Tail(inflight)) = n - 1
    BY <2>1
  <2>4. Head(inflight) = inflight[1] /\ \A k \in 1..n - 1 : Tail(inflight)[k] = inflight[k + 1]
    BY <2>1
  <2> QED
    BY <2>1, <2>2, <2>3, <2>4
<1>12. Asynchronous => \A k \in 1..n : inflight[k] = p - n + k
  BY <1>1 DEF Reading
<1>13. ~Asynchronous => inflight = <<>> /\ n = 0 /\ \A r \in DpRanks(job) : position[r] <= step
  BY <1>1 DEF Reading
<1> HIDE DEF n, p
<1>14. inflight' \in Seq(1..Steps) /\ Len(inflight') <= Lead
  <2>1. Asynchronous => Len(inflight') <= Lead
    BY <1>4, <1>10, <1>11, Numbers
  <2>2. ~Asynchronous => Len(inflight') <= Lead
    BY <1>3, <1>4 DEF n
  <2> QED
    BY <1>3, <1>4, <1>11, <2>1, <2>2
<1>15. position' \in [DpRanks(job) -> 0..Steps]
  <2>1. ~Asynchronous => \A r \in DpRanks(job) : position[r] + 1 \in 1..Steps /\ position[r] + 1 <= step + 1
    <3> SUFFICES ASSUME ~Asynchronous, NEW r \in DpRanks(job)
                 PROVE  position[r] + 1 \in 1..Steps /\ position[r] + 1 <= step + 1
      OBVIOUS
    <3>1. position[r] \in 0..Steps /\ position[r] <= step
      BY <1>4, <1>13
    <3> QED
      BY <1>2, <1>4, <3>1, Numbers
  <2> QED
    BY <1>3, <1>4, <2>1
<1>16. weights' \in SUBSET ({0, 1} \X (1..Steps))
  <2>1. Asynchronous => Head(inflight) \in 1..Steps
    <3> SUFFICES ASSUME Asynchronous PROVE Head(inflight) \in 1..Steps
      OBVIOUS
    <3>1. 1 \in 1..n /\ Head(inflight) = inflight[1]
      BY <1>10, <1>11
    <3>2. inflight \in Seq(1..Steps) /\ 1 \in 1..Len(inflight)
      BY <1>4, <3>1 DEF n
    <3>3. inflight[1] \in 1..Steps
      BY <3>2, ElementOfSeq
    <3> QED
      BY <3>1, <3>3
  <2>2. ~Asynchronous => \A r \in DpRanks(job) : position[r] + 1 \in 1..Steps
    <3> SUFFICES ASSUME ~Asynchronous, NEW r \in DpRanks(job)
                 PROVE  position[r] + 1 \in 1..Steps
      OBVIOUS
    <3>1. position[r] \in 0..Steps /\ position[r] <= step
      BY <1>4, <1>13
    <3> QED
      BY <1>2, <1>4, <3>1, Numbers
  <2>3. CASE Asynchronous
    BY <1>3, <1>4, <2>1, <2>3
  <2>4. CASE ~Asynchronous
    BY <1>3, <1>4, <1>6, <2>2, <2>4
  <2> QED
    BY <2>3, <2>4
<1>17. Types'
  BY <1>1, <1>2, <1>5, <1>14, <1>15, <1>16 DEF Types, Directory, AsyncCall
<1>18. Planned'
  <2>1. tracker # EmptyTracker
    BY <1>1, <1>2 DEF Planned
  <2>2. target' \in 1..step' /\ target' = step'
    BY <1>2, <1>4, <1>5
  <2> QED
    BY <1>2, <1>7, <2>1, <2>2 DEF Planned
<1>19. Reading'
  <2>1. ASSUME Asynchronous, NEW k \in 1..n - 1 PROVE inflight'[k] = p - (n - 1) + k
    <3>1. k + 1 \in 1..n
      BY <1>10
    <3> QED
      BY <1>10, <1>11, <1>12, <2>1, <3>1
  <2>2. ASSUME ~Asynchronous, NEW r \in DpRanks(job) PROVE position'[r] <= step'
    <3>1. position[r] \in 0..Steps /\ position[r] <= step /\ position'[r] = position[r] + 1
      BY <1>3, <1>4, <1>13, <2>2
    <3> QED
      BY <1>2, <1>4, <3>1
  <2>3. Asynchronous => \A k \in 1..Len(inflight') : inflight'[k] = position'[0] - Len(inflight') + k
    BY <1>3, <1>11, <2>1 DEF p
  <2>4. ~Asynchronous => inflight' = <<>> /\ \A r \in DpRanks(job) : position'[r] <= step'
    BY <1>3, <1>13, <2>2
  <2>5. ~Asynchronous => \A s \in 1..Steps : \A r \in DpRanks(job) : disk[s].data[r] <= s
    BY <1>1 DEF Reading
  <2> QED
    BY <1>2, <1>9, <2>3, <2>4, <2>5 DEF Reading
<1>20. Trained'
  <2> SUFFICES ASSUME Ordered(job) PROVE Trained'
    BY <1>2 DEF Trained
  <2>1. DpRanks(job) = {0}
    BY <1>4, Settings DEF Ordered
  <2>2. /\ weights \subseteq {0} \X (1..Taken) /\ Cardinality(weights) = step
        /\ Taken <= step + Slack(restarts)
    BY <1>1 DEF Trained
  <2>3. Taken = p - n
    BY DEF Taken, p, n
  <2>4. Taken \in Nat /\ Taken' = Taken + 1 /\ weights' = weights \cup {<<0, Taken + 1>>}
    <3>1. CASE Asynchronous
      <4>1. Head(inflight) = Taken + 1 /\ 1 \in 1..n
        BY <1>10, <1>11, <1>12, <2>3, <3>1
      <4>2. Head(inflight) \in 1..Steps
        BY <1>4, <1>11, <3>1, <4>1, ElementOfSeq, ZenonT(30) DEF n
      <4>3. Taken \in Nat
        BY <1>10, <2>3, <4>1, <4>2, Numbers
      <4>4. Taken' = p - (n - 1)
        BY <1>3, <1>11, <3>1 DEF Taken, p
      <4> QED
        BY <1>3, <1>10, <2>3, <3>1, <4>1, <4>3, <4>4
    <3>2. CASE ~Asynchronous
      <4>1. position'[0] = p + 1 /\ Len(inflight') = 0 /\ weights' = weights \cup {<<0, p + 1>>}
        BY <1>3, <1>13, <2>1, <3>2 DEF p, n
      <4> QED
        BY <1>10, <1>13, <2>3, <3>2, <4>1 DEF Taken
    <3> QED
      BY <3>1, <3>2
  <2> DEFINE t == Taken
             c == Slack(restarts)
  <2>5. restarts \in Nat /\ c \in Nat /\ step \in Nat
    <3>1. restarts \in Nat /\ step \in Nat
      BY <1>4, Numbers
    <3> QED
      BY <3>1, Slacks
  <2> HIDE DEF t, c
  <2>6. <<0, t + 1>> \notin weights
    BY <2>2, <2>4 DEF t
  <2>7. IsFiniteSet(weights)
    <3>1. IsFiniteSet({0})
      BY FS_Singleton
    <3>2. t \in Int /\ 1 \in Int
      BY <2>4 DEF t
    <3>3. IsFiniteSet(1..t)
      BY <3>2, FS_Interval
    <3>4. IsFiniteSet({0} \X (1..t))
      BY <3>1, <3>3, FS_Product
    <3> QED
      BY <2>2, <3>4, FS_Subset DEF t
  <2>8. Cardinality(weights') = step + 1
    BY <2>2, <2>4, <2>6, <2>7, FS_AddElement DEF t
  <2>9. weights' \subseteq {0} \X (1..t + 1)
    <3>1. t \in Nat /\ weights \subseteq {0} \X (1..t) /\ weights' = weights \cup {<<0, t + 1>>}
      BY <2>2, <2>4 DEF t
    <3> QED
      BY <3>1
  <2>10. t + 1 <= (step + 1) + c
    <3>1. t \in Nat /\ t <= step + c
      BY <2>2, <2>4 DEF t, c
    <3> QED
      BY <2>5, <3>1
  <2>11. Slack(restarts)' = c
    BY <1>2, <1>9 DEF Slack, c
  <2>12. Taken' = t + 1
    BY <2>4 DEF t
  <2> QED
    BY <1>2, <2>8, <2>9, <2>10, <2>11, <2>12 DEF Trained
<1>21. job.keep # 1 =>
         /\ tracker <= step /\ durable <= step
         /\ tracker \in 1..Steps => disk[tracker].actor # "none"
         /\ tracker # EmptyTracker => durable <= tracker
  BY <1>1, <1>2 DEF Advanced
<1>22. tracker \in Int /\ durable \in Int /\ step \in Int
  BY <1>4, Numbers DEF EmptyTracker
<1>23. Advanced'
  <2>1. job.keep # 1 => tracker <= step + 1 /\ tracker < step + 1 /\ durable <= step + 1
    BY <1>21, <1>22
  <2> QED
    BY <1>2, <1>21, <2>1 DEF Advanced
<1>24. Named' /\ Saved'
  <2>1. Ordered(job) => tracker < step + 1
    BY <1>21, <1>22 DEF Ordered
  <2>2. Named'
    BY <1>1, <1>2, <1>9, <2>1 DEF Named, PartsWhole
  <2>3. Saved'
    BY <1>2, <1>7, <1>8, <1>9 DEF Saved
  <2> QED
    BY <2>2, <2>3
<1>25. Rotating'
  <2> SUFFICES ASSUME ~Async PROVE Rotating'
    BY <1>9 DEF Rotating
  <2> DEFINE A == previous_saved_paths.actor
             C == previous_saved_paths.critic
  <2>1. /\ pending = <<>> /\ (~job.critic => C = <<>>) /\ Rising(A) /\ Rising(C)
        /\ UpTo(step, A) /\ UpTo(step, C)
        /\ A # <<>> => LastOf(A, tracker)
        /\ job.manager = "fsdp" /\ C # <<>> => LastOf(C, tracker)
    BY <1>1, <1>2, <1>8 DEF Rotating
  <2>2. A \in Seq(1..Steps) /\ C \in Seq(1..Steps)
    BY <1>4
  <2>3. \A X \in Seq(1..Steps) : UpTo(step, X) => UpTo(step + 1, X)
    <3> SUFFICES ASSUME NEW X \in Seq(1..Steps), UpTo(step, X), NEW k \in 1..Len(X)
                 PROVE  X[k] <= step + 1
      BY DEF UpTo
    <3>1. X[k] \in 1..Steps /\ X[k] <= step
      BY ElementOfSeq DEF UpTo
    <3> QED
      BY <1>4, <3>1, Numbers
  <2> HIDE DEF A, C
  <2>4. /\ UpTo(IF Within(EndActor, todo') THEN step' - 1 ELSE step', A)
        /\ UpTo(IF Within(EndCritic, todo') THEN step' - 1 ELSE step', C)
    BY <1>2, <1>5, <2>1, <2>2, <2>3
  <2>5. previous_saved_paths'.actor = A /\ previous_saved_paths'.critic = C
    BY <1>2 DEF A, C
  <2>6. UNCHANGED <<pending, job, tracker>>
    BY <1>2
  <2> QED
    BY <1>8, <2>1, <2>4, <2>5, <2>6 DEF Rotating
<1>26. Calls'
  <2> SUFFICES ASSUME Async PROVE Calls'
    BY <1>9 DEF Calls
  <2>1. /\ \A k, l \in 1..Len(pending) : k <= l => pending[k].step <= pending[l].step
        /\ \A k \in 1..Len(pending) :
             LET c == pending[k]
             IN /\ c.step <= step /\ tracker <= c.step /\ durable <= c.step
                /\ disk[c.step].actor # "none"
                /\ c.written => disk[c.step][c.part] = "whole"
                /\ ~job.critic => c.part = "actor"
                /\ Ordered(job) => Fits(disk[c.step], c.step, Most)
    BY <1>1, <1>8, <1>9 DEF Calls
  <2>2. ASSUME NEW k \in 1..Len(pending) PROVE pending[k].step <= step + 1 /\ pending[k].step < step + 1
    <3>1. pending[k] \in AsyncCall
      BY <1>4, ElementOfSeq
    <3>2. pending[k].step \in 1..Steps /\ pending[k].step <= step
      BY <2>1, <3>1 DEF AsyncCall
    <3> QED
      BY <1>4, <3>2, Numbers, SMTT(60)
  <2>3. Ahead(Data)' => Ahead(BeginActor)'
    BY <1>7, <1>8, Nothing
  <2>4. UNCHANGED <<pending, job, tracker, disk, durable>> /\ step' = step + 1
    BY <1>2
  <2> QED
    BY <1>9, <2>1, <2>2, <2>3, <2>4 DEF Calls
<1>27. Finishing'
  <2> SUFFICES ASSUME ~Asynchronous PROVE Finishing'
    BY <1>9 DEF Finishing
  <2>1. step' = Steps =>
          todo' # <<>> /\ Ahead(BeginActor)' /\ (job.critic => Ahead(BeginCritic)')
    <3> SUFFICES ASSUME step' = Steps PROVE todo' # <<>>
      BY <1>7, <1>8
    <3>1. SaveIsDue(step + 1, esi)
      BY <1>2 DEF SaveIsDue, Asynchronous
    <3> QED
      BY <1>2, <1>4, <3>1, Plan
  <2>2. trainer' # "done" /\ job' = job
    BY <1>2
  <2>3. step' = Steps =>
          \A part \in {"actor"} \cup (IF job.critic THEN {"critic"} ELSE {}) : Ahead(<<"begin", part>>)'
    BY <2>1 DEF BeginActor, BeginCritic
  <2> QED
    BY <2>1, <2>2, <2>3 DEF Finishing
<1>28. Directories'
  <2>1. todo' # <<>> => Head(todo') # EndActor
    BY <1>7, Ops
  <2> QED
    BY <1>1, <1>2, <2>1 DEF Directories
<1> QED
  BY <1>17, <1>18, <1>19, <1>20, <1>23, <1>24, <1>25, <1>26, <1>27, <1>28 DEF CkptInv

-------------------------------------------------------------------------------
(* Restarts. *)
LEMMA RangeSize ==
  ASSUME NEW m \in Nat, NEW f
  PROVE  IsFiniteSet({f[k] : k \in 1..m}) /\ Cardinality({f[k] : k \in 1..m}) <= m
<1> DEFINE T == {f[k] : k \in 1..m}
           g == [k \in 1..m |-> f[k]]
<1>1. IsFiniteSet(1..m) /\ Cardinality(1..m) = m
  BY FS_Interval
<1>2. g \in Surjection(1..m, T)
  BY DEF Surjection
<1> HIDE DEF T, g
<1>3. IsFiniteSet(T) /\ Cardinality(T) <= Cardinality(1..m)
  BY <1>1, <1>2, FS_Surjection
<1> QED
  BY <1>1, <1>3 DEF T

LEMMA FitsMore ==
  ASSUME NEW dir, NEW s \in Nat, NEW m \in Nat, NEW n \in Nat, m <= n, Fits(dir, s, m),
         dir.data[0] \in Int
  PROVE  Fits(dir, s, n)
BY DEF Fits

(* The checkpoints of this life and of the earlier ones. *)
LEMMA Kept ==
  ASSUME Types, Planned, Directories, job.keep > 0
  PROVE  \E all \in SUBSET (1..Steps) :
           /\ Cardinality(all) <= job.keep * (restarts + 1)
           /\ \A s \in 1..Steps : disk[s].actor # "none" => s \in all
<1>0. /\ job \in CkptJobs /\ previous_saved_paths \in [actor : Seq(1..Steps), critic : Seq(1..Steps)]
      /\ restarts \in Nat
  BY Numbers DEF Types
<1> DEFINE paths == previous_saved_paths.actor
           m == Len(paths)
           ending == todo # <<>> /\ Head(todo) = EndActor
           named == {paths[k] : k \in 1..m}
           own == named \cup (IF ending THEN {target} ELSE {})
           keep == job.keep
<1>1. /\ m <= keep /\ (ending => m < keep)
      /\ \E earlier \in SUBSET (1..Steps) :
           /\ Cardinality(earlier) <= keep * restarts
           /\ \A s \in 1..Steps : disk[s].actor # "none" =>
                \/ s \in earlier
                \/ \E k \in 1..m : paths[k] = s
                \/ ending /\ s = target
  BY DEF Directories
<1>2. m \in Nat /\ keep \in Nat /\ paths \in Seq(1..Steps)
  BY <1>0, Settings
<1>3. PICK earlier \in SUBSET (1..Steps) :
        /\ Cardinality(earlier) <= keep * restarts
        /\ \A s \in 1..Steps : disk[s].actor # "none" =>
             s \in earlier \/ (\E k \in 1..m : paths[k] = s) \/ (ending /\ s = target)
  BY <1>1
<1>4. IsFiniteSet(named) /\ Cardinality(named) <= m
  BY <1>2, RangeSize
<1>5. named \subseteq 1..Steps
  BY <1>2, ElementOfSeq
<1>6. ending => target \in 1..Steps
  <2>1. ending => target \in 1..step
    BY DEF Planned
  <2>2. step \in 0..Steps
    BY DEF Types
  <2> QED
    BY <2>1, <2>2, Numbers
<1> HIDE DEF paths, m, ending, named, keep
<1>7. own \subseteq 1..Steps
  BY <1>5, <1>6
<1>8. IsFiniteSet(own) /\ Cardinality(own) <= keep /\ Cardinality(own) \in Nat
  <2>1. Cardinality(named) \in Nat
    BY <1>4, FS_CardinalityType
  <2>2. CASE ending
    <3>1. /\ own = named \cup {target} /\ IsFiniteSet(own)
          /\ Cardinality(own) \in {Cardinality(named), Cardinality(named) + 1}
      BY <1>4, <2>2, FS_AddElement
    <3> HIDE DEF own
    <3> QED
      BY <1>1, <1>2, <1>4, <2>1, <2>2, <3>1
  <2>3. CASE ~ending
    <3>1. own = named
      BY <2>3
    <3> HIDE DEF own
    <3> QED
      BY <1>1, <1>2, <1>4, <2>1, <3>1
  <2> QED
    BY <2>2, <2>3
<1> HIDE DEF own
<1> DEFINE all == earlier \cup own
<1>9. all \in SUBSET (1..Steps)
  BY <1>3, <1>7
<1>10. Cardinality(all) <= keep * (restarts + 1)
  <2>1. IsFiniteSet(earlier)
    <3>1. IsFiniteSet(1..Steps)
      BY Numbers, FS_Interval
    <3> QED
      BY <3>1, FS_Subset
  <2>2. Cardinality(all) = Cardinality(earlier) + Cardinality(own) - Cardinality(earlier \cap own)
    BY <1>8, <2>1, FS_Union
  <2>3. Cardinality(earlier) \in Nat /\ Cardinality(earlier \cap own) \in Nat
    BY <2>1, FS_CardinalityType, FS_Intersection
  <2> DEFINE e == Cardinality(earlier)
             o == Cardinality(own)
             b == Cardinality(earlier \cap own)
  <2>4. keep * restarts \in Nat /\ keep * (restarts + 1) = keep * restarts + keep
    BY <1>0, <1>2
  <2>5. e <= keep * restarts /\ o <= keep /\ e \in Nat /\ o \in Nat /\ b \in Nat
    BY <1>3, <1>8, <2>3
  <2>6. Cardinality(all) = e + o - b
    BY <2>2
  <2> HIDE DEF e, o, b, all
  <2>7. e + o - b <= keep * restarts + keep
    BY <1>2, <2>4, <2>5
  <2> QED
    BY <2>4, <2>6, <2>7
<1>11. \A s \in 1..Steps : disk[s].actor # "none" => s \in all
  BY <1>3 DEF own, named
<1> HIDE DEF all
<1> QED
  BY <1>9, <1>10, <1>11 DEF keep

LEMMA CrashKeeps ==
  ASSUME CkptInv, CrashAndRestart
  PROVE  CkptInv'
<1>1. Types /\ Planned /\ Reading /\ Trained /\ Named /\ Saved /\ Rotating /\ Advanced /\ Calls
      /\ Finishing /\ Directories
  BY DEF CkptInv
<1>2. /\ trainer = "running" /\ restarts < CkptCrashes /\ restarts' = restarts + 1
      /\ inflight' = <<>> /\ todo' = <<>> /\ target' = 0 /\ late' = {} /\ pending' = <<>>
      /\ previous_saved_paths' = [actor |-> <<>>, critic |-> <<>>]
      /\ trainer' = IF FromScratch \/ Loads THEN "running" ELSE "failed"
      /\ step' = IF Loads THEN tracker ELSE 0
      /\ weights' = IF Loads THEN disk[tracker].weights ELSE {}
      /\ position' = [r \in DpRanks(job) |-> IF Loads THEN Restored(disk[tracker].data[r]) ELSE 0]
      /\ UNCHANGED <<job, disk, tracker, durable>>
  BY DEF CrashAndRestart
<1>3. /\ job \in CkptJobs /\ disk \in [1..Steps -> Directory] /\ tracker \in EmptyTracker..Steps
      /\ durable \in 0..Steps /\ restarts \in 0..CkptCrashes /\ target \in 0..Steps
      /\ previous_saved_paths \in [actor : Seq(1..Steps), critic : Seq(1..Steps)]
  BY <1>1 DEF Types
<1>4. Loads => tracker \in 1..Steps /\ disk[tracker] \in Directory /\ PartsWhole(tracker)
  <2>1. Loads => tracker \in 1..Steps /\ \A k \in DOMAIN Parts(job) : disk[tracker][Parts(job)[k]] = "whole"
    BY DEF Loads
  <2>2. Loads => disk[tracker].actor = "whole" /\ (job.critic => disk[tracker].critic = "whole")
    BY <2>1 DEF Parts
  <2> QED
    BY <1>3, <2>1, <2>2 DEF PartsWhole
<1>5. /\ ~Ahead(Data)' /\ ~Ahead(BeginActor)' /\ ~Ahead(BeginCritic)' /\ ~Finalising'
      /\ ~Ahead(EndActor)' /\ ~Ahead(EndCritic)'
      /\ Async' = Async /\ Asynchronous' = Asynchronous
  BY <1>2, Nothing DEF Ahead, Finalising, Async, Asynchronous
<1>6. step' \in 0..Steps
  BY <1>2, <1>4, Numbers
<1>7. ASSUME Loads, NEW r \in DpRanks(job)
      PROVE  /\ Restored(disk[tracker].data[r]) \in 0..Steps
             /\ ~Asynchronous => Restored(disk[tracker].data[r]) <= tracker
  <2>1. disk[tracker].data[r] \in NoFile..Steps
    BY <1>4, <1>7 DEF Directory
  <2>2. ~Asynchronous => disk[tracker].data[r] <= tracker
    BY <1>1, <1>4, <1>7 DEF Reading
  <2>3. Restored(disk[tracker].data[r]) \in {0, disk[tracker].data[r]}
        /\ (disk[tracker].data[r] = NoFile => Restored(disk[tracker].data[r]) = 0)
    BY DEF Restored
  <2> QED
    BY <1>4, <1>7, <2>1, <2>2, <2>3, Numbers DEF NoFile
<1>8. position' \in [DpRanks(job) -> 0..Steps]
  BY <1>2, <1>7, Numbers
<1>9. weights' \in SUBSET ({0, 1} \X (1..Steps))
  BY <1>2, <1>4 DEF Directory
<1>10. restarts' \in 0..CkptCrashes /\ restarts' \in Nat /\ restarts \in Nat
  BY <1>2, <1>3, Numbers
<1>11. Types'
  <2>1. /\ trainer' \in {"running", "done", "failed"} /\ target' \in 0..Steps /\ late' \in SUBSET {1}
        /\ inflight' \in Seq(1..Steps) /\ Len(inflight') <= Lead /\ pending' \in Seq(AsyncCall)
        /\ previous_saved_paths' \in [actor : Seq(1..Steps), critic : Seq(1..Steps)]
    BY <1>2, Numbers
  <2> QED
    BY <1>2, <1>3, <1>6, <1>8, <1>9, <1>10, <2>1 DEF Types, Directory, AsyncCall
<1>12. trainer' # "failed" => Loads \/ FromScratch
  BY <1>2
<1>13. Planned'
  <2>1. trainer' = "running" => tracker # EmptyTracker
    BY <1>12, Numbers DEF Loads, FromScratch, NoTracker, EmptyTracker
  <2> QED
    BY <1>2, <2>1 DEF Planned, Left
<1>14. Reading'
  <2>1. ~Asynchronous => \A r \in DpRanks(job) : position'[r] <= step'
    <3> SUFFICES ASSUME ~Asynchronous, NEW r \in DpRanks(job) PROVE position'[r] <= step'
      OBVIOUS
    <3>1. CASE Loads
      BY <1>2, <1>7, <3>1
    <3>2. CASE ~Loads
      BY <1>2, <3>2
    <3> QED
      BY <3>1, <3>2
  <2>2. ~Asynchronous => \A s \in 1..Steps : \A r \in DpRanks(job) : disk[s].data[r] <= s
    BY <1>1 DEF Reading
  <2>3. Len(inflight') = 0
    BY <1>2
  <2> QED
    BY <1>2, <1>5, <2>1, <2>2, <2>3 DEF Reading
<1>15. Most \in Nat /\ Most' \in Nat /\ Most <= Most' /\ Slack(restarts)' = Most
  <2>1. Slack(restarts)' = Slack(restarts + 1) /\ Most' = Slack((restarts + 1) + 1)
    BY <1>2, <1>5 DEF Slack, Most
  <2> QED
    BY <1>2, <1>10, <2>1, Slacks DEF Most
<1>16. Ordered(job) /\ tracker \in 1..Steps =>
         PartsWhole(tracker) /\ Fits(disk[tracker], tracker, Most) /\ disk[tracker].data[0] \in NoFile..Steps
  <2>1. 0 \in DpRanks(job)
    BY <1>3, Settings
  <2> QED
    BY <1>1, <1>3, <2>1 DEF Named, Directory
<1>17. Trained'
  <2> SUFFICES ASSUME Ordered(job) PROVE Trained'
    BY <1>2 DEF Trained
  <2>1. 0 \in DpRanks(job) /\ Taken' = position'[0]
    <3>1. 0 \in DpRanks(job)
      BY <1>3, Settings
    <3>2. position'[0] \in 0..Steps
      BY <1>8, <3>1
    <3>3. Taken' = position'[0] - 0
      BY <1>2 DEF Taken
    <3> QED
      BY <3>1, <3>2, <3>3, Numbers
  <2>2. CASE Loads
    <3>1. Fits(disk[tracker], tracker, Most)
      BY <1>4, <1>16, <2>2
    <3>2. position'[0] = disk[tracker].data[0]
      BY <1>2, <2>1, <2>2, <3>1 DEF Restored, Fits
    <3> QED
      BY <1>2, <1>15, <2>1, <2>2, <3>1, <3>2 DEF Trained, Fits
  <2>3. CASE ~Loads
    <3>1. Cardinality({}) = 0
      BY FS_EmptySet
    <3> QED
      BY <1>2, <1>15, <2>1, <2>3, <3>1 DEF Trained
  <2> QED
    BY <2>2, <2>3
<1>18. Named' /\ Saved'
  <2>1. Ordered(job) /\ tracker \in 1..Steps => Fits(disk[tracker], tracker, Most')
    <3> SUFFICES ASSUME Ordered(job), tracker \in 1..Steps PROVE Fits(disk[tracker], tracker, Most')
      OBVIOUS
    <3>1. disk[tracker].data[0] \in Int /\ tracker \in Nat
      BY <1>16, Numbers DEF NoFile
    <3> QED
      BY <1>15, <1>16, <3>1, FitsMore
  <2>2. Named'
    BY <1>2, <1>5, <1>16, <2>1 DEF Named, PartsWhole
  <2> QED
    BY <1>2, <2>2 DEF Saved
<1>19. Rotating'
  <2>1. /\ previous_saved_paths'.actor = <<>> /\ previous_saved_paths'.critic = <<>>
        /\ Len(<<>>) = 0
    BY <1>2
  <2> QED
    BY <1>2, <2>1 DEF Rotating, Rising, UpTo
<1>20. Advanced'
  <2> SUFFICES ASSUME job.keep # 1, trainer' # "failed" PROVE Advanced'
    BY <1>2 DEF Advanced
  <2>1. /\ tracker \in 1..Steps => disk[tracker].actor # "none"
        /\ tracker # EmptyTracker => durable <= tracker
    BY <1>1, <1>2 DEF Advanced
  <2>2. step' = tracker /\ tracker # EmptyTracker
    <3>1. CASE Loads
      BY <1>2, <1>4, <3>1, Numbers DEF EmptyTracker
    <3>2. CASE FromScratch /\ ~Loads
      <4>1. ASSUME tracker \in 1..Steps, ~Exists(tracker) PROVE FALSE
        <5>1. [disk[tracker] EXCEPT !.weights = {}].actor = NoDirectory(job).actor
          BY <4>1 DEF Exists
        <5>2. disk[tracker] \in Directory
          BY <1>3, <4>1
        <5> QED
          BY <2>1, <4>1, <5>1, <5>2 DEF NoDirectory, Directory
      <4>2. tracker = NoTracker
        BY <3>2, <4>1 DEF FromScratch
      <4> QED
        BY <1>2, <3>2, <4>2 DEF NoTracker, EmptyTracker
    <3> QED
      BY <1>12, <3>1, <3>2
  <2>3. tracker <= tracker
    BY <1>3, Numbers DEF EmptyTracker
  <2> QED
    BY <1>2, <1>5, <2>1, <2>2, <2>3 DEF Advanced
<1>21. Calls'
  <2>1. Len(pending') = 0
    BY <1>2
  <2> QED
    BY <1>5, <2>1 DEF Calls
<1>22. Finishing'
  <2>1. step' = Steps => Loads /\ tracker = Steps /\ PartsWhole(Steps)
    BY <1>2, <1>4, Numbers
  <2>2. trainer' # "done" /\ job' = job /\ disk' = disk /\ tracker' = tracker
    BY <1>2
  <2>3. PartsWhole(Steps) =>
          \A part \in {"actor"} \cup (IF job.critic THEN {"critic"} ELSE {}) : disk[Steps][part] = "whole"
    BY DEF PartsWhole
  <2> QED
    BY <2>1, <2>2, <2>3 DEF Finishing, PartsWhole
<1>23. Directories'
  <2> SUFFICES ASSUME job.keep > 0 PROVE Directories'
    BY <1>2 DEF Directories
  <2>1. job.keep \in Nat /\ Len(<<>>) = 0
    BY <1>3, Settings
  <2>2. PICK all \in SUBSET (1..Steps) :
          /\ Cardinality(all) <= job.keep * (restarts + 1)
          /\ \A s \in 1..Steps : disk[s].actor # "none" => s \in all
    BY <1>1, Kept
  <2> QED
    BY <1>2, <2>1, <2>2 DEF Directories
<1> QED
  BY <1>11, <1>13, <1>14, <1>17, <1>18, <1>19, <1>20, <1>21, <1>22, <1>23 DEF CkptInv

(* Every step of Checkpoint preserves the invariant. *)
LEMMA CkptStep == CkptInv /\ [CkptNext]_ckptVars => CkptInv'
<1> SUFFICES ASSUME CkptInv, [CkptNext]_ckptVars PROVE CkptInv'
  OBVIOUS
<1>1. CASE Feed
  BY <1>1, FeedKeeps
<1>2. CASE \E esi \in BOOLEAN : Train(esi)
  BY <1>2, TrainKeeps
<1>3. CASE \E part \in {"actor", "critic"} : BeginPart(part) \/ EndPart(part)
  BY <1>3, BeginActorKeeps, BeginCriticKeeps, EndActorKeeps, EndCriticKeeps
<1>4. CASE WriteData
  BY <1>4, WriteDataKeeps
<1>5. CASE \E r \in late : WriteLateData(r)
  BY <1>5, WriteLateDataKeeps
<1>6. CASE WriteTrackerFile
  <2>1. Head(todo) = Truncate \/ Head(todo) = Name
    BY <1>6 DEF WriteTrackerFile, AtDiskOp, Truncate, Name
  <2> QED
    BY <1>6, <2>1, TruncateKeeps, NameKeeps
<1>7. CASE Finalise
  BY <1>7, FinaliseKeeps
<1>8. CASE AsyncWritten
  BY <1>8, AsyncWrittenKeeps
<1>9. CASE Return
  BY <1>9, ReturnKeeps
<1>10. CASE CrashAndRestart
  BY <1>10, CrashKeeps
<1>11. CASE CkptStopped \/ UNCHANGED ckptVars
  BY <1>11, StoppedKeeps DEF CkptStopped
<1> QED
  BY <1>1, <1>2, <1>3, <1>4, <1>5, <1>6, <1>7, <1>8, <1>9, <1>10, <1>11 DEF CkptNext, Save

-------------------------------------------------------------------------------
(* What the invariant implies. *)
LEMMA LeastNumber ==
  ASSUME NEW T \in SUBSET Nat, T # {}
  PROVE  \E m \in T : \A k \in T : m <= k
<1>1. PICK m \in T : \A k \in T : <<k, m>> \notin OpToRel(<, Nat)
  BY NatLessThanWellFounded, WFMin
<1>2. OpToRel(<, Nat) = {ss \in Nat \X Nat : ss[1] < ss[2]}
  BY DEF OpToRel
<1>3. ASSUME NEW k \in T PROVE m <= k
  <2>1. <<k, m>> \notin {ss \in Nat \X Nat : ss[1] < ss[2]}
    BY <1>1, <1>2
  <2>2. ~(k < m)
    BY <2>1
  <2>3. k \in Nat /\ m \in Nat
    OBVIOUS
  <2> QED
    BY <2>2, <2>3
<1> QED
  BY <1>3

(* LastTrained is the number of the newest batch in the weights. *)
LEMMA Newest ==
  ASSUME NEW t \in Nat, weights \subseteq {0} \X (1..t)
  PROVE  LastTrained \in 0..t /\ \A w \in weights : w[2] <= LastTrained
<1> DEFINE B == {w[2] : w \in weights} \cup {0}
           U == {n \in Nat : \A w \in weights : w[2] <= n}
<1>1. \A w \in weights : w[2] \in 1..t
  OBVIOUS
<1>2. t \in U
  BY <1>1
<1>3. PICK m \in U : \A k \in U : m <= k
  BY <1>2, LeastNumber
<1>4. m \in B
  <2>1. CASE m = 0
    BY <2>1
  <2>2. CASE m # 0
    <3>1. m - 1 \in Nat /\ m - 1 \notin U
      BY <1>3, <2>2
    <3>2. PICK w \in weights : ~(w[2] <= m - 1)
      BY <3>1
    <3>3. w[2] \in Nat /\ w[2] <= m /\ m \in Nat
      BY <1>1, <1>3
    <3>4. w[2] = m
      BY <3>2, <3>3
    <3> QED
      BY <3>4
  <2> QED
    BY <2>1, <2>2
<1>5. LastTrained \in B /\ \A w \in weights : w[2] <= LastTrained
  <2>1. \E b \in B : \A w \in weights : w[2] <= b
    BY <1>3, <1>4
  <2> QED
    BY <2>1 DEF LastTrained
<1>6. B \subseteq 0..t
  BY <1>1
<1> QED
  BY <1>5, <1>6

LEMMA Implied == CkptInv => ResumesWhole
<1> SUFFICES ASSUME CkptInv PROVE ResumesWhole
  OBVIOUS
<1>1. Types /\ Planned /\ Reading /\ Trained /\ Named /\ Finishing /\ Directories
  BY DEF CkptInv
<1>2. /\ job \in CkptJobs /\ step \in 0..Steps /\ tracker \in EmptyTracker..Steps
      /\ pending \in Seq(AsyncCall) /\ disk \in [1..Steps -> Directory]
      /\ position \in [DpRanks(job) -> 0..Steps] /\ inflight \in Seq(1..Steps)
      /\ restarts \in Nat
  BY <1>1, Numbers DEF Types
<1>3. CkptTypeOK
  <2>1. todo \in Seq({"begin", "end", "write", "truncate"} \X {"actor", "critic", "data", "tracker"})
    BY <1>1, LeftTyped DEF Planned, DiskOps
  <2>2. \A k \in DOMAIN pending :
          pending[k] \in [part : {"actor", "critic"}, step : 1..Steps, written : BOOLEAN]
    <3>1. \A k \in 1..Len(pending) : pending[k] \in AsyncCall
      BY <1>2, ElementOfSeq
    <3>2. DOMAIN pending = 1..Len(pending)
      BY <1>2
    <3> QED
      BY <3>1, <3>2 DEF AsyncCall
  <2> QED
    BY <1>1, <2>1, <2>2 DEF Types, CkptTypeOK
<1>4. Ordered(job) => DpRanks(job) = {0}
  BY <1>2, Settings DEF Ordered
<1>5. OrderedTracker
  <2> SUFFICES ASSUME Ordered(job), tracker \in 1..Steps PROVE Whole(tracker)
    BY DEF OrderedTracker, TrackerNamesWhole
  <2>1. PartsWhole(tracker) /\ Fits(disk[tracker], tracker, Most)
    BY <1>1 DEF Named
  <2>2. \A k \in DOMAIN Parts(job) : disk[tracker][Parts(job)[k]] = "whole"
    <3>1. CASE job.critic
      BY <2>1, <3>1 DEF Parts, PartsWhole
    <3>2. CASE ~job.critic
      BY <2>1, <3>2 DEF Parts, PartsWhole
    <3> QED
      BY <3>1, <3>2
  <2> QED
    BY <1>4, <2>1, <2>2 DEF Whole, Fits
<1>6. NothingRepeated
  <2> SUFFICES ASSUME Ordered(job) PROVE Cardinality(weights) = step * Cardinality(DpRanks(job))
    BY DEF NothingRepeated
  <2>1. Cardinality(DpRanks(job)) = 1
    BY <1>4, FS_Singleton
  <2>2. Cardinality(weights) = step
    BY <1>1 DEF Trained
  <2> QED
    BY <1>2, <2>1, <2>2, Numbers
<1>7. NothingSkipped
  <2> DEFINE skipped == ({0} \X (1..LastTrained)) \ weights
             bound == IF job.trainer = "fully_async" THEN Lead * restarts ELSE 0
             t == Taken
             read == {0} \X (1..t)
  <2> SUFFICES ASSUME Ordered(job) PROVE Cardinality(skipped) <= bound
    BY DEF NothingSkipped
  <2>1. weights \subseteq {0} \X (1..t) /\ Cardinality(weights) = step /\ t <= step + Slack(restarts)
    BY <1>1 DEF Trained
  <2>2. Slack(restarts) = bound /\ bound \in Nat
    BY <1>2, Slacks DEF Slack, Asynchronous
  <2>3. t \in Nat
    <3> DEFINE p == position[0]
               n == Len(inflight)
    <3>1. p \in Nat /\ n \in Nat /\ t = p - n
      BY <1>2, <1>4, Numbers DEF Taken
    <3>2. n = 0 \/ (inflight[1] = p - n + 1 /\ inflight[1] \in 1..Steps)
      <4>1. CASE Asynchronous /\ n # 0
        <5>1. 1 \in 1..n
          BY <3>1, <4>1
        <5>2. inflight[1] \in 1..Steps
          BY <1>2, <5>1, ElementOfSeq
        <5> QED
          BY <1>1, <4>1, <5>1, <5>2 DEF Reading
      <4>2. CASE ~Asynchronous
        BY <1>1, <4>2 DEF Reading
      <4> QED
        BY <4>1, <4>2
    <3> HIDE DEF p, n
    <3> QED
      BY <3>1, <3>2, Numbers DEF t
  <2>4. IsFiniteSet(read) /\ Cardinality(read) = t
    <3>1. IsFiniteSet({0}) /\ Cardinality({0}) = 1
      BY FS_Singleton
    <3>2. t \in Int
      BY <2>3
    <3>3. IsFiniteSet(1..t) /\ Cardinality(1..t) = IF 1 > t THEN 0 ELSE t - 1 + 1
      BY <3>2, FS_Interval
    <3>4. IsFiniteSet(read) /\ Cardinality(read) = 1 * Cardinality(1..t)
      BY <3>1, <3>3, FS_Product
    <3> HIDE DEF t, read
    <3> QED
      BY <2>3, <3>3, <3>4
  <2> HIDE DEF t, bound
  <2>5. IsFiniteSet(read \ weights) /\ Cardinality(read \ weights) = t - step
    <3>1. read \cap weights = weights
      BY <2>1
    <3> HIDE DEF read
    <3>2. Cardinality(read \ weights) = t - step
      <4>1. Cardinality(read \ weights) = Cardinality(read) - Cardinality(read \cap weights)
        BY <2>4, FS_Difference
      <4> QED
        BY <2>1, <2>4, <3>1, <4>1
    <3>3. read \ weights \in SUBSET read
      OBVIOUS
    <3> QED
      BY <2>4, <3>2, <3>3, FS_Subset
  <2>6. skipped \subseteq read \ weights
    <3>1. LastTrained \in 0..t
      BY <2>1, <2>3, Newest
    <3> QED
      BY <2>3, <3>1
  <2>7. Cardinality(skipped) <= t - step /\ Cardinality(skipped) \in Nat
    <3> HIDE DEF skipped, read
    <3> QED
      BY <2>5, <2>6, FS_Subset, FS_CardinalityType
  <2>8. t - step <= bound
    BY <1>2, <2>1, <2>2, <2>3, Numbers
  <2> HIDE DEF skipped
  <2> QED
    BY <1>2, <2>2, <2>3, <2>7, <2>8, Numbers
<1>8. Retention
  <2> DEFINE there == {s \in 1..Steps : disk[s].actor # "none"}
             most == job.keep * (restarts + 1)
  <2> SUFFICES ASSUME job.keep > 0 PROVE Cardinality(there) <= most
    BY DEF Retention
  <2>1. PICK all \in SUBSET (1..Steps) :
          Cardinality(all) <= most /\ \A s \in 1..Steps : disk[s].actor # "none" => s \in all
    BY <1>1, Kept
  <2>2. IsFiniteSet(all)
    <3>1. IsFiniteSet(1..Steps)
      BY Numbers, FS_Interval
    <3> QED
      BY <3>1, FS_Subset
  <2>3. there \in SUBSET all
    BY <2>1
  <2>4. most \in Nat
    <3>1. job.keep \in Nat
      BY <1>2, Settings
    <3> QED
      BY <1>2, <3>1
  <2> HIDE DEF there, most
  <2>5. Cardinality(there) <= Cardinality(all) /\ IsFiniteSet(there)
    BY <2>2, <2>3, FS_Subset
  <2>6. Cardinality(there) \in Nat /\ Cardinality(all) \in Nat
    BY <2>2, <2>5, FS_CardinalityType
  <2> QED
    BY <2>1, <2>4, <2>5, <2>6
<1>9. LastStepSaved
  <2> SUFFICES ASSUME trainer = "done", ~Asynchronous PROVE tracker = Steps /\ Loads
    BY DEF LastStepSaved, Asynchronous
  <2>1. tracker = Steps /\ PartsWhole(Steps)
    BY <1>1 DEF Finishing
  <2>2. tracker \in 1..Steps
    BY <2>1, Numbers
  <2>3. \A k \in DOMAIN Parts(job) : disk[tracker][Parts(job)[k]] = "whole"
    <3>1. CASE job.critic
      BY <2>1, <3>1 DEF Parts, PartsWhole
    <3>2. CASE ~job.critic
      BY <2>1, <3>2 DEF Parts, PartsWhole
    <3> QED
      BY <3>1, <3>2
  <2>4. Exists(tracker)
    <3>1. disk[tracker] \in Directory /\ disk[tracker].actor = "whole"
      BY <1>2, <2>1, <2>2 DEF PartsWhole
    <3>2. [disk[tracker] EXCEPT !.weights = {}].actor # NoDirectory(job).actor
      BY <3>1 DEF NoDirectory, Directory
    <3> QED
      BY <3>2 DEF Exists
  <2> QED
    BY <2>1, <2>2, <2>3, <2>4 DEF Loads
<1> QED
  BY <1>3, <1>5, <1>6, <1>7, <1>8, <1>9 DEF ResumesWhole

(* Whatever the crashes, the trainer resumes from a whole: CkptTypeOK,     *)
(* OrderedTracker, NothingRepeated, NothingSkipped, Retention and          *)
(* LastStepSaved hold of _load_checkpoint and the checkpoint managers.     *)
THEOREM ResumesFromWhole == CkptSpec => []ResumesWhole
<1>1. CkptInit => CkptInv
  BY CkptInitial
<1>2. CkptInv /\ [CkptNext]_ckptVars => CkptInv'
  BY CkptStep
<1>3. CkptInv => ResumesWhole
  BY Implied
<1> QED
  BY <1>1, <1>2, <1>3, PTL DEF CkptSpec

(* No step but a crash counts as a restart. *)
LEMMA OnlyCrashes ==
  ASSUME [CkptNext]_ckptVars, restarts' # restarts
  PROVE  CrashAndRestart
<1>1. ~Feed /\ ~CkptStopped /\ ~Return /\ ~AsyncWritten /\ ~UNCHANGED ckptVars
  BY DEF Feed, CkptStopped, Return, AsyncWritten, ckptVars
<1>2. \A esi \in BOOLEAN : ~Train(esi)
  BY DEF Train
<1>3. ~WriteData /\ ~WriteTrackerFile /\ ~Finalise /\ \A r \in late : ~WriteLateData(r)
  BY DEF WriteData, WriteTrackerFile, Finalise, WriteLateData
<1>4. \A part \in {"actor", "critic"} : ~BeginPart(part) /\ ~EndPart(part)
  BY DEF BeginPart, EndPart
<1> QED
  BY <1>1, <1>2, <1>3, <1>4 DEF CkptNext, Save

(* A trainer that comes back with more than one checkpoint kept is never   *)
(* behind its last completed save.                                         *)
THEOREM RestartsKeepProgress == CkptSpec => ProgressKept
<1>1. ASSUME CkptInv, [CkptNext]_ckptVars
      PROVE  restarts' # restarts /\ job.keep # 1 /\ trainer' = "running" => step' >= durable
  <2> SUFFICES ASSUME restarts' # restarts, job.keep # 1, trainer' = "running"
               PROVE  step' >= durable
    OBVIOUS
  <2>1. CrashAndRestart
    BY <1>1, OnlyCrashes
  <2>2. CkptInv'
    BY <1>1, CkptStep
  <2>3. Advanced' /\ Types'
    BY <2>2 DEF CkptInv
  <2>4. job' = job /\ durable' = durable
    BY <2>1 DEF CrashAndRestart
  <2>5. durable' <= step'
    BY <2>3, <2>4 DEF Advanced
  <2>6. durable \in Nat /\ step' \in Nat
    BY <2>3, <2>4, Numbers DEF Types
  <2> QED
    BY <2>4, <2>5, <2>6
<1> QED
  BY <1>1, CkptInitial, CkptStep, PTL DEF CkptSpec, ProgressKept

-------------------------------------------------------------------------------
(* The rate-limited reward loop.  A limiter whose requests are within its  *)
(* capacity is Metered: what it has let through and what is in its bucket  *)
(* never exceed what was refilled.  One whose requests are beyond it is    *)
(* Spaced: it books each request as of the moment its sleep ends, the last *)
(* at Through, and the next cannot end before Through + cost.              *)
Large(l) == setting[l].cost > Capacity(l)
Through(l) == bucket[l].last - bucket[l].tokens
Booked(l, from, to) ==
  {r \in Requests : passed[l][r] \in from..to \/ (stage[r] = Reserved(l) /\ wake[r] \in from..to)}

LimTypes ==
  /\ setting \in RateLimits /\ asynchronous \in BOOLEAN /\ clock \in Nat
  /\ bucket \in [Limiters -> [tokens : Int, last : Nat]]
  /\ \A l \in Limiters : bucket[l].tokens <= Capacity(l) /\ bucket[l].last <= clock
  /\ stage \in [Requests -> Stages] /\ wake \in [Requests -> Nat]
  /\ passed \in [Limiters -> [Requests -> NotYet..clock]]
  /\ waiters \in Seq(Requests) /\ submitted \in Seq(Requests) /\ calls \in SUBSET Requests
  /\ reward \in [Requests -> {"none", "score", "zero"}]
Metered(l) ==
  /\ bucket[l].tokens >= 0
  /\ \A from, to \in 0..clock : from <= to =>
       LetThrough(l, from, to) <= Capacity(l) + setting[l].rate * (to - from)
  /\ \A from \in 0..clock :
       LetThrough(l, from, clock) <= Capacity(l) + setting[l].rate * (clock - from) - Refilled(l)
Spaced(l) ==
  /\ \A r \in Requests :
       passed[l][r] <= Through(l) /\ (stage[r] = Reserved(l) => wake[r] <= Through(l))
  /\ \A from, to \in Nat : from <= to =>
       setting[l].cost * Cardinality(Booked(l, from, to)) <= setting[l].cost + (to - from)
Reservations ==
  \A r \in Requests : \A l \in {"rpm", "tpm"} :
    stage[r] = Reserved(l) => l \in Limiters /\ Large(l) /\ wake[r] >= clock
Semaphored ==
  /\ Cardinality(Holders) <= MaxConcurrent
  /\ asynchronous => calls \subseteq Holders /\ submitted = <<>>
  /\ ~asynchronous => Cardinality(calls) <= PoolSize
LimInv ==
  /\ LimTypes /\ Reservations /\ Semaphored
  /\ \A l \in Limiters : (~Large(l) => Metered(l)) /\ (Large(l) => Spaced(l))

LEMMA Limits ==
  ASSUME setting \in RateLimits
  PROVE  /\ IsFiniteSet(Requests) /\ Limiters \subseteq {"rpm", "tpm"}
         /\ \A l \in Limiters :
              /\ Capacity(l) = setting[l].rate
              /\ setting[l].rate \in Nat /\ setting[l].rate > 0
              /\ setting[l].cost \in Nat /\ setting[l].cost > 0
              /\ Large(l) => setting[l].rate = 1
         /\ MaxConcurrent \in Nat /\ MaxConcurrent > 0 /\ Timeout \in Nat
         /\ PoolSize \in Nat /\ PoolSize > 0
BY LimiterAssumption DEF Limiters, Capacity, Large

LEMMA StagesApart ==
  /\ Reserved("rpm") = "rpm_reserved" /\ Reserved("tpm") = "tpm_reserved"
  /\ \A l \in {"rpm", "tpm"} :
       /\ l \in Stages /\ Reserved(l) \in Stages /\ After(l) \in Stages
       /\ \A k \in {"rpm", "tpm"} : l # Reserved(k) /\ After(l) # Reserved(k)
                                    /\ (k # l => Reserved(l) # Reserved(k))
       /\ l # "computing" /\ Reserved(l) # "computing" /\ After(l) # "computing"
       /\ AfterDecoding # Reserved(l)
       /\ \A s \in {"decoding", "computing", "done"} : s # Reserved(l) /\ s # l
  /\ AfterDecoding \in Stages /\ AfterDecoding # "computing"
BY DEF Reserved, After, AfterDecoding, Stages

(* What a bucket holds now. *)
LEMMA Refills ==
  ASSUME LimTypes, NEW l \in Limiters
  PROVE  /\ Refilled(l) \in Int /\ Refilled(l) <= Capacity(l)
         /\ Refilled(l) <= bucket[l].tokens + (clock - bucket[l].last) * setting[l].rate
         /\ bucket[l].tokens <= Refilled(l)
<1> DEFINE t == bucket[l].tokens
           e == clock - bucket[l].last
           c == setting[l].rate
           g == e * c
<1>1. c \in Nat /\ Capacity(l) = c
  BY Limits DEF LimTypes
<1>2. t \in Int /\ t <= c /\ e \in Nat
  BY <1>1 DEF LimTypes
<1> HIDE DEF t, e, c
<1>3. g \in Nat
  BY <1>1, <1>2
<1>4. Refilled(l) = IF c < t + g THEN c ELSE t + g
  BY <1>1 DEF Refilled, Least, t, e, c
<1> HIDE DEF g
<1>5. Refilled(l) \in Int /\ Refilled(l) <= c /\ Refilled(l) <= t + g /\ t <= Refilled(l)
  BY <1>1, <1>2, <1>3, <1>4
<1> QED
  BY <1>1, <1>5 DEF t, e, c, g

LEMMA SleepTyped ==
  ASSUME LimTypes, NEW l \in Limiters, NEW t \in Int, t < setting[l].cost
  PROVE  SleepFor(l, t) \in Nat /\ (setting[l].rate = 1 => SleepFor(l, t) = clock + setting[l].cost - t)
<1> DEFINE a == setting[l].cost - t
           b == setting[l].rate
<1>1. a \in Nat /\ a > 0 /\ b \in Nat /\ b > 0 /\ clock \in Nat
  BY Limits, SMTT(60) DEF LimTypes
<1>2. SleepFor(l, t) = clock + CeilDivide(a, b) /\ CeilDivide(a, b) = (a + b - 1) \div b
  BY DEF SleepFor, CeilDivide
<1>3. setting[l].cost \in Nat
  BY Limits DEF LimTypes
<1>4. b = 1 => clock + a = clock + setting[l].cost - t
  BY <1>1, <1>3
<1> HIDE DEF a, b
<1>5. a + b - 1 \in Nat
  BY <1>1
<1>6. (a + b - 1) \div b \in Nat
  BY <1>1, <1>5
<1>7. b = 1 => (a + b - 1) \div b = a
  BY <1>1
<1> QED
  BY <1>1, <1>2, <1>4, <1>6, <1>7 DEF b

LEMMA Counted ==
  ASSUME IsFiniteSet(Requests), NEW S \in SUBSET Requests
  PROVE  /\ IsFiniteSet(S) /\ Cardinality(S) \in Nat
         /\ \A T \in SUBSET S : Cardinality(T) <= Cardinality(S)
         /\ \A r \in Requests : \A T \in SUBSET (S \cup {r}) : Cardinality(T) <= Cardinality(S) + 1
<1>1. IsFiniteSet(S) /\ Cardinality(S) \in Nat
  BY FS_Subset, FS_CardinalityType
<1>2. \A T \in SUBSET S : Cardinality(T) <= Cardinality(S)
  BY <1>1, FS_Subset
<1>3. ASSUME NEW r \in Requests, NEW T \in SUBSET (S \cup {r})
      PROVE  Cardinality(T) <= Cardinality(S) + 1
  <2> DEFINE U == S \cup {r}
  <2>1. IsFiniteSet(U) /\ Cardinality(U) \in {Cardinality(S), Cardinality(S) + 1}
    BY <1>1, FS_AddElement
  <2>2. IsFiniteSet(T) /\ Cardinality(T) <= Cardinality(U)
    BY <2>1, FS_Subset
  <2>3. Cardinality(T) \in Nat
    BY <2>2, FS_CardinalityType
  <2> HIDE DEF U
  <2> QED
    BY <1>1, <2>1, <2>2, <2>3
<1> QED
  BY <1>1, <1>2, <1>3

LEMMA LimInitial == LimInit => LimInv
<1> SUFFICES ASSUME LimInit PROVE LimInv
  OBVIOUS
<1>1. /\ setting \in RateLimits /\ asynchronous \in BOOLEAN /\ clock = 0
      /\ bucket = [l \in Limiters |-> [tokens |-> Capacity(l), last |-> 0]]
      /\ stage = [r \in Requests |-> "decoding"] /\ wake = [r \in Requests |-> 0]
      /\ passed = [l \in Limiters |-> [r \in Requests |-> NotYet]]
      /\ waiters = <<>> /\ submitted = <<>> /\ calls = {} /\ reward = [r \in Requests |-> "none"]
  BY DEF LimInit
<1>2. LimTypes
  BY <1>1, Limits, SMTT(30) DEF LimTypes, Stages, NotYet
<1>3. Reservations
  BY <1>1, StagesApart DEF Reservations
<1>4. Semaphored
  <2>1. Holders = {} /\ Cardinality({}) = 0
    BY <1>1, FS_EmptySet DEF Holders
  <2> QED
    BY <1>1, <2>1, Limits DEF Semaphored
<1>5. ASSUME NEW l \in Limiters PROVE (~Large(l) => Metered(l)) /\ (Large(l) => Spaced(l))
  <2>1. /\ bucket[l].tokens = Capacity(l) /\ bucket[l].last = 0 /\ \A r \in Requests : passed[l][r] = -1
        /\ l \in {"rpm", "tpm"}
    BY <1>1, <1>5, Limits DEF NotYet
  <2>2. Cardinality({}) = 0
    BY FS_EmptySet
  <2>3. /\ Capacity(l) = setting[l].rate /\ setting[l].rate \in Nat /\ setting[l].cost \in Nat
        /\ Large(l) => setting[l].rate = 1
    BY <1>1, Limits
  <2>4. \A from, to \in Nat : LetThrough(l, from, to) = 0 /\ Booked(l, from, to) = {}
    <3> TAKE from, to \in Nat
    <3>1. -1 \notin from..to /\ stage = [r \in Requests |-> "decoding"]
      BY <1>1
    <3>2. {r \in Requests : passed[l][r] \in from..to} = {} /\ Booked(l, from, to) = {}
      BY <1>1, <2>1, <3>1, StagesApart DEF Booked
    <3> DEFINE S == {r \in Requests : passed[l][r] \in from..to}
    <3>3. LetThrough(l, from, to) = setting[l].cost * Cardinality(S)
      BY DEF LetThrough
    <3>4. Cardinality(S) = 0
      BY <2>2, <3>2
    <3> HIDE DEF S
    <3> QED
      BY <2>3, <3>2, <3>3, <3>4
  <2>5. Refilled(l) <= Capacity(l) /\ Refilled(l) \in Int
    BY <1>2, Refills
  <2>6. Metered(l)
    <3>1. ASSUME NEW from \in 0..clock, NEW to \in 0..clock, from <= to
          PROVE  0 <= Capacity(l) + setting[l].rate * (to - from)
      BY <1>1, <2>3, <3>1
    <3>2. ASSUME NEW from \in 0..clock
          PROVE  0 <= Capacity(l) + setting[l].rate * (clock - from) - Refilled(l)
      BY <1>1, <2>3, <2>5, <3>2
    <3> QED
      BY <1>1, <2>1, <2>3, <2>4, <3>1, <3>2 DEF Metered
  <2>7. ASSUME Large(l) PROVE Spaced(l)
    <3>1. Through(l) = -1
      BY <2>1, <2>3, <2>7 DEF Through
    <3>2. \A r \in Requests : stage[r] # Reserved(l)
      BY <1>1, <2>1, StagesApart
    <3>3. ASSUME NEW from \in Nat, NEW to \in Nat, from <= to
          PROVE  setting[l].cost * Cardinality(Booked(l, from, to)) <= setting[l].cost + (to - from)
      <4>1. Cardinality(Booked(l, from, to)) = 0
        BY <2>2, <2>4
      <4> QED
        BY <2>3, <3>3, <4>1
    <3> QED
      BY <2>1, <3>1, <3>2, <3>3 DEF Spaced
  <2> QED
    BY <2>6, <2>7
<1> QED
  BY <1>2, <1>3, <1>4, <1>5 DEF LimInv

(* Steps that leave the reservations of a limiter as they are. *)
Undisturbed(l) ==
  \A r \in Requests : stage'[r] = Reserved(l) => stage[r] = Reserved(l) /\ wake'[r] = wake[r]

LEMMA ReservationsStay ==
  ASSUME Reservations, UNCHANGED <<setting, clock>>, \A l \in {"rpm", "tpm"} : Undisturbed(l)
  PROVE  Reservations'
<1>1. \A l : Large(l)' = Large(l) /\ Limiters' = Limiters
  BY DEF Large, Capacity, Limiters
<1> QED
  BY <1>1 DEF Reservations, Undisturbed

LEMMA LimiterStays ==
  ASSUME LimTypes, NEW l \in Limiters, (~Large(l) => Metered(l)) /\ (Large(l) => Spaced(l)),
         UNCHANGED <<setting, clock>>, bucket'[l] = bucket[l], passed'[l] = passed[l],
         Undisturbed(l)
  PROVE  (~Large(l) => Metered(l))' /\ (Large(l) => Spaced(l))'
<1>1. /\ Large(l)' = Large(l) /\ Through(l)' = Through(l) /\ Refilled(l)' = Refilled(l)
      /\ Capacity(l)' = Capacity(l) /\ Limiters' = Limiters
      /\ \A from, to : LetThrough(l, from, to)' = LetThrough(l, from, to)
  BY DEF Large, Through, Refilled, Capacity, Least, LetThrough, Limiters
<1>2. (~Large(l) => Metered(l))'
  BY <1>1 DEF Metered
<1>3. ASSUME Large(l) PROVE Spaced(l)'
  <2>1. /\ \A r \in Requests :
             passed[l][r] <= Through(l) /\ (stage[r] = Reserved(l) => wake[r] <= Through(l))
        /\ \A from, to \in Nat : from <= to =>
             setting[l].cost * Cardinality(Booked(l, from, to)) <= setting[l].cost + (to - from)
    BY <1>3 DEF Spaced
  <2>2. \A r \in Requests :
          passed'[l][r] <= Through(l)' /\ (stage'[r] = Reserved(l) => wake'[r] <= Through(l)')
    BY <1>1, <2>1 DEF Undisturbed
  <2>3. ASSUME NEW from \in Nat, NEW to \in Nat, from <= to
        PROVE  setting[l].cost * Cardinality(Booked(l, from, to)') <= setting[l].cost + (to - from)
    <3> DEFINE S == Booked(l, from, to)
               T == Booked(l, from, to)'
               c == setting[l].cost
    <3>1. T \subseteq S /\ S \subseteq Requests
      BY DEF Booked, Undisturbed
    <3>2. c \in Nat /\ IsFiniteSet(Requests)
      BY Limits DEF LimTypes
    <3> HIDE DEF S, T, c
    <3>3. Cardinality(T) <= Cardinality(S) /\ Cardinality(S) \in Nat /\ Cardinality(T) \in Nat
      BY <3>1, <3>2, Counted
    <3>4. c * Cardinality(T) <= c * Cardinality(S) /\ c * Cardinality(S) \in Nat
          /\ c * Cardinality(T) \in Nat
      BY <3>2, <3>3
    <3>5. c * Cardinality(S) <= c + (to - from)
      BY <2>1, <2>3 DEF S, c
    <3>6. c * Cardinality(T) <= c + (to - from)
      BY <3>2, <3>4, <3>5
    <3> QED
      BY <3>6 DEF T, c
  <2> QED
    BY <2>2, <2>3 DEF Spaced
<1> QED
  BY <1>1, <1>2, <1>3

LEMMA AllStay ==
  ASSUME LimInv, LimTypes', Semaphored', UNCHANGED <<setting, clock, bucket, passed>>,
         \A l \in {"rpm", "tpm"} : Undisturbed(l)
  PROVE  LimInv'
<1>1. LimTypes /\ Reservations /\ \A l \in Limiters : (~Large(l) => Metered(l)) /\ (Large(l) => Spaced(l))
  BY DEF LimInv
<1>2. Limiters \subseteq {"rpm", "tpm"} /\ Limiters' = Limiters
  BY <1>1, Limits DEF LimTypes, Limiters
<1>3. Reservations'
  BY <1>1, ReservationsStay
<1>4. ASSUME NEW l \in Limiters PROVE (~Large(l) => Metered(l))' /\ (Large(l) => Spaced(l))'
  BY <1>1, <1>2, LimiterStays
<1> QED
  BY <1>2, <1>3, <1>4 DEF LimInv

LEMMA DecodedKeeps == ASSUME LimInv, NEW r \in Requests, Decoded(r) PROVE LimInv'
<1>1. LimTypes /\ Semaphored
  BY DEF LimInv
<1>2. /\ stage[r] = "decoding" /\ stage' = [stage EXCEPT ![r] = AfterDecoding]
      /\ waiters' = Queued(r, AfterDecoding)
      /\ UNCHANGED <<setting, asynchronous, clock, bucket, wake, passed, submitted, calls, reward>>
  BY DEF Decoded
<1>3. waiters' \in Seq(Requests)
  BY <1>1, <1>2 DEF Queued, LimTypes
<1>4. LimTypes'
  BY <1>1, <1>2, <1>3, StagesApart DEF LimTypes, Limiters, Capacity
<1>5. Holders' = Holders
  BY <1>1, <1>2, StagesApart DEF Holders, LimTypes
<1>6. Semaphored'
  BY <1>1, <1>2, <1>5 DEF Semaphored
<1>7. \A l \in {"rpm", "tpm"} : Undisturbed(l)
  BY <1>1, <1>2, StagesApart DEF Undisturbed, LimTypes
<1> QED
  BY <1>2, <1>4, <1>6, <1>7, AllStay

LEMMA EnterKeeps == ASSUME LimInv, EnterSemaphore PROVE LimInv'
<1> DEFINE r == Head(waiters)
<1>1. LimTypes /\ Semaphored
  BY DEF LimInv
<1>2. /\ waiters # <<>> /\ Cardinality(Holders) < MaxConcurrent
      /\ stage' = [stage EXCEPT ![r] = "computing"] /\ wake' = [wake EXCEPT ![r] = clock + Timeout]
      /\ asynchronous => calls' = calls \cup {r} /\ submitted' = submitted
      /\ ~asynchronous => submitted' = Append(submitted, r) /\ calls' = calls
      /\ waiters' = Tail(waiters)
      /\ UNCHANGED <<setting, asynchronous, clock, bucket, passed, reward>>
  BY DEF EnterSemaphore
<1>3. r \in Requests /\ waiters' \in Seq(Requests)
  BY <1>1, <1>2 DEF LimTypes
<1> HIDE DEF r
<1>4. submitted' \in Seq(Requests) /\ calls' \in SUBSET Requests
  <2>1. submitted \in Seq(Requests) /\ calls \in SUBSET Requests /\ asynchronous \in BOOLEAN
    BY <1>1 DEF LimTypes
  <2>2. Append(submitted, r) \in Seq(Requests) /\ calls \cup {r} \in SUBSET Requests
    BY <1>3, <2>1, AppendProperties
  <2> QED
    BY <1>2, <2>1, <2>2
<1>5. LimTypes'
  <2>1. wake' \in [Requests -> Nat]
    <3>1. clock + Timeout \in Nat /\ wake \in [Requests -> Nat]
      BY <1>1, Limits DEF LimTypes
    <3> QED
      BY <1>2, <3>1
  <2>2. stage' \in [Requests -> Stages]
    BY <1>1, <1>2 DEF LimTypes, Stages
  <2> QED
    BY <1>1, <1>2, <1>3, <1>4, <2>1, <2>2 DEF LimTypes, Limiters, Capacity
<1>6. Holders' = Holders \cup {r}
  BY <1>1, <1>2, <1>3 DEF Holders, LimTypes
<1>7. Semaphored'
  <2>1. Holders \subseteq Requests /\ Holders' \subseteq Requests
    BY DEF Holders
  <2>2. Cardinality(Holders') <= Cardinality(Holders) + 1 /\ Cardinality(Holders) \in Nat
        /\ Cardinality(Holders') \in Nat
    BY <1>1, <1>3, <1>6, <2>1, Counted, Limits DEF LimTypes
  <2>3. Cardinality(Holders') <= MaxConcurrent
    BY <1>1, <1>2, <2>2, Limits DEF LimTypes
  <2> QED
    BY <1>1, <1>2, <1>6, <2>3 DEF Semaphored
<1>8. \A l \in {"rpm", "tpm"} : Undisturbed(l)
  BY <1>1, <1>2, StagesApart DEF Undisturbed, LimTypes
<1> QED
  BY <1>2, <1>5, <1>7, <1>8, AllStay

LEMMA ThreadKeeps == ASSUME LimInv, ThreadStarts PROVE LimInv'
<1>1. LimTypes /\ Semaphored
  BY DEF LimInv
<1>2. /\ submitted # <<>> /\ Cardinality(calls) < PoolSize /\ calls' = calls \cup {Head(submitted)}
      /\ submitted' = Tail(submitted)
      /\ UNCHANGED <<setting, asynchronous, clock, bucket, stage, wake, passed, waiters, reward>>
  BY DEF ThreadStarts
<1>3. Head(submitted) \in Requests /\ submitted' \in Seq(Requests)
  BY <1>1, <1>2 DEF LimTypes
<1>4. LimTypes'
  BY <1>1, <1>2, <1>3 DEF LimTypes, Limiters, Capacity
<1>5. Semaphored'
  <2>1. ~asynchronous /\ Holders' = Holders
    BY <1>1, <1>2 DEF Semaphored, Holders
  <2>2. Cardinality(calls') <= Cardinality(calls) + 1 /\ Cardinality(calls) \in Nat
        /\ Cardinality(calls') \in Nat
    <3>1. IsFiniteSet(Requests) /\ calls \in SUBSET Requests /\ calls' \in SUBSET Requests
      BY <1>1, <1>2, <1>3, Limits DEF LimTypes
    <3>2. calls' \in SUBSET (calls \cup {Head(submitted)})
      BY <1>2
    <3> QED
      BY <1>3, <3>1, <3>2, Counted
  <2>3. Cardinality(calls') <= PoolSize
    BY <1>1, <1>2, <2>2, Limits DEF LimTypes
  <2> QED
    BY <1>1, <1>2, <2>1, <2>3 DEF Semaphored
<1>6. \A l \in {"rpm", "tpm"} : Undisturbed(l)
  BY <1>2 DEF Undisturbed
<1> QED
  BY <1>2, <1>4, <1>5, <1>6, AllStay

LEMMA CallEndsKeeps == ASSUME LimInv, NEW r \in Requests, CallEnds(r) PROVE LimInv'
<1>1. LimTypes /\ Semaphored
  BY DEF LimInv
<1>2. /\ r \in calls /\ calls' = calls \ {r}
      /\ stage[r] = "computing" =>
           /\ stage' = [stage EXCEPT ![r] = "done"]
           /\ \E v \in {"score", "zero"} : reward' = [reward EXCEPT ![r] = v]
      /\ stage[r] # "computing" => UNCHANGED <<stage, reward>>
      /\ UNCHANGED <<setting, asynchronous, clock, bucket, wake, passed, waiters, submitted>>
  BY DEF CallEnds
<1>3. stage' \in [Requests -> Stages] /\ reward' \in [Requests -> {"none", "score", "zero"}]
  BY <1>1, <1>2 DEF LimTypes, Stages
<1>4. LimTypes'
  BY <1>1, <1>2, <1>3 DEF LimTypes, Limiters, Capacity
<1>5. Semaphored'
  <2>1. Holders \ {r} \subseteq Holders' /\ Holders' \subseteq Holders /\ Holders \subseteq Requests
    BY <1>1, <1>2 DEF Holders, LimTypes
  <2>2. IsFiniteSet(Requests) /\ calls \in SUBSET Requests /\ calls' \in SUBSET calls
    BY <1>1, <1>2, Limits DEF LimTypes
  <2>3. /\ Cardinality(Holders') <= Cardinality(Holders) /\ Cardinality(Holders) \in Nat
        /\ Cardinality(calls') <= Cardinality(calls) /\ Cardinality(calls) \in Nat
        /\ Cardinality(Holders') \in Nat /\ Cardinality(calls') \in Nat
    <3>1. Holders' \in SUBSET Requests /\ calls' \in SUBSET Requests
      BY <2>1, <2>2
    <3> QED
      BY <2>1, <2>2, <3>1, Counted
  <2>4. /\ Cardinality(Holders') <= MaxConcurrent
        /\ ~asynchronous => Cardinality(calls') <= PoolSize
    BY <1>1, <2>3, Limits DEF LimTypes, Semaphored
  <2> QED
    BY <1>1, <1>2, <2>1, <2>4 DEF Semaphored
<1>6. \A l \in {"rpm", "tpm"} : Undisturbed(l)
  BY <1>1, <1>2, StagesApart DEF Undisturbed, LimTypes
<1> QED
  BY <1>2, <1>4, <1>5, <1>6, AllStay

(* A call that has not begun leaves the queue of the executor. *)
LEMMA WithdrawnTyped ==
  ASSUME submitted \in Seq(Requests), NEW r
  PROVE  Withdrawn(r) \in Seq(Requests) /\ (submitted = <<>> => Withdrawn(r) = <<>>)
<1> DEFINE n == Len(submitted)
           at == CHOOSE k \in DOMAIN submitted : submitted[k] = r
<1>1. n \in Nat /\ DOMAIN submitted = 1..n /\ \A k \in 1..n : submitted[k] \in Requests
  BY ElementOfSeq
<1>2. CASE \E k \in DOMAIN submitted : submitted[k] = r
  <2>1. at \in 1..n
    BY <1>1, <1>2
  <2>2. SubSeq(submitted, 1, at - 1) \in Seq(Requests) /\ SubSeq(submitted, at + 1, n) \in Seq(Requests)
    <3> HIDE DEF at, n
    <3>1. /\ 1 \in Int /\ at - 1 \in Int /\ \A k \in 1..at - 1 : submitted[k] \in Requests
          /\ at + 1 \in Int /\ n \in Int /\ \A k \in at + 1..n : submitted[k] \in Requests
      BY <1>1, <2>1
    <3> QED
      BY <3>1, SubSeqProperties
  <2>3. Withdrawn(r) = SubSeq(submitted, 1, at - 1) \o SubSeq(submitted, at + 1, n)
    BY <1>2 DEF Withdrawn
  <2> HIDE DEF at, n
  <2>4. Withdrawn(r) \in Seq(Requests)
    BY <2>2, <2>3, ConcatProperties
  <2> QED
    BY <1>1, <2>1, <2>4 DEF n
<1>3. CASE ~\E k \in DOMAIN submitted : submitted[k] = r
  BY <1>3 DEF Withdrawn
<1> QED
  BY <1>2, <1>3

LEMMA TimedOutKeeps == ASSUME LimInv, NEW r \in Requests, TimedOut(r) PROVE LimInv'
<1>1. LimTypes /\ Semaphored
  BY DEF LimInv
<1>2. /\ stage[r] = "computing" /\ calls' = Cancelled(r) /\ submitted' = Withdrawn(r)
      /\ stage' = [stage EXCEPT ![r] = "done"] /\ reward' = [reward EXCEPT ![r] = "zero"]
      /\ UNCHANGED <<setting, asynchronous, clock, bucket, wake, passed, waiters>>
  BY DEF TimedOut
<1>3. /\ submitted' \in Seq(Requests) /\ (submitted = <<>> => submitted' = <<>>)
      /\ asynchronous => calls' = calls \ {r}
      /\ ~asynchronous => calls' = calls
  BY <1>1, <1>2, WithdrawnTyped DEF LimTypes, Cancelled
<1>4. stage' \in [Requests -> Stages] /\ reward' \in [Requests -> {"none", "score", "zero"}]
  BY <1>1, <1>2 DEF LimTypes, Stages
<1>5. LimTypes'
  BY <1>1, <1>2, <1>3, <1>4 DEF LimTypes, Limiters, Capacity
<1>6. Semaphored'
  <2>1. Holders' = Holders \ {r} /\ Holders \subseteq Requests
    BY <1>1, <1>2 DEF Holders, LimTypes
  <2>2. Cardinality(Holders') <= Cardinality(Holders) /\ Cardinality(Holders) \in Nat
        /\ Cardinality(Holders') \in Nat
    <3>1. Holders' \in SUBSET Requests /\ IsFiniteSet(Requests)
      BY <1>1, <2>1, Limits DEF LimTypes
    <3> QED
      BY <2>1, <3>1, Counted
  <2>3. Cardinality(Holders') <= MaxConcurrent
    BY <1>1, <2>2, Limits DEF LimTypes, Semaphored
  <2> QED
    BY <1>1, <1>2, <1>3, <2>1, <2>3 DEF Semaphored
<1>7. \A l \in {"rpm", "tpm"} : Undisturbed(l)
  BY <1>1, <1>2, StagesApart DEF Undisturbed, LimTypes
<1> QED
  BY <1>2, <1>5, <1>6, <1>7, AllStay

LEMMA PassesTyped ==
  ASSUME LimTypes, NEW r \in Requests, NEW l \in Limiters, Passes(r, l, clock)
  PROVE  /\ stage' \in [Requests -> Stages] /\ waiters' \in Seq(Requests)
         /\ passed' \in [Limiters -> [Requests -> NotYet..clock]]
         /\ stage' = [stage EXCEPT ![r] = After(l)] /\ passed' = [passed EXCEPT ![l][r] = clock]
<1>1. l \in {"rpm", "tpm"} /\ clock \in NotYet..clock
  BY Limits DEF LimTypes, NotYet
<1>2. /\ stage' = [stage EXCEPT ![r] = After(l)] /\ passed' = [passed EXCEPT ![l][r] = clock]
      /\ waiters' = Queued(r, After(l))
  BY DEF Passes
<1>3. stage' \in [Requests -> Stages]
  BY <1>1, <1>2, StagesApart DEF LimTypes
<1>4. waiters' \in Seq(Requests)
  BY <1>2 DEF LimTypes, Queued
<1>5. passed' \in [Limiters -> [Requests -> NotYet..clock]]
  BY <1>1, <1>2 DEF LimTypes
<1> QED
  BY <1>2, <1>3, <1>4, <1>5

PassedIn(l, from, to) == {r \in Requests : passed[l][r] \in from..to}

LEMMA StandardKeeps ==
  ASSUME LimInv, NEW r \in Requests, NEW l \in Limiters, AcquireStandard(r, l)
  PROVE  LimInv'
<1> DEFINE R == Refilled(l)
           c == setting[l].cost
           q == setting[l].rate
<1>1. LimTypes /\ Semaphored /\ Reservations
      /\ \A k \in Limiters : (~Large(k) => Metered(k)) /\ (Large(k) => Spaced(k))
  BY DEF LimInv
<1>2. /\ stage[r] = l /\ c <= Capacity(l)
      /\ R >= c => /\ bucket' = [bucket EXCEPT ![l] = [tokens |-> R - c, last |-> clock]]
                   /\ Passes(r, l, clock) /\ wake' = wake
      /\ ~(R >= c) => /\ bucket' = [bucket EXCEPT ![l] = [tokens |-> R, last |-> clock]]
                      /\ wake' = [wake EXCEPT ![r] = SleepFor(l, R)]
                      /\ UNCHANGED <<stage, waiters, passed>>
      /\ UNCHANGED <<setting, asynchronous, clock, submitted, calls, reward>>
  BY DEF AcquireStandard
<1>3. /\ l \in {"rpm", "tpm"} /\ Limiters \subseteq {"rpm", "tpm"} /\ IsFiniteSet(Requests)
      /\ Capacity(l) = q /\ q \in Nat /\ q > 0 /\ c \in Nat /\ c > 0 /\ clock \in Nat
  BY <1>1, Limits DEF LimTypes
<1>4. R \in Int /\ R <= q
  BY <1>1, <1>3, Refills
<1>5. ~Large(l) /\ Metered(l)
  BY <1>1, <1>2, <1>3 DEF Large
<1>6. ~(R >= c) => SleepFor(l, R) \in Nat
  BY <1>1, <1>3, <1>4, SleepTyped
<1> HIDE DEF R, c, q
<1>7. \A k \in {"rpm", "tpm"} : Undisturbed(k)
  <2>1. CASE R >= c
    <3>1. stage' = [stage EXCEPT ![r] = After(l)] /\ wake' = wake
      BY <1>1, <1>2, <2>1, PassesTyped
    <3> QED
      BY <1>1, <1>3, <3>1, StagesApart DEF Undisturbed, LimTypes
  <2>2. CASE ~(R >= c)
    <3>1. stage' = stage /\ wake' = [wake EXCEPT ![r] = SleepFor(l, R)]
      BY <1>2, <2>2
    <3> QED
      BY <1>1, <1>2, <1>3, <3>1, StagesApart DEF Undisturbed, LimTypes
  <2> QED
    BY <2>1, <2>2
<1>8. \E t \in Int : /\ t <= q /\ bucket' = [bucket EXCEPT ![l] = [tokens |-> t, last |-> clock]]
                     /\ t = IF R >= c THEN R - c ELSE R
  BY <1>2, <1>3, <1>4
<1>9. PICK t \in Int : /\ t <= q /\ bucket' = [bucket EXCEPT ![l] = [tokens |-> t, last |-> clock]]
                       /\ t = IF R >= c THEN R - c ELSE R
  BY <1>8
<1>10. /\ bucket' \in [Limiters -> [tokens : Int, last : Nat]]
       /\ bucket'[l].tokens = t /\ bucket'[l].last = clock
       /\ \A k \in Limiters : k # l => bucket'[k] = bucket[k]
  BY <1>1, <1>3, <1>9 DEF LimTypes
<1>11. LimTypes'
  <2>1. /\ stage' \in [Requests -> Stages] /\ waiters' \in Seq(Requests)
        /\ passed' \in [Limiters -> [Requests -> NotYet..clock]]
    <3>1. CASE R >= c
      BY <1>1, <1>2, <3>1, PassesTyped
    <3>2. CASE ~(R >= c)
      BY <1>1, <1>2, <3>2 DEF LimTypes
    <3> QED
      BY <3>1, <3>2
  <2>2. wake' \in [Requests -> Nat]
    BY <1>1, <1>2, <1>6 DEF LimTypes
  <2>3. \A k \in Limiters : bucket'[k].tokens <= Capacity(k) /\ bucket'[k].last <= clock
    BY <1>1, <1>3, <1>9, <1>10 DEF LimTypes
  <2> QED
    BY <1>1, <1>2, <1>10, <2>1, <2>2, <2>3 DEF LimTypes, Limiters, Capacity
<1>12. Semaphored'
  <2>1. Holders' = Holders
    <3>1. CASE R >= c
      <4>1. stage' = [stage EXCEPT ![r] = After(l)]
        BY <1>1, <1>2, <3>1, PassesTyped
      <4> QED
        BY <1>1, <1>2, <1>3, <4>1, StagesApart DEF Holders, LimTypes
    <3>2. CASE ~(R >= c)
      BY <1>2, <3>2 DEF Holders
    <3> QED
      BY <3>1, <3>2
  <2> QED
    BY <1>1, <1>2, <2>1 DEF Semaphored
<1>13. Reservations'
  BY <1>1, <1>2, <1>7, ReservationsStay
<1>14. ASSUME NEW k \in Limiters, k # l PROVE (~Large(k) => Metered(k))' /\ (Large(k) => Spaced(k))'
  <2>1. passed'[k] = passed[k]
    <3>1. CASE R >= c
      <4>1. passed' = [passed EXCEPT ![l][r] = clock]
        BY <1>1, <1>2, <3>1, PassesTyped
      <4> QED
        BY <1>1, <1>14, <4>1 DEF LimTypes
    <3>2. CASE ~(R >= c)
      BY <1>2, <3>2
    <3> QED
      BY <3>1, <3>2
  <2>2. k \in {"rpm", "tpm"} /\ bucket'[k] = bucket[k] /\ UNCHANGED <<setting, clock>>
    BY <1>2, <1>3, <1>10, <1>14
  <2> QED
    BY <1>1, <1>7, <2>1, <2>2, LimiterStays
<1>15. ~Large(l)' /\ Metered(l)'
  <2>1. /\ \A from, to \in 0..clock : from <= to =>
             c * Cardinality(PassedIn(l, from, to)) <= q + q * (to - from)
        /\ \A from \in 0..clock :
             c * Cardinality(PassedIn(l, from, clock)) <= q + q * (clock - from) - R
        /\ bucket[l].tokens >= 0
    BY <1>3, <1>5 DEF Metered, LetThrough, PassedIn, c, q, R
  <2>2. R >= 0
    <3>1. bucket[l].tokens <= R /\ bucket[l].tokens \in Int
      BY <1>1, Refills DEF R, LimTypes
    <3> QED
      BY <1>4, <2>1, <3>1
  <2>3. t >= 0
    BY <1>3, <1>4, <1>9, <2>2
  <2>4. Refilled(l)' = t
    <3>1. Refilled(l)' = Least(q, t + (clock - clock) * q)
      BY <1>2, <1>3, <1>10 DEF Refilled, Capacity, q
    <3>2. (clock - clock) * q = 0
      BY <1>3
    <3> QED
      BY <1>3, <1>9, <3>1, <3>2 DEF Least
  <2>5. \A from, to \in 0..clock :
          /\ Cardinality(PassedIn(l, from, to)) \in Nat /\ Cardinality(PassedIn(l, from, to)') \in Nat
          /\ to < clock \/ ~(R >= c) =>
               Cardinality(PassedIn(l, from, to)') <= Cardinality(PassedIn(l, from, to))
          /\ Cardinality(PassedIn(l, from, to)') <= Cardinality(PassedIn(l, from, to)) + 1
    <3> TAKE from, to \in 0..clock
    <3> DEFINE S == PassedIn(l, from, to)
               T == PassedIn(l, from, to)'
    <3>1. S \in SUBSET Requests /\ T \in SUBSET Requests
      BY DEF PassedIn
    <3>2. passed' = IF R >= c THEN [passed EXCEPT ![l][r] = clock] ELSE passed
      BY <1>1, <1>2, PassesTyped
    <3>3. T \subseteq S \cup {r} /\ (to < clock \/ ~(R >= c) => T \subseteq S)
      BY <1>1, <1>3, <3>2 DEF PassedIn, LimTypes
    <3> HIDE DEF S, T
    <3>4. Cardinality(S) \in Nat /\ Cardinality(T) \in Nat /\ Cardinality(T) <= Cardinality(S) + 1
      BY <1>3, <3>1, <3>3, Counted
    <3>5. to < clock \/ ~(R >= c) => Cardinality(T) <= Cardinality(S)
      BY <1>3, <3>1, <3>3, Counted
    <3> QED
      BY <3>4, <3>5 DEF S, T
  <2>6. \A m, n \in Nat : /\ m <= n => c * m <= c * n
                          /\ m <= n + 1 => c * m <= c * n + c
                          /\ c * m \in Nat /\ c * n \in Nat
    <3> TAKE m, n \in Nat
    <3>1. c * (n + 1) = c * n + c
      BY <1>3
    <3>2. \A x, y \in Nat : x <= y => c * x <= c * y
      BY <1>3
    <3> QED
      BY <1>3, <3>1, <3>2
  <2>7. ASSUME NEW from \in 0..clock, NEW to \in 0..clock, to = clock
        PROVE  c * Cardinality(PassedIn(l, from, to)') <= q + q * (clock - from) - t
    <3> DEFINE m == Cardinality(PassedIn(l, from, to)')
               n == Cardinality(PassedIn(l, from, to))
               g == q * (clock - from)
    <3>1. clock \in 0..clock /\ g \in Nat
      BY <1>3
    <3>2. m \in Nat /\ n \in Nat /\ m <= n + 1 /\ (~(R >= c) => m <= n)
      BY <2>5, <3>1
    <3>3. c * n <= q + g - R
      BY <2>1, <2>7
    <3> HIDE DEF m, n, g
    <3>4. /\ c * m \in Nat /\ c * n \in Nat /\ c * m <= c * n + c
          /\ ~(R >= c) => c * m <= c * n
      BY <2>6, <3>2
    <3>5. c * m <= q + g - t
      BY <1>3, <1>4, <1>9, <3>1, <3>3, <3>4
    <3> QED
      BY <3>5 DEF m, g
  <2>8. ASSUME NEW from \in 0..clock, NEW to \in 0..clock, from <= to
        PROVE  c * Cardinality(PassedIn(l, from, to)') <= q + q * (to - from)
    <3>1. CASE to < clock
      <4> DEFINE m == Cardinality(PassedIn(l, from, to)')
                 n == Cardinality(PassedIn(l, from, to))
                 g == q * (to - from)
      <4>1. m \in Nat /\ n \in Nat /\ m <= n /\ c * n <= q + g
        BY <2>1, <2>5, <2>8, <3>1
      <4>2. g \in Nat
        BY <1>3, <2>8
      <4> HIDE DEF m, n, g
      <4>3. c * m \in Nat /\ c * n \in Nat /\ c * m <= c * n
        BY <2>6, <4>1
      <4>4. c * m <= q + g
        BY <1>3, <4>1, <4>2, <4>3
      <4> QED
        BY <4>4 DEF m, g
    <3>2. CASE to = clock
      <4> DEFINE x == c * Cardinality(PassedIn(l, from, to)')
                 g == q * (to - from)
      <4>1. x <= q + g - t
        BY <2>7, <3>2
      <4>2. g \in Nat
        BY <1>3, <2>8
      <4>3. x \in Nat
        BY <1>3, <2>5
      <4> HIDE DEF x, g
      <4>4. x <= q + g
        BY <1>3, <1>9, <2>3, <4>1, <4>2, <4>3
      <4> QED
        BY <4>4 DEF x, g
    <3> QED
      BY <1>3, <3>1, <3>2
  <2>9. \A from, to : LetThrough(l, from, to)' = c * Cardinality(PassedIn(l, from, to)')
    BY <1>2 DEF LetThrough, PassedIn, c
  <2>10. Capacity(l)' = q /\ setting'[l].rate = q /\ ~Large(l)' /\ bucket'[l].tokens = t /\ clock' = clock
    BY <1>2, <1>3, <1>5, <1>10 DEF Capacity, Large, q
  <2>11. \A from, to \in 0..clock : from <= to =>
           LetThrough(l, from, to)' <= Capacity(l)' + setting'[l].rate * (to - from)
    BY <2>8, <2>9, <2>10
  <2>12. \A from, to \in 0..clock : to = clock =>
           LetThrough(l, from, to)' <= Capacity(l)' + setting'[l].rate * (clock - from) - Refilled(l)'
    BY <2>4, <2>7, <2>9, <2>10
  <2> HIDE DEF R, c, q
  <2>13. \A from, to \in 0..clock' : from <= to =>
           LetThrough(l, from, to)' <= Capacity(l)' + setting'[l].rate * (to - from)
    BY <2>10, <2>11
  <2>14. \A from \in 0..clock' :
           setting'[l].cost * Cardinality({s \in Requests : passed'[l][s] \in from..clock'})
             <= Capacity(l)' + setting'[l].rate * (clock' - from) - Refilled(l)'
    <3>1. \A from, to : LetThrough(l, from, to)'
            = setting'[l].cost * Cardinality({s \in Requests : passed'[l][s] \in from..to})
      BY DEF LetThrough
    <3> QED
      BY <1>3, <2>10, <2>12, <3>1
  <2> QED
    BY <2>3, <2>10, <2>13, <2>14 DEF Metered, LetThrough
<1> QED
  BY <1>2, <1>11, <1>12, <1>13, <1>14, <1>15 DEF LimInv, Limiters

LEMMA LargeKeeps ==
  ASSUME LimInv, NEW r \in Requests, NEW l \in Limiters, AcquireLarge(r, l)
  PROVE  LimInv'
<1> DEFINE R == Refilled(l)
           c == setting[l].cost
           w == Through(l)
           v == SleepFor(l, R)
<1>1. LimTypes /\ Semaphored /\ Reservations
      /\ \A k \in Limiters : (~Large(k) => Metered(k)) /\ (Large(k) => Spaced(k))
  BY DEF LimInv
<1>2. /\ stage[r] = l /\ Large(l)
      /\ bucket' = [bucket EXCEPT ![l] = [tokens |-> R - c, last |-> clock]]
      /\ wake' = [wake EXCEPT ![r] = v] /\ stage' = [stage EXCEPT ![r] = Reserved(l)]
      /\ UNCHANGED <<setting, asynchronous, clock, passed, waiters, submitted, calls, reward>>
  BY DEF AcquireLarge, Debit, Large
<1>3. /\ l \in {"rpm", "tpm"} /\ Limiters \subseteq {"rpm", "tpm"} /\ IsFiniteSet(Requests)
      /\ Capacity(l) = 1 /\ setting[l].rate = 1 /\ c \in Nat /\ c > 1 /\ clock \in Nat
  <2>1. setting \in RateLimits /\ clock \in Nat
    BY <1>1 DEF LimTypes
  <2> QED
    BY <1>2, <2>1, Limits DEF Large
<1>4. R \in Int /\ R <= 1 /\ R <= bucket[l].tokens + (clock - bucket[l].last) * 1
  BY <1>1, <1>3, Refills
<1>5. v \in Nat /\ v = clock + c - R
  BY <1>1, <1>3, <1>4, SleepTyped
<1>6. Spaced(l)
  BY <1>1, <1>2
<1>7. w \in Int /\ w + c <= v
  <2>1. bucket[l].tokens \in Int /\ bucket[l].last \in Nat
    BY <1>1 DEF LimTypes
  <2> DEFINE t == bucket[l].tokens
             b == bucket[l].last
  <2>2. w = b - t
    BY DEF Through
  <2> HIDE DEF t, b, w, R, v, c
  <2>3. R <= t + (clock - b)
    BY <1>3, <1>4, <2>1 DEF t, b
  <2> QED
    BY <1>3, <1>4, <1>5, <2>1, <2>2, <2>3 DEF t, b
<1> HIDE DEF R, c, w, v
<1>8. v >= clock
  BY <1>3, <1>4, <1>5
<1>9. /\ bucket' \in [Limiters -> [tokens : Int, last : Nat]]
      /\ bucket'[l].tokens = R - c /\ bucket'[l].last = clock
      /\ \A k \in Limiters : k # l => bucket'[k] = bucket[k]
  BY <1>1, <1>2, <1>3, <1>4 DEF LimTypes
<1>10. stage' \in [Requests -> Stages] /\ wake' \in [Requests -> Nat]
  BY <1>1, <1>2, <1>3, <1>5, StagesApart DEF LimTypes
<1>11. LimTypes'
  <2>1. R - c <= 1
    BY <1>3, <1>4
  <2>2. ASSUME NEW k \in Limiters
        PROVE  bucket'[k].tokens <= Capacity(k) /\ bucket'[k].last <= clock
    <3>1. CASE k = l
      BY <1>3, <1>9, <2>1, <3>1
    <3>2. CASE k # l
      <4>1. bucket'[k] = bucket[k]
        BY <1>9, <3>2
      <4> QED
        BY <1>1, <4>1 DEF LimTypes
    <3> QED
      BY <3>1, <3>2
  <2> QED
    BY <1>1, <1>2, <1>9, <1>10, <2>2 DEF LimTypes, Limiters, Capacity
<1>12. Semaphored'
  <2>1. Holders' = Holders
    BY <1>1, <1>2, <1>3, StagesApart DEF Holders, LimTypes
  <2> QED
    BY <1>1, <1>2, <2>1 DEF Semaphored
<1>13. \A k \in {"rpm", "tpm"} : k # l => Undisturbed(k)
  BY <1>1, <1>2, <1>3, StagesApart DEF Undisturbed, LimTypes
<1>14. Reservations'
  <2>1. \A k : Large(k)' = Large(k) /\ Limiters' = Limiters
    BY <1>2 DEF Large, Capacity, Limiters
  <2>2. ASSUME NEW s \in Requests, NEW k \in {"rpm", "tpm"}, stage'[s] = Reserved(k)
        PROVE  k \in Limiters /\ Large(k) /\ wake'[s] >= clock
    <3>1. CASE s = r
      <4>1. k = l /\ wake'[s] = v
        BY <1>1, <1>2, <1>3, <2>2, <3>1, StagesApart DEF LimTypes
      <4> QED
        BY <1>2, <1>8, <4>1
    <3>2. CASE s # r
      BY <1>1, <1>2, <2>2, <3>2 DEF LimTypes, Reservations
    <3> QED
      BY <3>1, <3>2
  <2> QED
    BY <1>2, <2>1, <2>2 DEF Reservations
<1>15. ASSUME NEW k \in Limiters, k # l PROVE (~Large(k) => Metered(k))' /\ (Large(k) => Spaced(k))'
  <2>1. k \in {"rpm", "tpm"} /\ bucket'[k] = bucket[k] /\ UNCHANGED <<setting, clock>>
        /\ passed'[k] = passed[k]
    BY <1>2, <1>3, <1>9, <1>15
  <2> QED
    BY <1>1, <1>13, <1>15, <2>1, LimiterStays
<1>16. Large(l)' /\ Spaced(l)'
  <2>1. /\ \A s \in Requests : passed[l][s] <= w /\ (stage[s] = Reserved(l) => wake[s] <= w)
        /\ \A from, to \in Nat : from <= to =>
             c * Cardinality(Booked(l, from, to)) <= c + (to - from)
    BY <1>6 DEF Spaced, w, c
  <2>2. Through(l)' = v
    BY <1>3, <1>4, <1>5, <1>9 DEF Through
  <2>3. \A s \in Requests : /\ passed[l][s] \in Int /\ wake[s] \in Nat
                            /\ passed'[l][s] <= v /\ (stage'[s] = Reserved(l) => wake'[s] <= v)
    <3> TAKE s \in Requests
    <3>1. passed[l][s] \in Int /\ wake[s] \in Nat
      BY <1>1 DEF LimTypes, NotYet
    <3>2. passed[l][s] <= v
      <4> DEFINE p == passed[l][s]
      <4>1. p <= w
        BY <2>1
      <4>2. p \in Int
        BY <3>1
      <4> HIDE DEF p
      <4>3. p <= v
        BY <1>3, <1>5, <1>7, <4>1, <4>2
      <4> QED
        BY <4>3 DEF p
    <3>3. CASE s = r
      BY <1>1, <1>2, <1>5, <3>1, <3>2, <3>3 DEF LimTypes
    <3>4. CASE s # r
      <4>1. stage'[s] = stage[s] /\ wake'[s] = wake[s] /\ passed' = passed
        BY <1>1, <1>2, <3>4 DEF LimTypes
      <4>2. stage[s] = Reserved(l) => wake[s] <= v
        BY <1>3, <1>5, <1>7, <2>1, <3>1
      <4> QED
        BY <3>1, <3>2, <4>1, <4>2
    <3> QED
      BY <3>3, <3>4
  <2>4. ASSUME NEW from \in Nat, NEW to \in Nat, from <= to
        PROVE  c * Cardinality(Booked(l, from, to)') <= c + (to - from)
    <3> DEFINE S == Booked(l, from, to)
               T == Booked(l, from, to)'
               m == Cardinality(T)
    <3>1. S \in SUBSET Requests /\ T \in SUBSET Requests
      BY DEF Booked
    <3>2. T \subseteq S \cup {r} /\ (~(v \in from..to) => T \subseteq S)
      BY <1>1, <1>2, <1>3 DEF Booked, LimTypes
    <3>3. Cardinality(S) \in Nat /\ m \in Nat /\ m <= Cardinality(S) + 1
          /\ (~(v \in from..to) => m <= Cardinality(S))
      <4> HIDE DEF S, T
      <4> QED
        BY <1>3, <3>1, <3>2, Counted
    <3>4. CASE ~(v \in from..to)
      <4> DEFINE n == Cardinality(S)
      <4>1. c * n <= c + (to - from)
        BY <2>1, <2>4
      <4>2. m \in Nat /\ n \in Nat /\ m <= n
        BY <3>3, <3>4
      <4> HIDE DEF S, T, m, n
      <4>3. c * m \in Nat /\ c * n \in Nat /\ c * m <= c * n
        BY <1>3, <4>2
      <4>4. c * m <= c + (to - from)
        BY <1>3, <2>4, <4>1, <4>3
      <4> QED
        BY <4>4 DEF m, T
    <3>5. CASE v \in from..to /\ w < from
      <4>1. S = {}
        <5> SUFFICES ASSUME NEW s \in S PROVE FALSE
          OBVIOUS
        <5>1. s \in Requests /\ (passed[l][s] \in from..to \/ (stage[s] = Reserved(l) /\ wake[s] \in from..to))
          BY DEF Booked
        <5>2. passed[l][s] <= w /\ (stage[s] = Reserved(l) => wake[s] <= w)
          BY <2>1, <5>1
        <5>3. passed[l][s] \in Int /\ wake[s] \in Nat
          BY <2>3, <5>1
        <5> HIDE DEF S
        <5> QED
          BY <1>7, <3>5, <5>1, <5>2, <5>3
      <4>2. m <= 1
        BY <3>3, <4>1, FS_EmptySet
      <4>3. c * m <= c
        <5>1. m = 0 \/ m = 1
          BY <3>3, <4>2
        <5> HIDE DEF m
        <5> QED
          BY <1>3, <5>1
      <4>4. c * m \in Nat
        BY <1>3, <3>3
      <4> HIDE DEF S, T, m
      <4>5. c * m <= c + (to - from)
        BY <1>3, <2>4, <4>3, <4>4
      <4> QED
        BY <4>5 DEF m, T
    <3>6. CASE v \in from..to /\ from <= w
      <4>1. w \in Nat
        BY <1>7, <3>6
      <4> DEFINE U == Booked(l, from, w)
                 n == Cardinality(U)
      <4>2. c * n <= c + (w - from)
        BY <2>1, <3>6, <4>1
      <4>3. U \in SUBSET Requests /\ S \subseteq U
        BY <2>1, <2>3, <4>1 DEF Booked
      <4>4. n \in Nat /\ m <= n + 1
        <5>1. T \in SUBSET (U \cup {r})
          BY <3>2, <4>3
        <5> HIDE DEF U, T, S
        <5> QED
          BY <1>3, <4>3, <5>1, Counted
      <4> HIDE DEF S, T, m, n, U
      <4>5. c * m <= c * (n + 1) /\ c * (n + 1) = c * n + c
            /\ c * m \in Nat /\ c * n \in Nat
        BY <1>3, <3>3, <4>4
      <4>6. v <= to
        BY <1>5, <3>6
      <4>7. c * m <= c + (to - from)
        BY <1>3, <1>5, <1>7, <2>4, <4>1, <4>2, <4>5, <4>6
      <4> QED
        BY <4>7 DEF m, T
    <3> QED
      BY <1>7, <3>4, <3>5, <3>6
  <2>5. setting' = setting /\ Large(l)'
    BY <1>2 DEF Large, Capacity
  <2> QED
    BY <2>2, <2>3, <2>4, <2>5 DEF Spaced, c
<1> QED
  BY <1>2, <1>11, <1>12, <1>14, <1>15, <1>16 DEF LimInv, Limiters

LEMMA AcquiredKeeps ==
  ASSUME LimInv, NEW r \in Requests, NEW l \in Limiters, LargeAcquired(r, l)
  PROVE  LimInv'
<1> DEFINE c == setting[l].cost
           w == Through(l)
<1>1. LimTypes /\ Semaphored /\ Reservations
      /\ \A k \in Limiters : (~Large(k) => Metered(k)) /\ (Large(k) => Spaced(k))
  BY DEF LimInv
<1>2. /\ stage[r] = Reserved(l) /\ wake[r] <= clock /\ Passes(r, l, clock)
      /\ UNCHANGED <<setting, asynchronous, clock, bucket, wake, submitted, calls, reward>>
  BY DEF LargeAcquired
<1>3. /\ l \in {"rpm", "tpm"} /\ Limiters \subseteq {"rpm", "tpm"} /\ IsFiniteSet(Requests)
      /\ c \in Nat /\ clock \in Nat
  BY <1>1, Limits DEF LimTypes
<1>4. Large(l) /\ wake[r] = clock /\ Spaced(l)
  <2>1. Large(l) /\ wake[r] >= clock /\ wake[r] \in Nat
    BY <1>1, <1>2, <1>3 DEF Reservations, LimTypes
  <2> QED
    BY <1>1, <1>2, <1>3, <2>1
<1>5. /\ stage' \in [Requests -> Stages] /\ waiters' \in Seq(Requests)
      /\ passed' \in [Limiters -> [Requests -> NotYet..clock]]
      /\ stage' = [stage EXCEPT ![r] = After(l)] /\ passed' = [passed EXCEPT ![l][r] = clock]
  BY <1>1, <1>2, PassesTyped
<1>6. LimTypes'
  BY <1>1, <1>2, <1>5 DEF LimTypes, Limiters, Capacity
<1>7. Semaphored'
  <2>1. Holders' = Holders
    BY <1>1, <1>2, <1>3, <1>5, StagesApart DEF Holders, LimTypes
  <2> QED
    BY <1>1, <1>2, <2>1 DEF Semaphored
<1>8. \A k \in {"rpm", "tpm"} : Undisturbed(k)
  BY <1>1, <1>2, <1>3, <1>5, StagesApart DEF Undisturbed, LimTypes
<1>9. Reservations'
  BY <1>1, <1>2, <1>8, ReservationsStay
<1>10. ASSUME NEW k \in Limiters, k # l PROVE (~Large(k) => Metered(k))' /\ (Large(k) => Spaced(k))'
  <2>1. k \in {"rpm", "tpm"} /\ bucket'[k] = bucket[k] /\ UNCHANGED <<setting, clock>>
        /\ passed'[k] = passed[k]
    BY <1>1, <1>2, <1>3, <1>5, <1>10 DEF LimTypes
  <2> QED
    BY <1>1, <1>8, <1>10, <2>1, LimiterStays
<1> HIDE DEF c, w
<1>11. Large(l)' /\ Spaced(l)'
  <2>1. /\ \A s \in Requests : passed[l][s] <= w /\ (stage[s] = Reserved(l) => wake[s] <= w)
        /\ \A from, to \in Nat : from <= to =>
             c * Cardinality(Booked(l, from, to)) <= c + (to - from)
    BY <1>4 DEF Spaced, w, c
  <2>2. Through(l)' = w /\ Large(l)' /\ setting' = setting
    BY <1>2, <1>4 DEF Through, Large, Capacity, w
  <2>3. \A s \in Requests : passed'[l][s] <= w /\ (stage'[s] = Reserved(l) => wake'[s] <= w)
    BY <1>1, <1>2, <1>3, <1>4, <1>5, <1>8, <2>1 DEF LimTypes, Undisturbed
  <2>4. ASSUME NEW from \in Nat, NEW to \in Nat, from <= to
        PROVE  c * Cardinality(Booked(l, from, to)') <= c + (to - from)
    <3> DEFINE S == Booked(l, from, to)
               T == Booked(l, from, to)'
               m == Cardinality(T)
               n == Cardinality(S)
    <3>1. S \in SUBSET Requests /\ T \in SUBSET S
      BY <1>1, <1>2, <1>3, <1>4, <1>5, <1>8 DEF Booked, LimTypes, Undisturbed
    <3>2. m \in Nat /\ n \in Nat /\ m <= n
      <4>1. T \in SUBSET Requests
        BY <3>1
      <4> HIDE DEF S, T
      <4> QED
        BY <1>3, <3>1, <4>1, Counted
    <3>3. c * n <= c + (to - from)
      BY <2>1, <2>4
    <3> HIDE DEF S, T, m, n
    <3>4. c * m \in Nat /\ c * n \in Nat /\ c * m <= c * n
      BY <1>3, <3>2
    <3>5. c * m <= c + (to - from)
      BY <1>3, <2>4, <3>3, <3>4
    <3> QED
      BY <3>5 DEF m, T
  <2> QED
    BY <2>2, <2>3, <2>4 DEF Spaced, c, w
<1> QED
  BY <1>2, <1>6, <1>7, <1>9, <1>10, <1>11 DEF LimInv, Limiters

LEMMA TickKeeps == ASSUME LimInv, Tick PROVE LimInv'
<1>1. LimTypes /\ Semaphored /\ Reservations
      /\ \A k \in Limiters : (~Large(k) => Metered(k)) /\ (Large(k) => Spaced(k))
  BY DEF LimInv
<1>2. /\ \A r \in Requests : ~Due(r)
      /\ clock' = clock + 1
      /\ UNCHANGED <<setting, asynchronous, bucket, stage, wake, passed, waiters, submitted,
                     calls, reward>>
  BY DEF Tick
<1>3. clock \in Nat /\ setting \in RateLimits /\ Limiters \subseteq {"rpm", "tpm"} /\ IsFiniteSet(Requests)
  BY <1>1, Limits DEF LimTypes
<1>4. LimTypes'
  <2>1. passed' \in [Limiters -> [Requests -> NotYet..clock']]
    <3>1. NotYet..clock \subseteq NotYet..clock + 1
      BY <1>3 DEF NotYet
    <3>2. passed \in [Limiters -> [Requests -> NotYet..clock]]
      BY <1>1 DEF LimTypes
    <3>3. passed \in [Limiters -> [Requests -> NotYet..clock + 1]]
      BY <3>1, <3>2
    <3> QED
      BY <1>2, <3>3
  <2>2. \A k \in Limiters : bucket[k].last <= clock + 1
    <3>1. \A k \in Limiters : bucket[k].last <= clock /\ bucket[k].last \in Nat
      BY <1>1 DEF LimTypes
    <3> QED
      BY <1>3, <3>1
  <2> QED
    BY <1>1, <1>2, <1>3, <2>1, <2>2 DEF LimTypes, Limiters, Capacity
<1>5. Semaphored'
  BY <1>1, <1>2 DEF Semaphored, Holders
<1>6. Reservations'
  <2>1. ASSUME NEW r \in Requests, NEW l \in {"rpm", "tpm"}, stage[r] = Reserved(l)
        PROVE  l \in Limiters /\ Large(l) /\ wake[r] >= clock + 1
    <3>1. stage[r] \notin {"decoding", "semaphore", "done"}
      BY <2>1 DEF Reserved
    <3>2. ~(wake[r] <= clock) /\ wake[r] \in Nat
      BY <1>1, <1>2, <3>1 DEF Due, LimTypes
    <3> QED
      BY <1>1, <1>3, <2>1, <3>2 DEF Reservations
  <2> QED
    BY <1>2, <2>1 DEF Reservations, Large, Capacity, Limiters
<1>7. ASSUME NEW l \in Limiters, Large(l) PROVE Large(l)' /\ Spaced(l)'
  BY <1>1, <1>2, <1>7 DEF Large, Capacity, Spaced, Through, Booked
<1>8. ASSUME NEW l \in Limiters, ~Large(l) PROVE ~Large(l)' /\ Metered(l)'
  <2> DEFINE c == setting[l].cost
             q == setting[l].rate
             R == Refilled(l)
  <2>1. Capacity(l) = q /\ q \in Nat /\ c \in Nat
    BY <1>3, Limits
  <2>2. R \in Int /\ R <= q
    BY <1>1, <2>1, Refills
  <2>3. /\ bucket[l].tokens >= 0
        /\ \A from, to \in 0..clock : from <= to =>
             c * Cardinality(PassedIn(l, from, to)) <= q + q * (to - from)
        /\ \A from \in 0..clock :
             c * Cardinality(PassedIn(l, from, clock)) <= q + q * (clock - from) - R
    BY <1>1, <1>8, <2>1 DEF Metered, LetThrough, PassedIn
  <2>4. /\ Refilled(l)' \in Int /\ Refilled(l)' <= q /\ Refilled(l)' <= R + q
        /\ Refilled(l)' >= R
    <3> DEFINE t == bucket[l].tokens
               e == clock - bucket[l].last
    <3>1. t \in Int /\ e \in Nat
      BY <1>1 DEF LimTypes
    <3>2. R = Least(q, t + e * q)
      BY <2>1 DEF Refilled
    <3>3. Refilled(l)' = Least(q, t + (e + 1) * q)
      <4>1. (clock + 1) - bucket[l].last = e + 1
        BY <1>1, <1>3 DEF LimTypes
      <4>2. Refilled(l)' = Least(Capacity(l)', bucket'[l].tokens
                                   + (clock' - bucket'[l].last) * setting'[l].rate)
        BY DEF Refilled, Least
      <4>3. Capacity(l)' = q /\ bucket' = bucket /\ clock' = clock + 1 /\ setting'[l].rate = q
        BY <1>2, <2>1 DEF Capacity
      <4> HIDE DEF q
      <4> QED
        BY <4>1, <4>2, <4>3
    <3> HIDE DEF t, e, q, R
    <3>4. e * q \in Nat /\ (e + 1) * q = e * q + q
      BY <2>1, <3>1
    <3> DEFINE g == e * q
    <3> HIDE DEF g
    <3>5. R = (IF q < t + g THEN q ELSE t + g) /\ g \in Nat
          /\ Refilled(l)' = IF q < t + (g + q) THEN q ELSE t + (g + q)
      BY <3>2, <3>3, <3>4 DEF Least, g
    <3>6. CASE q < t + g
      <4>1. q < t + (g + q)
        BY <2>1, <3>1, <3>5, <3>6
      <4> QED
        BY <2>1, <3>1, <3>5, <3>6, <4>1
    <3>7. CASE ~(q < t + g)
      <4>1. R = t + g /\ t + (g + q) = R + q
        BY <2>1, <3>1, <3>5, <3>7
      <4>2. R \in Int /\ Refilled(l)' = IF q < R + q THEN q ELSE R + q
        BY <3>1, <3>5, <4>1
      <4> QED
        BY <2>1, <2>2, <4>2
    <3> QED
      BY <3>6, <3>7
  <2>14. R >= 0
    <3>1. bucket[l].tokens <= R /\ bucket[l].tokens \in Int
      BY <1>1, Refills DEF LimTypes
    <3> QED
      BY <2>2, <2>3, <3>1
  <2>5. \A r \in Requests : passed[l][r] \in Int /\ passed[l][r] <= clock
    BY <1>1, <1>3 DEF LimTypes, NotYet
  <2>6. /\ \A from \in 0..clock : PassedIn(l, from, clock + 1) = PassedIn(l, from, clock)
        /\ PassedIn(l, clock + 1, clock + 1) = {}
    BY <1>3, <2>5 DEF PassedIn
  <2>7. \A from, to \in 0..clock + 1 : Cardinality(PassedIn(l, from, to)) \in Nat
    <3> TAKE from, to \in 0..clock + 1
    <3> DEFINE S == PassedIn(l, from, to)
    <3>1. S \in SUBSET Requests
      BY DEF PassedIn
    <3> HIDE DEF S
    <3> QED
      BY <1>3, <3>1, Counted DEF S
  <2>8. Cardinality({}) = 0
    BY FS_EmptySet
  <2> HIDE DEF R
  <2>9. ASSUME NEW from \in 0..clock + 1
        PROVE  c * Cardinality(PassedIn(l, from, clock + 1))
                 <= q + q * ((clock + 1) - from) - Refilled(l)'
    <3> DEFINE x == c * Cardinality(PassedIn(l, from, clock + 1))
               T == Refilled(l)'
    <3>1. CASE from = clock + 1
      <4>1. x = 0
        BY <2>1, <2>6, <2>8, <3>1
      <4>2. q * ((clock + 1) - from) = 0
        BY <1>3, <2>1, <3>1
      <4> HIDE DEF x, T
      <4>3. q + 0 - Refilled(l)' >= 0
        BY <2>1, <2>4
      <4>4. x <= q + q * ((clock + 1) - from) - Refilled(l)'
        BY <4>1, <4>2, <4>3
      <4> QED
        BY <4>4 DEF x
    <3>2. CASE from \in 0..clock
      <4> DEFINE g == q * (clock - from)
      <4>1. x <= q + g - R
        BY <2>3, <2>6, <3>2
      <4>2. clock - from \in Nat /\ (clock + 1) - from = (clock - from) + 1
        BY <1>3, <3>2
      <4>3. g \in Nat /\ q * ((clock + 1) - from) = g + q
        BY <2>1, <4>2
      <4>4. x \in Nat
        <5> DEFINE m == Cardinality(PassedIn(l, from, clock + 1))
        <5>1. clock + 1 \in 0..clock + 1
          BY <1>3
        <5>2. m \in Nat
          BY <2>7, <5>1
        <5> HIDE DEF m
        <5> QED
          BY <2>1, <5>2 DEF m
      <4>5. T \in Int /\ T <= R + q
        BY <2>4
      <4> HIDE DEF x, T, g, c, q
      <4>6. x <= q + (g + q) - T
        BY <2>1, <2>2, <4>1, <4>3, <4>4, <4>5
      <4> QED
        BY <4>3, <4>6 DEF x, T
    <3> QED
      BY <1>3, <3>1, <3>2
  <2>10. ASSUME NEW from \in 0..clock + 1, NEW to \in 0..clock + 1, from <= to
         PROVE  c * Cardinality(PassedIn(l, from, to)) <= q + q * (to - from)
    <3>1. CASE to \in 0..clock
      <4>1. from \in 0..clock
        BY <1>3, <2>10, <3>1
      <4> QED
        BY <2>3, <2>10, <3>1, <4>1
    <3>2. CASE to = clock + 1
      <4> DEFINE x == c * Cardinality(PassedIn(l, from, to))
                 g == q * (to - from)
                 T == Refilled(l)'
      <4>1. x <= q + g - T
        <5>1. c * Cardinality(PassedIn(l, from, clock + 1))
                <= q + q * ((clock + 1) - from) - T
          BY <2>9
        <5> HIDE DEF c, q, T
        <5> QED
          BY <3>2, <5>1
      <4>2. T \in Int /\ T >= 0
        <5>1. T >= 0
          BY <2>2, <2>4, <2>14
        <5> QED
          BY <2>4, <5>1
      <4>3. g \in Nat /\ x \in Nat
        BY <1>3, <2>1, <2>7, <2>10
      <4> HIDE DEF x, g, T
      <4>4. x <= q + g
        BY <2>1, <4>1, <4>2, <4>3
      <4> QED
        BY <4>4 DEF x, g
    <3> QED
      BY <1>3, <3>1, <3>2
  <2>11. /\ Capacity(l)' = q /\ setting'[l] = setting[l] /\ ~Large(l)' /\ bucket'[l].tokens >= 0
         /\ \A from, to : PassedIn(l, from, to)
                            = {r \in Requests : passed'[l][r] \in from..to}
         /\ \A from, to : LetThrough(l, from, to)' = c * Cardinality(PassedIn(l, from, to))
    BY <1>2, <1>8, <2>1, <2>3 DEF Capacity, Large, PassedIn, LetThrough
  <2> HIDE DEF c, q
  <2>12. \A from, to \in 0..clock' : from <= to =>
           LetThrough(l, from, to)' <= Capacity(l)' + setting'[l].rate * (to - from)
    BY <1>2, <2>10, <2>11 DEF q
  <2>13. \A from \in 0..clock' :
           setting'[l].cost * Cardinality({s \in Requests : passed'[l][s] \in from..clock'})
             <= Capacity(l)' + setting'[l].rate * (clock' - from) - Refilled(l)'
    <3>1. \A from : {s \in Requests : passed'[l][s] \in from..clock'}
                      = PassedIn(l, from, clock + 1)
      BY <1>2, <2>11
    <3>2. clock' = clock + 1 /\ setting'[l].cost = c /\ setting'[l].rate = q
          /\ Capacity(l)' = q
      BY <1>2, <2>11 DEF q, c
    <3> QED
      BY <2>9, <3>1, <3>2
  <2> QED
    BY <2>11, <2>12, <2>13 DEF Metered, LetThrough
<1>9. Limiters' = Limiters /\ \A l \in Limiters : Large(l)' = Large(l)
  BY <1>2 DEF Limiters, Large, Capacity
<1> QED
  BY <1>4, <1>5, <1>6, <1>7, <1>8, <1>9 DEF LimInv

LEMMA LimStep == LimInv /\ [LimNext]_limVars => LimInv'
<1> SUFFICES ASSUME LimInv, [LimNext]_limVars PROVE LimInv'
  OBVIOUS
<1>1. ASSUME NEW r \in Requests, RunSingle(r) PROVE LimInv'
  <2>1. CASE Decoded(r)
    BY <2>1, DecodedKeeps
  <2>2. ASSUME NEW l \in Limiters, AcquireStandard(r, l) PROVE LimInv'
    BY <2>2, StandardKeeps
  <2>3. ASSUME NEW l \in Limiters, AcquireLarge(r, l) PROVE LimInv'
    BY <2>3, LargeKeeps
  <2>4. ASSUME NEW l \in Limiters, LargeAcquired(r, l) PROVE LimInv'
    BY <2>4, AcquiredKeeps
  <2>5. CASE TimedOut(r)
    BY <2>5, TimedOutKeeps
  <2> QED
    BY <1>1, <2>1, <2>2, <2>3, <2>4, <2>5 DEF RunSingle
<1>2. CASE EnterSemaphore
  BY <1>2, EnterKeeps
<1>3. CASE ThreadStarts
  BY <1>3, ThreadKeeps
<1>4. CASE Tick
  BY <1>4, TickKeeps
<1>5. ASSUME NEW r \in Requests, CallEnds(r) PROVE LimInv'
  BY <1>5, CallEndsKeeps
<1>6. CASE UNCHANGED limVars
  <2>1. LimTypes /\ Reservations /\ Semaphored
        /\ UNCHANGED <<setting, asynchronous, clock, bucket, stage, wake, passed, waiters,
                       submitted, calls, reward>>
    BY <1>6 DEF LimInv, limVars
  <2>2. LimTypes'
    BY <2>1 DEF LimTypes, Limiters, Capacity
  <2>3. Semaphored'
    BY <2>1 DEF Semaphored, Holders
  <2>4. \A l \in {"rpm", "tpm"} : Undisturbed(l)
    BY <2>1 DEF Undisturbed
  <2> QED
    BY <2>1, <2>2, <2>3, <2>4, AllStay
<1> QED
  BY <1>1, <1>2, <1>3, <1>4, <1>5, <1>6 DEF LimNext, LoopRuns, LimFinished

LEMMA WithinLimits == LimInv => LimitsKept
<1> SUFFICES ASSUME LimInv PROVE LimitsKept
  OBVIOUS
<1>1. LimTypes /\ Semaphored /\ Reservations
      /\ \A k \in Limiters : (~Large(k) => Metered(k)) /\ (Large(k) => Spaced(k))
  BY DEF LimInv
<1>2. IsFiniteSet(Requests) /\ clock \in Nat /\ setting \in RateLimits
  BY <1>1, Limits DEF LimTypes
<1>3. LimTypeOK
  BY <1>1 DEF LimTypes, LimTypeOK
<1>4. ConcurrencyKept
  <2>1. CASE asynchronous
    <3>1. calls \in SUBSET Holders /\ Holders \in SUBSET Requests /\ calls \in SUBSET Requests
      BY <1>1, <2>1 DEF Semaphored, Holders
    <3>2. Cardinality(calls) <= Cardinality(Holders)
      BY <1>2, <3>1, Counted
    <3>3. Cardinality(calls) \in Nat /\ Cardinality(Holders) \in Nat
      BY <1>2, <3>1, Counted
    <3>4. Cardinality(Holders) <= MaxConcurrent /\ MaxConcurrent \in Nat
      BY <1>1, <1>2, Limits DEF Semaphored
    <3>5. Cardinality(calls) <= MaxConcurrent
      BY <3>2, <3>3, <3>4
    <3> QED
      BY <2>1, <3>5 DEF ConcurrencyKept
  <2>2. CASE ~asynchronous
    BY <1>1, <2>2 DEF Semaphored, ConcurrencyKept
  <2> QED
    BY <2>1, <2>2
<1>5. ASSUME NEW l \in Limiters, NEW from \in 0..clock, NEW to \in 0..clock, from <= to
      PROVE  LetThrough(l, from, to) <= Burst(l) + setting[l].rate * (to - from)
  <2>1. CASE ~Large(l)
    BY <1>1, <1>5, <2>1 DEF Metered, Burst, Large
  <2>2. CASE Large(l)
    <3> DEFINE c == setting[l].cost
               S == PassedIn(l, from, to)
               T == Booked(l, from, to)
    <3>1. c \in Nat /\ setting[l].rate = 1 /\ from \in Nat /\ to \in Nat
      BY <1>2, <2>2, Limits
    <3>2. c * Cardinality(T) <= c + (to - from)
      BY <1>1, <1>5, <2>2, <3>1 DEF Spaced
    <3>3. S \in SUBSET T /\ T \in SUBSET Requests /\ S \in SUBSET Requests
      BY DEF PassedIn, Booked
    <3>4. LetThrough(l, from, to) = c * Cardinality(S) /\ Burst(l) = c
      BY <2>2 DEF LetThrough, PassedIn, Burst, Large
    <3> HIDE DEF S, T, c
    <3>5. Cardinality(S) <= Cardinality(T) /\ Cardinality(S) \in Nat /\ Cardinality(T) \in Nat
      BY <1>2, <3>3, Counted
    <3>6. c * Cardinality(S) <= c * Cardinality(T) /\ c * Cardinality(S) \in Nat
          /\ c * Cardinality(T) \in Nat
      BY <3>1, <3>5
    <3>7. c * Cardinality(S) <= c + (to - from)
      BY <1>5, <3>1, <3>2, <3>6
    <3> QED
      BY <3>1, <3>4, <3>7
  <2> QED
    BY <2>1, <2>2
<1> QED
  BY <1>3, <1>4, <1>5 DEF LimitsKept, RateKept

(* The reward loop stays within what its settings allow: no limiter lets   *)
(* more through than its rate and one burst, for any stretch of time, and  *)
(* no more calls run than the semaphore or the executor has room for.      *)
THEOREM LimitsAreKept == LimSpec => []LimitsKept
<1>1. LimInit => LimInv
  BY LimInitial
<1>2. LimInv /\ [LimNext]_limVars => LimInv'
  BY LimStep
<1>3. LimInv => LimitsKept
  BY WithinLimits
<1> QED
  BY <1>1, <1>2, <1>3, PTL DEF LimSpec
===============================================================================
