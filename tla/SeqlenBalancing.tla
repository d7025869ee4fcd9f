---------------------------- MODULE SeqlenBalancing ----------------------------
(***************************************************************************)
(* verl/utils/seqlen_balancing.py: how sequences are dealt out to ranks    *)
(* and to micro-batches by their lengths.  Sequences and partitions are    *)
(* numbered from 1; a partition is a sequence of indices.                  *)
(***************************************************************************)
EXTENDS Integers, Sequences, FiniteSets, TLC, SequencesExt, FiniteSetsExt

(* calculate_workload. *)
Workload(seqlen) == 24576 * seqlen + seqlen * seqlen

Total(values, indices) == MapThenSumSet(LAMBDA i : values[i], ToSet(indices))
EveryOther(s, from) ==
  [n \in 1..((Len(s) - from + 2) \div 2) |-> s[from + 2 * (n - 1)]]

(***************************************************************************)
(* karmarkar_karp.  A State is k sets in decreasing order; two states are  *)
(* merged largest set with smallest, until one is left.                    *)
(***************************************************************************)
EmptySet == [sum |-> 0, items |-> <<>>]
Precedes(s, t) == \E n \in DOMAIN s : s[n] < t[n] /\ \A m \in 1..n - 1 : s[m] = t[m]
SetLess(a, b) ==
  \/ a.sum < b.sum
  \/ a.sum = b.sum /\ Len(a.items) < Len(b.items)
  \/ a.sum = b.sum /\ Len(a.items) = Len(b.items) /\ Precedes(a.items, b.items)
Decreasing(sets) == SortSeq(sets, LAMBDA a, b : SetLess(b, a))

Spread(state) == state[1].sum - state[Len(state)].sum
PoppedBefore(s, t) ==
  \/ Spread(s) > Spread(t)
  \/ Spread(s) = Spread(t) /\ SetLess(t[1], s[1])
Popped(states) == CHOOSE s \in states : \A t \in states \ {s} : PoppedBefore(s, t)

Merged(s, t) ==
  LET opposite(i) == t[Len(t) + 1 - i]
  IN Decreasing([i \in DOMAIN s |-> [sum |-> s[i].sum + opposite(i).sum,
                                     items |-> s[i].items \o opposite(i).items]])

(* The first states: one a sequence, or one for every k sequences next to  *)
(* each other in the order of their lengths, a sequence to each set.       *)
FirstStates(values, k, equal) ==
  LET before(i, j) == values[i] < values[j] \/ (values[i] = values[j] /\ i < j)
      sorted == SortSeq([i \in DOMAIN values |-> i], before)
      single(i) == [sum |-> values[i], items |-> <<i>>]
  IN IF equal
     THEN {Decreasing([i \in 1..k |-> single(sorted[(n - 1) * k + i])]) : n \in 1..(Len(values) \div k)}
     ELSE {[i \in 1..k |-> IF i = 1 THEN single(n) ELSE EmptySet] : n \in DOMAIN values}

(* One turn of the loop: the two states popped from the heap are merged.   *)
(* (What is bound to a set of one element is evaluated once.)              *)
MergeTwo(states) ==
  UNION {UNION {(states \ {s, t}) \cup {Merged(s, t)} : t \in {Popped(states \ {s})}} :
         s \in {Popped(states)}}
KarmarkarKarp(values, k, equal) ==
  LET heap[n \in Nat] ==
        IF n = 1 THEN FirstStates(values, k, equal)
        ELSE UNION {MergeTwo(states) : states \in {heap[n - 1]}}
      last == IF equal THEN Len(values) \div k ELSE Len(values)
  IN [i \in 1..k |-> (CHOOSE s \in heap[last] : TRUE)[i].items]

(* get_seqlen_balanced_partitions *)
BalancedPartitions(values, k, equal) ==
  LET partitions == KarmarkarKarp(values, k, equal)
  IN [i \in 1..k |-> SortSeq(partitions[i], <)]

(***************************************************************************)
(* rearrange_micro_batches and its inverse.                                *)
(***************************************************************************)
CeilDiv(a, b) == (a + b - 1) \div b
MicroBatchCount(lens, maxTokens) ==
  Min({Len(lens), CeilDiv(Total(lens, [i \in DOMAIN lens |-> i]), maxTokens)})

(* The larger micro-batches go to the middle. *)
MicroBatches(lens, count) ==
  LET work == [i \in DOMAIN lens |-> Workload(lens[i])]
      before(p, q) == \/ Total(work, p) > Total(work, q)
                      \/ Total(work, p) = Total(work, q) /\ p[1] > q[1]
      sorted == SortSeq(BalancedPartitions(work, count, FALSE), before)
  IN Reverse(EveryOther(sorted, 1)) \o EveryOther(sorted, 2)

(* restore_dynamic_batch: data[reverse_idx].                               *)
RestoredOrder(data, micros) ==
  LET order == FlattenSeq(micros)
      reverse == [i \in DOMAIN order |-> CHOOSE n \in DOMAIN order : order[n] = i]
  IN [i \in DOMAIN data |-> data[reverse[i]]]

(* How far apart the partitions are. *)
SumSpread(values, partitions) ==
  Max({Total(values, partitions[i]) : i \in DOMAIN partitions})
    - Min({Total(values, partitions[i]) : i \in DOMAIN partitions})
===============================================================================
