-------------------------------- MODULE OpdAlign --------------------------------
(***************************************************************************)
(* From the teacher's log-probabilities to what the student is trained on, *)
(* when the two have different tokenizers: _align_chunks and the filling   *)
(* of the payload in verl/workers/reward_manager/opd.py, and the sentinel  *)
(* and the chunks in compute_policy_loss_opd.                              *)
(*                                                                         *)
(* A token is a sequence of bytes: "a", a character of its own; "h" and    *)
(* "l", which only together are one; "r", the replacement character, which *)
(* is what the teacher is sent for a byte that is no character.  Texts are *)
(* in normal form.  A log-probability is named by the teacher's tokens it  *)
(* is the sum of, and by the number of student tokens that share it.       *)
(***************************************************************************)
EXTENDS Integers, Sequences, FiniteSets, SequencesExt, FiniteSetsExt

CONSTANTS
  StudentBytes,    (* the byte strings the student may have generated          *)
  Specials,        (* numbers of end tokens after the response                 *)
  LargeChunkThreshold

ASSUME OpdAlignAssumption ==
  /\ StudentBytes \subseteq Seq({"a", "h", "l"}) /\ Specials \subseteq Nat
  /\ LargeChunkThreshold \in Nat \ {0}

VARIABLES
  student, teacher,     (* the tokens of the response on either side           *)
  n_full,               (* tokens the teacher would have had, were it not cut  *)
  n_special,            (* end tokens of the student                           *)
  s_ptr, t_ptr, s_end, t_end,  (* next token, and end of the chunk that grows  *)
  chunk_count, aligned, chunk_ids, teacher_truncated,
  row,                  (* the payload at the positions of the response        *)
  at                    (* "growing", "ended" or "filled"                      *)

alignVars == <<student, teacher, n_full, n_special, s_ptr, t_ptr, s_end, t_end, chunk_count,
               aligned, chunk_ids, teacher_truncated, row, at>>
input == <<student, teacher, n_full, n_special>>

(* What decode() makes of bytes, and the bytes the teacher is sent for that: *)
(* the text encoded again.                                                 *)
Replacement == "?"
CharAt(b, k) ==
  CASE b[k] = "h" /\ k < Len(b) /\ b[k + 1] = "l" -> <<"e">>
    [] b[k] = "l" /\ k > 1 /\ b[k - 1] = "h"      -> <<>>
    [] b[k] = "a"                                 -> <<"a">>
    [] OTHER                                      -> <<Replacement>>
Decode(b) == FlattenSeq([k \in DOMAIN b |-> CharAt(b, k)])
Encode(b) == [k \in DOMAIN b |-> IF CharAt(b, k) = <<Replacement>> THEN "r" ELSE b[k]]

(* All ways to cut bytes into tokens, the n-th of which ends at the n-th cut. *)
CutAt(ends, n) == IF n = 0 THEN 0 ELSE CHOOSE e \in ends : Cardinality({m \in ends : m <= e}) = n
TokenAt(b, ends, n) == SubSeq(b, CutAt(ends, n - 1) + 1, CutAt(ends, n))
Tokenizations(b) ==
  IF b = <<>> THEN {<<>>}
  ELSE {[n \in 1..Cardinality(cuts) + 1 |-> TokenAt(b, cuts \cup {Len(b)}, n)] :
          cuts \in SUBSET (1..Len(b) - 1)}

Text(tokens, from, to) == Decode(FlattenSeq(SubSeq(tokens, from, to)))
Incomplete(text) == text # <<>> /\ Last(text) = Replacement

n_stu == Len(student)
n_tec == Len(teacher)
Unaligned == [sum |-> "inf"]
Unset == [sum |-> "zero"]

(* The teacher's sequence may have been cut at its longest length.         *)
AlignInit ==
  /\ \E b \in StudentBytes : \E full \in Tokenizations(Encode(b)) :
       /\ student \in Tokenizations(b)
       /\ n_full = Len(full)
       /\ \E n \in 0..Len(full) : teacher = SubSeq(full, 1, n)
  /\ n_special \in Specials
  /\ s_ptr = 1 /\ t_ptr = 1 /\ s_end = 1 /\ t_end = 1
  /\ chunk_count = 0 /\ teacher_truncated = FALSE
  /\ aligned = [k \in 1..n_stu |-> Unset]
  /\ chunk_ids = [k \in 1..n_stu |-> -1]
  /\ row = <<>>
  /\ at = IF n_stu = 0 \/ n_tec = 0 THEN "ended" ELSE "growing"

-------------------------------------------------------------------------------
(* _align_chunks, one turn of its inner loop a step.                       *)
S_text == Text(student, s_ptr, s_end)
T_text == Text(teacher, t_ptr, t_end)
(* Mutant: a text that ends within a character is compared like any other. *)
BoundaryMutant == S_text = T_text
Boundary == S_text = T_text /\ ~Incomplete(S_text)

InReach == s_end <= n_stu /\ t_end <= n_tec
IsLarge == s_end - s_ptr + 1 > LargeChunkThreshold \/ t_end - t_ptr + 1 > LargeChunkThreshold

NewChunk == chunk_count
Match ==
  /\ at = "growing" /\ InReach /\ Boundary
  /\ LET share == [sum |-> t_ptr..t_end, of |-> s_end - s_ptr + 1]
         mark(f, x) == [k \in 1..n_stu |-> IF k \in s_ptr..s_end THEN x ELSE f[k]]
     IN /\ aligned' = mark(aligned, IF IsLarge THEN Unaligned ELSE share)
        /\ chunk_ids' = IF IsLarge THEN chunk_ids ELSE mark(chunk_ids, NewChunk)
  /\ chunk_count' = chunk_count + 1
  /\ s_ptr' = s_end + 1 /\ t_ptr' = t_end + 1
  /\ s_end' = s_end + 1 /\ t_end' = t_end + 1
  /\ IF s_end < n_stu /\ t_end < n_tec
     THEN UNCHANGED <<at, teacher_truncated>>
     ELSE at' = "ended" /\ teacher_truncated' = (s_end < n_stu)
  /\ UNCHANGED <<input, row>>

(* The shorter text grows, of two equally long ones the incomplete one, or *)
(* both; a side that is used up leaves it to the other.                    *)
StudentGrows == <<s_end + 1, t_end>>
TeacherGrows == <<s_end, t_end + 1>>
Grown ==
  LET s_more == s_end < n_stu
      t_more == t_end < n_tec
      s_first == IF s_more THEN StudentGrows ELSE IF t_more THEN TeacherGrows ELSE <<s_end, t_end>>
      t_first == IF t_more THEN TeacherGrows ELSE IF s_more THEN StudentGrows ELSE <<s_end, t_end>>
  IN CASE Len(S_text) < Len(T_text) -> IF s_more THEN StudentGrows ELSE TeacherGrows
       [] Len(S_text) > Len(T_text) -> IF t_more THEN TeacherGrows ELSE StudentGrows
       [] OTHER ->
          CASE Incomplete(S_text) /\ ~Incomplete(T_text) -> s_first
            [] Incomplete(T_text) /\ ~Incomplete(S_text) -> t_first
            [] OTHER -> <<IF s_more THEN s_end + 1 ELSE s_end, IF t_more THEN t_end + 1 ELSE t_end>>

Grow ==
  /\ at = "growing" /\ InReach /\ ~Boundary
  /\ Grown # <<s_end, t_end>>
  /\ s_end' = Grown[1] /\ t_end' = Grown[2]
  /\ UNCHANGED <<input, s_ptr, t_ptr, chunk_count, aligned, chunk_ids, teacher_truncated, row, at>>

(* Nothing to grow is left: the rest of the student's tokens is unaligned. *)
(* Mutant: the chunk is started again at the same tokens. *)
FallbackMutant ==
  /\ at = "growing"
  /\ InReach => ~Boundary /\ Grown = <<s_end, t_end>>
  /\ aligned' = [k \in 1..n_stu |-> IF k >= s_ptr THEN Unaligned ELSE aligned[k]]
  /\ s_end' = s_ptr /\ t_end' = t_ptr
  /\ UNCHANGED <<input, s_ptr, t_ptr, chunk_count, chunk_ids, teacher_truncated, row, at>>
Fallback ==
  /\ at = "growing"
  /\ InReach => ~Boundary /\ Grown = <<s_end, t_end>>
  /\ aligned' = [k \in 1..n_stu |-> IF k >= s_ptr THEN Unaligned ELSE aligned[k]]
  /\ s_ptr' = n_stu + 1 /\ t_ptr' = n_tec + 1
  /\ at' = "ended"
  /\ UNCHANGED <<input, s_end, t_end, chunk_count, chunk_ids, teacher_truncated, row>>

-------------------------------------------------------------------------------
(* Steps C and D of handle_futures: a row whose teacher ran out is given   *)
(* up; else the first end token gets the log-probability of the teacher's  *)
(* end, in a chunk of its own, and the others get none.                    *)
(* Mutant: that of the last token of the content. *)
EndOfTeacherMutant == [sum |-> {n_tec}, of |-> 1]
EndOfTeacher == [sum |-> {n_tec + 1}, of |-> 1]
EndChunk == IF n_stu = 0 THEN 0 ELSE Max({chunk_ids[k] : k \in 1..n_stu}) + 1
GivenUp == [k \in 1..n_stu + n_special |-> [logp |-> Unaligned, chunk |-> -1]]
Fill ==
  /\ at = "ended"
  /\ row' = IF teacher_truncated THEN GivenUp
            ELSE [k \in 1..n_stu + n_special |->
                   IF k <= n_stu THEN [logp |-> aligned[k], chunk |-> chunk_ids[k]]
                   ELSE IF k = n_stu + 1 THEN [logp |-> EndOfTeacher, chunk |-> EndChunk]
                   ELSE [logp |-> Unaligned, chunk |-> -1]]
  /\ at' = "filled"
  /\ UNCHANGED <<input, s_ptr, t_ptr, s_end, t_end, chunk_count, aligned, chunk_ids,
                 teacher_truncated>>

AlignFinished == at = "filled" /\ UNCHANGED alignVars

AlignSteps == Match \/ Grow \/ Fallback \/ Fill
AlignNext == AlignSteps \/ AlignFinished
AlignSpec == AlignInit /\ [][AlignNext]_alignVars
(* A sequential program takes its steps. *)
AlignFairSpec == AlignSpec /\ WF_alignVars(AlignSteps)

-------------------------------------------------------------------------------
(* What compute_policy_loss_opd makes of a row: the positions that are no  *)
(* sentinels, and the chunks their credit is assigned in.                  *)
Sentinel(k) == row[k].logp = Unaligned \/ row[k].chunk < 0
Trained == {k \in DOMAIN row : ~Sentinel(k)}
ChunkOf(id) == {k \in Trained : row[k].chunk = id}
ChunkIds == {row[k].chunk : k \in Trained}

AlignTypeOK ==
  /\ s_ptr \in 1..n_stu + 1 /\ t_ptr \in 1..n_tec + 1
  /\ s_end \in 1..n_stu + 1 /\ t_end \in 1..n_tec + 1
  /\ chunk_count \in 0..n_stu /\ \A k \in 1..n_stu : chunk_ids[k] \in -1..chunk_count - 1
  /\ teacher_truncated \in BOOLEAN /\ at \in {"growing", "ended", "filled"}
  /\ row # <<>> => DOMAIN row = 1..n_stu + n_special

(* "All rules preserve chunk-level log-prob conservation": the shares of a *)
(* chunk are those of one sum of the teacher's, and as many as it was      *)
(* divided by; and no log-probability of the teacher is in two chunks.     *)
Conserved ==
  /\ \A id \in ChunkIds : \A k \in ChunkOf(id) :
       /\ row[k].logp # Unset
       /\ row[k].logp.of = Cardinality(ChunkOf(id))
       /\ \A m \in ChunkOf(id) : row[m].logp = row[k].logp
  /\ \A j, k \in Trained :
       row[j].chunk # row[k].chunk => row[j].logp.sum \cap row[k].logp.sum = {}

(* A chunk is the same text on both sides, of whole characters and of a    *)
(* size that can be relied on.                                             *)
SameText ==
  \A id \in ChunkIds : \A k \in ChunkOf(id) : k <= n_stu =>
    LET s == ChunkOf(id)
        t == row[k].logp.sum
    IN /\ {Cardinality(s), Cardinality(t)} \subseteq 1..LargeChunkThreshold
       /\ s = Min(s)..Max(s) /\ t = Min(t)..Max(t)
       /\ Text(student, Min(s), Max(s)) = Text(teacher, Min(t), Max(t))
       /\ ~Incomplete(Text(student, Min(s), Max(s)))

(* Every chunk is credited with the teacher's sum over the same text, all  *)
(* of it and once.                                                         *)
ChunksAligned == AlignTypeOK /\ Conserved /\ SameText

(* A response of whole characters whose teacher was not cut is trained on  *)
(* in full, but for chunks too large: the search for boundaries never gets *)
(* stuck on it.                                                            *)
WhollyAligned ==
  at = "filled" /\ n_tec = n_full /\ Replacement \notin ToSet(Text(student, 1, n_stu))
    => \A k \in 1..n_stu : Sentinel(k) =>
         \E from \in 1..k, to \in k..n_stu, u \in 1..n_tec : \E v \in u..n_tec :
           /\ to - from >= LargeChunkThreshold \/ v - u >= LargeChunkThreshold
           /\ \A j \in from..to : Sentinel(j)
           /\ Text(student, from, to) = Text(teacher, u, v)

(* The end token is credited with the teacher's own end, and only the      *)
(* first one.                                                              *)
EndCredited ==
  at = "filled" /\ n_tec = n_full /\ n_special > 0 =>
    /\ n_stu + 1 \in Trained /\ row[n_stu + 1].logp.sum = {n_full + 1}
    /\ \A k \in n_stu + 2..n_stu + n_special : Sentinel(k)

(* Nothing that could be credited is left out, the end included.           *)
AllCredited == WhollyAligned /\ EndCredited

(* "teacher_truncated: bool, True if teacher ran out before student":      *)
(* nothing is trained on of a response that the teacher has not seen all   *)
(* of.                                                                     *)
CutIsGivenUp == at = "filled" /\ n_tec < n_full => Trained = {}

(* The search ends, whatever the two sides are. *)
AlignEnds == <>(at = "filled")
===============================================================================
