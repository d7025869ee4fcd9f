--------------------------- MODULE MC_TeacherService ---------------------------
EXTENDS TeacherService, TLC

Symmetry == Permutations(Threads)
===============================================================================
