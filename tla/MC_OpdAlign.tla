------------------------------ MODULE MC_OpdAlign ------------------------------
EXTENDS OpdAlign

ByteStrings == UNION {[1..n -> {"a", "h", "l"}] : n \in 0..3} \cup {<<"a", "h", "l", "a">>}
===============================================================================
