------------------------------- MODULE MCLocalCopy -----------------------------
EXTENDS LocalCopy

CONSTANT MaxLength    \* of dst

\* The chunks 1001 and 0110 have one weak sum.
MCSrcs == {<<0,0,1,1>>, <<1,0,0,1, 0,1,1,0, 1>>, <<0,1,1,0, 1,1,0,0, 0,1>>}
MCDsts == {NoFile} \cup UNION {[1 .. n -> {0, 1}] : n \in 0 .. MaxLength}

================================================================================
