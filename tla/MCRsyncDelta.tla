------------------------------ MODULE MCRsyncDelta -----------------------------
EXTENDS RsyncDelta

CONSTANT MaxLength    \* of a new file

Byte    == {0, 1}
\* A match of the first may lie wholly beyond the end of a new file.
MCOlds  == {<<0,0,1,0, 0,0,1,1>>, <<1,0,0,1, 0,1,1,0>>, <<0,1,0,1, 1,0,0,0, 1>>,
            <<1,0,0,1, 1,1,0,0, 0,0>>}
MCNews  == UNION {[1 .. n -> Byte] : n \in 0 .. MaxLength} \cup MCOlds
MCLeftovers == {NoFile, <<[from |-> TRUE, data |-> <<1, 1>>]>>}

================================================================================
