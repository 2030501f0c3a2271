------------------------------ MODULE MCSimpleRsync ----------------------------
EXTENDS SimpleRsync

CONSTANTS c1, c2

\* Bytes 1 and 5 are the same to a weak sum modulo 4: the second window of the copy
\* <<0, 5, 1, 0>> has the weak sum of the first chunk of the first file, and the last
\* window is the second chunk. The other client has the second file, or nothing.
MCVersions == {<<1, 1, 1, 0>>, <<1, 0, 3>>, <<3>>, NoFile}
MCCopies   == {(c1 :> <<0, 5, 1, 0>>) @@ (c2 :> d) : d \in {<<1, 0, 3>>, NoFile}}

================================================================================
