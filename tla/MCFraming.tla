------------------------------ MODULE MCFraming -------------------------------
(* Framing with a receive buffer of eight cells, for TLC. *)
EXTENDS Framing

Packet(head, data) == [head |-> head, data |-> data]

\* Nothing at all, and a frame that fills the buffer.
Fitting == {Packet(<<>>, <<>>), Packet(<<5, 0>>, <<7, 9>>)}

\* A body one cell shorter than the buffer: the frame is longer than it.
Between == {Packet(<<5, 0>>, <<7, 7, 9>>)}

\* Bodies as long as the buffer: ordinary data, and data in which Chunking can
\* find an empty packet, or one whose lengths lead outside the buffer.
Refused == {Packet(<<5, 0>>, <<7, 7, 9, 9>>), Packet(<<>>, <<1, 2, 0, 0, 1, 0>>)}

Mixed == Fitting \cup Between \cup Refused
=============================================================================
