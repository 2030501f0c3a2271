------------------------------- MODULE Framing --------------------------------
(***************************************************************************)
(* How a StreamSocketContext of single_fs/depends/net.v1 turns a byte      *)
(* stream back into packets: HandleOutput writes the fields of a packet,   *)
(* recv returns the stream in pieces of any size, HandleInputImpl collects *)
(* them in recv_buffer_ and Chunking cuts packets out of its front.        *)
(*                                                                         *)
(* A cell is four bytes, read as a number below 2^31.  Every field of a    *)
(* frame is one cell, data and what recv returns come in whole cells, so   *)
(* 8 bytes of code are 2 cells here:                                       *)
(*      HEAD   total length   head length   head ...  data length  data ...*)
(* The total length counts the cells that follow it.                       *)
(***************************************************************************)
EXTENDS Naturals, Sequences

CONSTANTS Payloads,    \* packets that are sent, as [head, data] of cells
          BufferSize,  \* recv_buffer_length_, in cells
          MaxPackets,  \* bound: packets sent on the connection
          Stale        \* a packet with cells that were not received for it

HEAD == 1

ASSUME FramingAssumption ==
  /\ Payloads \subseteq [head : Seq(Nat), data : Seq(Nat)]
  /\ BufferSize \in Nat \ {0, 1}
  /\ MaxPackets \in Nat

VARIABLES
  sent,       \* packets given to HandleOutput
  wire,       \* cells written, or still to be written, and not yet received
  peerOpen,   \* the sender has not closed its end
  buffer,     \* the first buffer_offset_ cells of recv_buffer_
  loop,       \* where HandleInputImpl is: "recv" or "chunk", "gone" after
              \* delete this, "dead" after a read outside the buffer
  delivered   \* packets given to OnReceived

vars == <<sent, wire, peerOpen, buffer, loop, delivered>>

Init ==
  /\ sent = <<>> /\ wire = <<>> /\ peerOpen = TRUE
  /\ buffer = <<>> /\ loop = "recv"
  /\ delivered = <<>>
-----------------------------------------------------------------------------
(* The sender. *)

Body(p) == <<Len(p.head)>> \o p.head \o <<Len(p.data)>> \o p.data
Frame(p) == <<HEAD, Len(Body(p))>> \o Body(p)

\* HandleOutput: the fields, in this order.
Output(p) ==
  /\ peerOpen
  /\ Len(sent) < MaxPackets
  /\ sent' = Append(sent, p)
  /\ wire' = wire \o Frame(p)
  /\ UNCHANGED <<peerOpen, buffer, loop, delivered>>

PeerClose ==
  /\ peerOpen
  /\ peerOpen' = FALSE
  /\ UNCHANGED <<sent, wire, buffer, loop, delivered>>
-----------------------------------------------------------------------------
(* The receiver. *)

Room == BufferSize - Len(buffer)

\* recv returns some of the bytes that have arrived, as many as fit.
Recv(n) ==
  /\ loop = "recv"
  /\ n <= Room /\ n <= Len(wire)
  /\ buffer' = buffer \o SubSeq(wire, 1, n)
  /\ wire' = SubSeq(wire, n + 1, Len(wire))
  /\ loop' = "chunk"
  /\ UNCHANGED <<sent, peerOpen, delivered>>

\* recv returns 0: the stream has ended, or no byte was asked for.
RecvZero ==
  /\ loop = "recv"
  /\ Room = 0 \/ (wire = <<>> /\ ~peerOpen)
  /\ loop' = "gone"
  /\ UNCHANGED <<sent, wire, peerOpen, buffer, delivered>>

\* Chunking's test for packets the buffer cannot hold.
TooBigOffByOne(total) == total > BufferSize   \* mutant
TooBig(total) == total >= BufferSize

\* Its test for packets that are not complete yet.
Incomplete(total) == total > Len(buffer) - 2

HasPrefix == Len(buffer) >= 2 /\ buffer[1] = HEAD

\* Chunking returns without a packet and keeps what it has.
ChunkWait ==
  /\ loop = "chunk"
  /\ \/ Len(buffer) < 2
     \/ HasPrefix /\ ~TooBig(buffer[2]) /\ Incomplete(buffer[2])
  /\ loop' = "recv"
  /\ UNCHANGED <<sent, wire, peerOpen, buffer, delivered>>

\* "broken packet", "too big packet or unrecognized packet": all is dropped.
ChunkReset ==
  /\ loop = "chunk"
  /\ Len(buffer) >= 2
  /\ HasPrefix => TooBig(buffer[2])
  /\ buffer' = <<>>
  /\ loop' = "recv"
  /\ UNCHANGED <<sent, wire, peerOpen, delivered>>

\* Faulty FrontPacket: the data length is not looked at.
FrontPacketToTheEnd ==
  LET h == buffer[3]
  IN  [head |-> SubSeq(buffer, 4, 3 + h), data |-> SubSeq(buffer, 5 + h, Len(buffer))]

\* The packet at the front of the buffer.
FrontPacket ==
  LET h == buffer[3]
      d == buffer[4 + h]
  IN  [head |-> SubSeq(buffer, 4, 3 + h), data |-> SubSeq(buffer, 5 + h, 4 + h + d)]

\* The lengths inside a packet lead no further than the cells received: so it
\* is with a frame HandleOutput wrote, not with data that looks like one.
InPlace ==
  /\ Len(buffer) >= 4
  /\ buffer[3] + 4 <= Len(buffer)
  /\ buffer[3] + 4 + buffer[buffer[3] + 4] <= Len(buffer)

Rest == SubSeq(buffer, buffer[2] + 3, Len(buffer))

\* Faulty ChunkPacket: Chunking does not call itself again.
ChunkPacketOnce ==
  /\ loop = "chunk"
  /\ HasPrefix
  /\ ~TooBig(buffer[2]) /\ ~Incomplete(buffer[2])
  /\ delivered' = Append(delivered, IF InPlace THEN FrontPacket ELSE Stale)
  /\ buffer' = Rest
  /\ loop' = "recv"
  /\ UNCHANGED <<sent, wire, peerOpen>>

\* A complete packet: OnReceived gets it, and Chunking looks for the next.
\* Lengths that lead outside are followed into what the memory held before.
ChunkPacket ==
  /\ loop = "chunk"
  /\ HasPrefix
  /\ ~TooBig(buffer[2]) /\ ~Incomplete(buffer[2])
  /\ delivered' = Append(delivered, IF InPlace THEN FrontPacket ELSE Stale)
  /\ buffer' = Rest
  /\ UNCHANGED <<sent, wire, peerOpen, loop>>

\* ... or to memory that is not there: new or memmove ends the process.
ChunkCrash ==
  /\ loop = "chunk"
  /\ HasPrefix
  /\ ~TooBig(buffer[2]) /\ ~Incomplete(buffer[2]) /\ ~InPlace
  /\ loop' = "dead"
  /\ UNCHANGED <<sent, wire, peerOpen, buffer, delivered>>

HandleInput ==
  \/ \E n \in 1..Len(wire) : Recv(n)
  \/ RecvZero \/ ChunkWait \/ ChunkReset \/ ChunkPacket \/ ChunkCrash

Closed == loop \in {"gone", "dead"} /\ UNCHANGED vars

Next == (\E p \in Payloads : Output(p)) \/ PeerClose \/ HandleInput \/ Closed

Spec == Init /\ [][Next]_vars

\* The loop keeps calling recv as long as bytes or the end of the stream come.
FairSpec == Spec /\ WF_vars(HandleInput)
-----------------------------------------------------------------------------
\* The whole frame fits in the receive buffer.
Fits(p) == Len(Frame(p)) <= BufferSize
AllFit == \A n \in 1..Len(sent) : Fits(sent[n])

\* HEAD is found in the frames sent only where they begin.
Marked(p) == \A j \in 2..Len(Frame(p)) : Frame(p)[j] # HEAD
AllMarked == \A n \in 1..Len(sent) : Marked(sent[n])

\* After a packet that does not fit Chunking has lost its place, and drops
\* what it cannot parse.  Unless one of the packets sent so far holds HEAD, and
\* another does not fit, it never invents, repeats or reorders a packet.
NothingForged ==
  AllFit \/ AllMarked =>
    \E at \in [1..Len(delivered) -> 1..Len(sent)] :
      /\ \A i, j \in 1..Len(delivered) : i < j => at[i] < at[j]
      /\ \A i \in 1..Len(delivered) : delivered[i] = sent[at[i]]

\* A body one cell shorter than the buffer passes TooBig, and its frame, which
\* is longer than the buffer, fills it without ever being complete.
Filling(total) == total = BufferSize - 1

\* The connection of a sender that has not closed it is deleted only when recv
\* is asked for no byte at all, behind a frame of that length, and unless data
\* was taken for a frame, a packet of that length has been sent.
ClosedByPeerOrFull ==
  loop = "gone" /\ peerOpen =>
    /\ Room = 0 /\ HasPrefix /\ Filling(buffer[2])
    /\ AllFit \/ AllMarked => \E n \in 1..Len(sent) : Filling(Len(Body(sent[n])))

\* So it is deleted only when its sender has closed it, while all packets fit.
ClosedByPeerOnly == loop = "gone" => ~peerOpen

\* Every packet reaches OnReceived, also when the sender closes right after
\* it, as long as all of them fit.
Delivered ==
  \A n \in 1..MaxPackets : Len(sent) = n ~> Len(delivered) >= n \/ ~AllFit
=============================================================================
