---------------------------- MODULE FrameDecoder ----------------------------
(***************************************************************************)
(* ServerDecode of the RPC demo: the byte stream of a connection, cut      *)
(* anywhere by the network, becomes messages again.  A message is a header *)
(* of HeaderLen bytes, which gives the length of the body, and the body.   *)
(* An exception leaves the bytes not yet read in the buffer; the next      *)
(* bytes to arrive are decoded together with them.                         *)
(***************************************************************************)
EXTENDS Integers, Sequences

CONSTANTS
    N,             \* messages sent over the connection
    HeaderLen,     \* 119 in rpcdemo, 98 in Multiplex04RPC
    MaxBody        \* the longest body

ASSUME DecoderAssumption ==
    /\ N \in Nat \ {0} /\ HeaderLen \in Nat \ {0} /\ MaxBody \in Nat \ {0}

VARIABLES
    copy,       \* "rpcdemo" or "multiplex": the decoder of the connection, for good
    start,      \* where each message starts in the stream; start[N + 1] is its end
    received,   \* bytes that have arrived
    reader,     \* readerIndex: bytes read out of the buffer
    out,        \* the messages given to the handler after the decoder
    pc          \* "decode" in the loop, "idle" between two reads

vars == <<copy, start, received, reader, out, pc>>

\* The messages of the stream one after another, with bodies of every length.
Streams ==
    {f \in [1..N + 1 -> 0..N * (HeaderLen + MaxBody)] :
        /\ f[1] = 0
        /\ \A i \in 1..N : f[i + 1] - f[i] \in HeaderLen + 1..HeaderLen + MaxBody
        /\ \A i, j \in 1..N + 1 : i < j => f[i] < f[j]}

Init ==
    /\ copy \in {"rpcdemo", "multiplex"}
    /\ start \in Streams
    /\ received = 0
    /\ reader = 0
    /\ out = <<>>
    /\ pc = "idle"

DataLen(i) == start[i + 1] - start[i] - HeaderLen
ReadableBytes == received - reader

\* Some more bytes arrive; the decoder is called on all that is buffered.
Read ==
    /\ pc = "idle"
    /\ received' \in received + 1..start[N + 1]
    /\ pc' = "decode"
    /\ UNCHANGED <<copy, start, reader, out>>

\* (Operators named Bad... are faulty forms of the one after them; no
\* specification uses them.  They are there to see the properties fail.)
BadEnough(i) == ReadableBytes >= DataLen(i)

\* rpcdemo compares the body with what follows the header, Multiplex04RPC with
\* all that can be read.
Enough(i) == IF copy = "rpcdemo" THEN ReadableBytes - HeaderLen >= DataLen(i)
                                 ELSE ReadableBytes >= DataLen(i)

BadLoop == ReadableBytes > HeaderLen + MaxBody

Loop == ReadableBytes >= HeaderLen

BadBehind(i) == reader

Behind(i) == reader + HeaderLen + DataLen(i)

\* One turn of the loop with the reader at the header of message i: the message
\* is read, or the body is not complete.
Decode(i) ==
    /\ pc = "decode" /\ Loop
    /\ start[i] = reader
    /\ \/ /\ Enough(i) /\ ReadableBytes - HeaderLen >= DataLen(i)
          /\ reader' = Behind(i)
          /\ out' = Append(out, i)
          /\ UNCHANGED pc
       \/ /\ Enough(i) /\ ReadableBytes - HeaderLen < DataLen(i)
          /\ reader' = reader + HeaderLen   \* the body does not fit: an exception
          /\ pc' = "idle"
          /\ UNCHANGED out
       \/ /\ ~Enough(i)
          /\ pc' = "idle"
          /\ UNCHANGED <<reader, out>>
    /\ UNCHANGED <<copy, start, received>>

\* The reader is not at a header: readObject throws, nothing is read.
Corrupt ==
    /\ pc = "decode" /\ Loop
    /\ \A i \in 1..N : start[i] # reader
    /\ pc' = "idle"
    /\ UNCHANGED <<copy, start, received, reader, out>>

EndLoop ==
    /\ pc = "decode" /\ ~Loop
    /\ pc' = "idle"
    /\ UNCHANGED <<copy, start, received, reader, out>>

Next == Read \/ (\E i \in 1..N : Decode(i)) \/ Corrupt \/ EndLoop

Spec == Init /\ [][Next]_vars

\* The whole stream arrives and the event loop runs.
FairSpec == Spec /\ WF_vars(Next)

-----------------------------------------------------------------------------
\* Typing: the decoder stays inside the stream and the accumulated bytes.
TypeOK ==
    /\ copy \in {"rpcdemo", "multiplex"}
    /\ start \in Streams
    /\ received \in 0..start[N + 1]
    /\ reader \in 0..received
    /\ out \in Seq(1..N)
    /\ Len(out) <= N
    /\ pc \in {"idle", "decode"}

\* The handler gets messages as they were sent, in order, none twice, wherever
\* the stream was cut.
InOrder == \A i \in 1..Len(out) : out[i] = i

\* The messages all of whose bytes are there.
Complete == {i \in 1..N : start[i + 1] <= received}

Channel == INSTANCE MessageChannel WITH arrived <- Complete

\* Wherever the stream was cut, and whatever a decoder made of the pieces before, it
\* delivers the next message or nothing, and only when all its bytes are there: both
\* copies implement MessageChannel.
ImplementsChannel == Channel!CSpec

\* The reader is always between two messages: the next bytes to decode are a
\* header.  This is what "solves sticking and splitting of packets" means.
BetweenMessages == InOrder /\ reader = start[Len(out) + 1]

\* The decoder of rpcdemo stays between two messages.
Framed == copy = "rpcdemo" => BetweenMessages

\* Between two reads of rpcdemo every message that has arrived completely has been
\* given to the handler: none waits for the bytes of the next one.
NothingLeft ==
    copy = "rpcdemo" /\ pc = "idle" /\ Len(out) < N => received < start[Len(out) + 2]

\* rpcdemo decodes the whole stream in the end.
AllDecoded == copy = "rpcdemo" ~> Len(out) = N
=============================================================================
