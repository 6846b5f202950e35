------------------------- MODULE FrameDecoderProofs -------------------------
(***************************************************************************)
(* Both decoders deliver messages in order and none twice, and the one of  *)
(* rpcdemo all of them as soon as they are complete, for every number of   *)
(* messages, header length, body lengths and every way the network cuts    *)
(* the stream.                                                             *)
(***************************************************************************)
EXTENDS FrameDecoder, TLAPS

\* Where the reader can be: between two messages, or in Multiplex04RPC behind the
\* header of a message whose body was cut, where it stays.
Place ==
    \/ reader = start[Len(out) + 1]
    \/ copy = "multiplex" /\ Len(out) < N /\ reader = start[Len(out) + 1] + HeaderLen

Inv == TypeOK /\ InOrder /\ Place /\ NothingLeft

\* What start says of message i, in integers.
LEMMA Lengths ==
    ASSUME TypeOK, NEW i \in 1..N
    PROVE /\ start[i] \in Nat /\ start[i + 1] \in Nat
          /\ DataLen(i) \in Nat /\ DataLen(i) >= 1
          /\ start[i + 1] = start[i] + HeaderLen + DataLen(i)
<1>1. i \in 1..N + 1 /\ i + 1 \in 1..N + 1
  BY DecoderAssumption
<1>2. start[i] \in Nat /\ start[i + 1] \in Nat
  BY <1>1, DecoderAssumption DEF TypeOK, Streams
<1>3. start[i + 1] - start[i] \in HeaderLen + 1..HeaderLen + MaxBody
  BY DEF TypeOK, Streams
<1> QED
  BY <1>2, <1>3, DecoderAssumption DEF DataLen

\* The numbers the state is made of.
LEMMA Numbers ==
    ASSUME Inv
    PROVE /\ Len(out) \in Nat /\ Len(out) <= N
          /\ received \in Nat /\ reader \in Nat /\ reader <= received
          /\ start[N + 1] \in Nat /\ received <= start[N + 1]
          /\ start[Len(out) + 1] \in Nat
<1>1. Len(out) \in Nat /\ Len(out) <= N
  BY DEF Inv, TypeOK
<1>2. N + 1 \in 1..N + 1 /\ Len(out) + 1 \in 1..N + 1
  BY <1>1, DecoderAssumption
<1>3. start[N + 1] \in Nat /\ start[Len(out) + 1] \in Nat
  BY <1>2, DecoderAssumption DEF Inv, TypeOK, Streams
<1>4. received \in 0..start[N + 1] /\ reader \in 0..received
  BY DEF Inv, TypeOK
<1> QED
  BY <1>1, <1>3, <1>4

\* The header the reader is at is the one of the first message not yet delivered.
LEMMA NextMessage ==
    ASSUME Inv, NEW i \in 1..N, start[i] = reader
    PROVE i = Len(out) + 1
<1>1. Len(out) \in Nat /\ Len(out) + 1 \in 1..N + 1 /\ i \in 1..N + 1
  BY Numbers, DecoderAssumption
<1>2. \A j, k \in 1..N + 1 : j < k => start[j] < start[k]
  BY DEF Inv, TypeOK, Streams
<1>3. \A j \in 1..N + 1 : start[j] \in Nat
  <2>1. start \in [1..N + 1 -> 0..N * (HeaderLen + MaxBody)]
    BY DEF Inv, TypeOK, Streams
  <2>2. \A j \in 1..N + 1 : start[j] \in 0..N * (HeaderLen + MaxBody)
    BY <2>1
  <2> QED
    BY <2>2, DecoderAssumption
<1>4. CASE reader = start[Len(out) + 1]
  BY <1>1, <1>2, <1>3, <1>4, DecoderAssumption
<1>5. CASE Len(out) < N /\ reader = start[Len(out) + 1] + HeaderLen
  <2>1. Len(out) + 1 \in 1..N /\ Len(out) + 2 \in 1..N + 1
    BY <1>1, <1>5, DecoderAssumption
  <2>2. start[Len(out) + 1] < reader /\ reader < start[Len(out) + 2]
    <3>1. /\ start[(Len(out) + 1) + 1] = start[Len(out) + 1] + HeaderLen + DataLen(Len(out) + 1)
          /\ DataLen(Len(out) + 1) \in Nat /\ DataLen(Len(out) + 1) >= 1
          /\ start[Len(out) + 1] \in Nat
      BY <2>1, Lengths DEF Inv
    <3> QED
      BY <1>1, <1>5, <3>1, DecoderAssumption
  <2>3. i < Len(out) + 1 \/ i = Len(out) + 1 \/ i = Len(out) + 2 \/ i > Len(out) + 2
    BY <1>1
  <2>4. ~(i = Len(out) + 1) /\ ~(i = Len(out) + 2)
    BY <1>1, <1>3, <2>1, <2>2
  <2>5. ~(i < Len(out) + 1) /\ ~(i > Len(out) + 2)
    BY <1>1, <1>2, <1>3, <2>1, <2>2
  <2> QED
    BY <2>3, <2>4, <2>5
<1> QED
  BY <1>4, <1>5 DEF Inv, Place

LEMMA Start ==
    ASSUME Init
    PROVE Inv
<1>1. start \in Streams /\ start[1] = 0
  BY DEF Init, Streams
<1>2. start[2] \in Nat /\ start[2] >= 1 /\ start[N + 1] \in Nat
  <2>1. 1 \in 1..N /\ N + 1 \in 1..N + 1
    BY DecoderAssumption
  <2>2. start[N + 1] \in Nat
    BY <1>1, <2>1, DecoderAssumption DEF Streams
  <2>3. start[1 + 1] - start[1] \in HeaderLen + 1..HeaderLen + MaxBody
    BY <1>1, <2>1 DEF Streams
  <2>4. 2 \in 1..N + 1 /\ start[2] \in Nat
    BY <1>1, DecoderAssumption DEF Streams
  <2> QED
    BY <1>1, <2>2, <2>3, <2>4, DecoderAssumption
<1>3. out = <<>> /\ received = 0 /\ reader = 0 /\ pc = "idle" /\ copy \in {"rpcdemo", "multiplex"}
  BY DEF Init
<1>4. Len(out) = 0 /\ out \in Seq(1..N)
  BY <1>3
<1>5. TypeOK
  BY <1>1, <1>2, <1>3, <1>4, DecoderAssumption DEF TypeOK
<1>6. InOrder /\ Place
  BY <1>1, <1>3, <1>4 DEF InOrder, Place
<1>7. NothingLeft
  BY <1>2, <1>3, <1>4 DEF NothingLeft
<1> QED
  BY <1>5, <1>6, <1>7 DEF Inv

\* One turn of the loop keeps the reader in its place.
LEMMA DecodeKeeps ==
    ASSUME Inv, NEW i \in 1..N, Decode(i)
    PROVE Inv'
<1>1. i = Len(out) + 1 /\ Len(out) \in Nat /\ Len(out) < N
  BY NextMessage, Numbers, DecoderAssumption DEF Decode
<1>2. /\ start[i] \in Nat /\ start[i + 1] \in Nat
      /\ DataLen(i) \in Nat /\ DataLen(i) >= 1
      /\ start[i + 1] = start[i] + HeaderLen + DataLen(i)
  BY Lengths DEF Inv
<1>3. reader \in Nat /\ received \in Nat /\ reader = start[i] /\ reader <= received
      /\ ReadableBytes \in Int
  BY Numbers DEF Decode, ReadableBytes
<1>4. start' = start /\ received' = received /\ copy' = copy
  BY DEF Decode
<1>5. CASE Enough(i) /\ ReadableBytes - HeaderLen >= DataLen(i)
  <2>1. reader' = Behind(i) /\ out' = Append(out, i) /\ pc' = pc /\ pc = "decode"
    BY <1>2, <1>3, <1>5, DecoderAssumption DEF Decode
  <2>2. reader' = start[i + 1]
    BY <1>2, <1>3, <2>1 DEF Behind
  <2>3. out' \in Seq(1..N) /\ Len(out') = Len(out) + 1
        /\ \A j \in 1..Len(out') : out'[j] = IF j = i THEN i ELSE out[j]
    BY <1>1, <2>1 DEF Inv, TypeOK
  <2>4. InOrder'
    BY <1>1, <2>3 DEF Inv, InOrder
  <2>5. reader' \in 0..received'
    BY <1>2, <1>3, <1>4, <1>5, <2>2, DecoderAssumption DEF ReadableBytes
  <2>6. TypeOK'
    BY <1>1, <1>4, <2>1, <2>3, <2>5 DEF Inv, TypeOK
  <2> QED
    BY <1>1, <1>4, <2>1, <2>2, <2>3, <2>4, <2>6 DEF Inv, Place, NothingLeft
<1>6. CASE Enough(i) /\ ReadableBytes - HeaderLen < DataLen(i)
  <2>1. reader' = reader + HeaderLen /\ pc' = "idle" /\ out' = out
    BY <1>2, <1>3, <1>6, DecoderAssumption DEF Decode
  <2>2. copy = "multiplex" /\ copy # "rpcdemo"
    BY <1>2, <1>3, <1>6, DecoderAssumption DEF Enough, Inv, TypeOK
  <2>3. reader' \in 0..received'
    BY <1>3, <1>4, <2>1, DecoderAssumption DEF Decode, Loop, ReadableBytes
  <2>4. TypeOK'
    BY <1>4, <2>1, <2>3 DEF Inv, TypeOK
  <2> QED
    BY <1>1, <1>3, <1>4, <2>1, <2>2, <2>4 DEF Inv, InOrder, Place, NothingLeft
<1>7. CASE ~Enough(i)
  <2>1. UNCHANGED <<start, received, reader, out>> /\ pc' = "idle"
    BY <1>7 DEF Decode
  <2>2. Len(out) + 2 = i + 1
    BY <1>1
  <2>3. ASSUME copy = "rpcdemo"
        PROVE received < start[i + 1]
    <3>1. ~(received - reader - HeaderLen >= DataLen(i))
      BY <1>7, <2>3 DEF Enough, ReadableBytes
    <3> QED
      BY <1>2, <1>3, <3>1, DecoderAssumption
  <2> QED
    BY <1>4, <2>1, <2>2, <2>3 DEF Inv, TypeOK, InOrder, Place, NothingLeft
<1> QED
  BY <1>2, <1>3, <1>5, <1>6, <1>7, DecoderAssumption

\* The loop ends in front of a header that is not complete.
LEMMA EndLoopKeeps ==
    ASSUME Inv, EndLoop
    PROVE Inv'
<1>1. UNCHANGED <<copy, start, received, reader, out>> /\ pc' = "idle" /\ ~Loop
  BY DEF EndLoop
<1>2. ASSUME copy = "rpcdemo", Len(out) < N
      PROVE received < start[Len(out) + 2]
  <2>1. Len(out) \in Nat /\ Len(out) + 1 \in 1..N
    BY <1>2, Numbers, DecoderAssumption
  <2>2. /\ start[Len(out) + 1] \in Nat /\ DataLen(Len(out) + 1) >= 1
        /\ DataLen(Len(out) + 1) \in Nat
        /\ start[Len(out) + 2] = start[Len(out) + 1] + HeaderLen + DataLen(Len(out) + 1)
    BY <2>1, Lengths DEF Inv
  <2>3. received - start[Len(out) + 1] < HeaderLen /\ received \in Int
    BY <1>1, <1>2, Numbers, DecoderAssumption DEF Loop, ReadableBytes, Inv, Place
  <2> QED
    BY <2>2, <2>3, DecoderAssumption
<1> QED
  BY <1>1, <1>2 DEF Inv, TypeOK, InOrder, Place, NothingLeft

LEMMA CorruptKeeps ==
    ASSUME Inv, Corrupt
    PROVE Inv'
<1>1. UNCHANGED <<copy, start, received, reader, out>> /\ pc' = "idle"
  BY DEF Corrupt
<1>2. copy = "rpcdemo" => ~(Len(out) < N)
  <2>1. Len(out) \in Nat
    BY Numbers
  <2> QED
    BY <2>1, DecoderAssumption DEF Corrupt, Inv, Place
<1> QED
  BY <1>1, <1>2 DEF Inv, TypeOK, InOrder, Place, NothingLeft

LEMMA ReadKeeps ==
    ASSUME Inv, Read
    PROVE Inv'
<1>1. UNCHANGED <<copy, start, reader, out>> /\ pc' = "decode"
  BY DEF Read
<1>2. received' \in 0..start[N + 1] /\ reader \in 0..received'
  BY Numbers DEF Read
<1> QED
  BY <1>1, <1>2 DEF Inv, TypeOK, InOrder, Place, NothingLeft

LEMMA NextInv == Inv /\ [Next]_vars => Inv'
<1>1. CASE UNCHANGED vars
  BY <1>1 DEF vars, Inv, TypeOK, InOrder, Place, NothingLeft
<1> QED
  BY <1>1, ReadKeeps, DecodeKeeps, CorruptKeeps, EndLoopKeeps DEF Next

LEMMA DecoderInvariant == Spec => [](TypeOK /\ InOrder /\ Framed /\ NothingLeft)
<1>1. Init => Inv
  BY Start
<1>2. Inv => TypeOK /\ InOrder /\ Framed /\ NothingLeft
  BY DEF Inv, Place, Framed, BetweenMessages
<1> QED
  BY <1>1, <1>2, NextInv, PTL DEF Spec

\* ServerDecode stays inside the stream and the bytes it has, in both copies.
THEOREM TypeCorrect == Spec => []TypeOK
  BY DecoderInvariant, PTL

\* It delivers messages in order and none twice.
THEOREM DeliveredInOrder == Spec => []InOrder
  BY DecoderInvariant, PTL

\* The one of rpcdemo is always between two messages.
THEOREM DecoderFrames == Spec => []Framed
  BY DecoderInvariant, PTL

\* And keeps no complete message back.
THEOREM NothingKeptBack == Spec => []NothingLeft
  BY DecoderInvariant, PTL

-----------------------------------------------------------------------------
(* FrameDecoder implements MessageChannel                                  *)

\* Bytes make the beginning of the stream longer.
LEMMA ReadArrives ==
    ASSUME Inv, Read
    PROVE  Channel!Arrive
<1>1. start' = start /\ out' = out /\ received' \in Nat /\ received <= received'
  BY Numbers DEF Read
<1>2. received \in Nat
  BY Numbers
<1>3. Complete' = {i \in 1..N : start[i + 1] <= received'}
  BY <1>1 DEF Complete
<1>4. Complete \subseteq Complete'
  BY <1>1, <1>2, <1>3, Lengths DEF Complete, Inv
<1>5. ASSUME NEW i \in Complete', NEW j \in 1..i
      PROVE  j \in Complete'
  <2>1. i \in 1..N /\ start[i + 1] <= received' /\ j \in 1..N
    BY <1>3, <1>5, DecoderAssumption
  <2>2. start[i + 1] \in Nat /\ start[j + 1] \in Nat
    BY <2>1, Lengths DEF Inv
  <2>3. j = i \/ start[j + 1] < start[i + 1]
    BY <1>5, <2>1, DecoderAssumption DEF Inv, TypeOK, Streams
  <2> QED
    BY <1>1, <1>3, <2>1, <2>2, <2>3
<1>6. Complete' \in {S \in SUBSET (1..N) : \A i \in S : 1..i \subseteq S}
  BY <1>3, <1>5
<1> QED
  BY <1>1, <1>4, <1>6 DEF Channel!Arrive

\* A turn of the loop delivers the next message, whose bytes are all there, or none.
LEMMA DecodeDelivers ==
    ASSUME Inv, NEW i \in 1..N, Decode(i)
    PROVE  Channel!Deliver \/ UNCHANGED Channel!cvars
<1>1. start' = start /\ received' = received
  BY DEF Decode
<1>2. Complete' = Complete
  BY <1>1 DEF Complete
<1>3. CASE out' = out
  BY <1>2, <1>3 DEF Channel!cvars
<1>4. CASE out' = Append(out, i) /\ ReadableBytes - HeaderLen >= DataLen(i)
  <2>1. i = Len(out) + 1
    BY NextMessage DEF Decode
  <2>2. /\ start[i] \in Nat /\ start[i + 1] \in Nat /\ DataLen(i) \in Nat
        /\ start[i + 1] = start[i] + HeaderLen + DataLen(i)
    BY Lengths DEF Inv
  <2>3. received - start[i] - HeaderLen >= DataLen(i) /\ received \in Nat
    BY <1>4, Numbers DEF Decode, ReadableBytes
  <2>4. i \in Complete
    BY <2>2, <2>3, DecoderAssumption DEF Complete
  <2> QED
    BY <1>2, <1>4, <2>1, <2>4 DEF Channel!Deliver
<1> QED
  BY <1>3, <1>4 DEF Decode

\* Both decoders, for every stream and every way the network cuts it, deliver the
\* next message once all its bytes are there, or nothing: what Multiplex04RPC makes
\* of a cut body never is a message.
THEOREM RefinesMessageChannel == Spec => ImplementsChannel
<1>1. Init => Inv /\ Channel!CInit
  <2> SUFFICES ASSUME Init PROVE Channel!CInit
    BY Start
  <2>1. \A i \in 1..N : start[i + 1] \in Nat /\ start[i + 1] > 0
    <3> SUFFICES ASSUME NEW i \in 1..N PROVE start[i + 1] \in Nat /\ start[i + 1] > 0
      OBVIOUS
    <3>1. TypeOK
      BY Start DEF Inv
    <3>2. /\ start[i] \in Nat /\ start[i + 1] \in Nat /\ DataLen(i) \in Nat
          /\ start[i + 1] = start[i] + HeaderLen + DataLen(i)
      BY <3>1, Lengths
    <3> QED
      BY <3>2, DecoderAssumption
  <2>2. received = 0 /\ out = <<>>
    BY DEF Init
  <2>3. Complete = {}
    BY <2>1, <2>2 DEF Complete
  <2> QED
    BY <2>2, <2>3 DEF Channel!CInit
<1>2. Inv /\ [Next]_vars => [Channel!CNext]_(Channel!cvars)
  <2> SUFFICES ASSUME Inv, [Next]_vars PROVE Channel!CNext \/ UNCHANGED Channel!cvars
    OBVIOUS
  <2>1. CASE Corrupt \/ EndLoop \/ UNCHANGED vars
    BY <2>1 DEF Corrupt, EndLoop, vars, Complete, Channel!cvars
  <2> QED
    BY <2>1, ReadArrives, DecodeDelivers DEF Next, Channel!CNext
<1> QED
  BY <1>1, <1>2, NextInv, PTL DEF Spec, ImplementsChannel, Channel!CSpec
=============================================================================
