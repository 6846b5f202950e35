---------------------------- MODULE MessageChannel ----------------------------
(***************************************************************************)
(* What a decoder promises the handler behind it, with no bytes, headers   *)
(* or buffers: messages arrive in the order they were sent, and the next   *)
(* one that has arrived may be delivered, once.  FrameDecoder implements   *)
(* this specification.                                                     *)
(***************************************************************************)
EXTENDS Naturals, Sequences

CONSTANT N         \* messages sent, called 1 to N

VARIABLES arrived, \* the messages that have arrived completely
          out      \* the messages delivered

cvars == <<arrived, out>>

CInit == arrived = {} /\ out = <<>>

\* What arrives is the beginning of what was sent.
Arrive ==
    /\ arrived' \in {S \in SUBSET (1..N) : \A i \in S : 1..i \subseteq S}
    /\ arrived \subseteq arrived'
    /\ UNCHANGED out

Deliver ==
    /\ Len(out) + 1 \in arrived
    /\ out' = Append(out, Len(out) + 1)
    /\ UNCHANGED arrived

CNext == Arrive \/ Deliver

CSpec == CInit /\ [][CNext]_cvars
=============================================================================
