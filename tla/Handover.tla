------------------------------ MODULE Handover ------------------------------
(***************************************************************************)
(* What a group of selector threads promises about channels, with no       *)
(* queues, wakeups, counters or accepting threads: a channel is given to   *)
(* one thread of those that may have it, once and for as long as it is     *)
(* open.  SelectorGroup implements this specification.                     *)
(***************************************************************************)
CONSTANTS Channels,
          Home,      \* the threads that may have each channel
          Closable   \* the channels that may be closed

VARIABLES fresh,     \* channels not given to any thread so far
          held       \* which channel is with which thread

hvars == <<fresh, held>>

HInit == fresh = Channels /\ held = {}

Holders(ch) == {p \in held : p[1] = ch}

\* One of its threads gets it, or none can be chosen.
Give(ch) ==
    /\ fresh' = fresh \ {ch}
    /\ Holders(ch) = {}
    /\ (\E t \in Home[ch] : held' = held \cup {<<ch, t>>}) \/ UNCHANGED held

Close(ch) ==
    /\ Holders(ch) # {}
    /\ held' = held \ Holders(ch)
    /\ UNCHANGED fresh

HNext == (\E ch \in fresh : Give(ch)) \/ (\E ch \in Closable : Close(ch))

HSpec == HInit /\ [][HNext]_hvars
=============================================================================
