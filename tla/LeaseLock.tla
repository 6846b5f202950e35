------------------------------ MODULE LeaseLock ------------------------------
(***************************************************************************)
(* What a lock with a time limit promises to clients that are quick        *)
(* enough, with no clock and no polling: the lock is taken while it is     *)
(* free, given back by its owner alone, and runs out only while its owner  *)
(* is not inside - because the owner never learned that it had the lock,   *)
(* crashed, or could not give it back.  LockRedis implements it for such   *)
(* clients.                                                                *)
(***************************************************************************)
CONSTANTS Clients, None

VARIABLES owner,   \* who has taken the lock
          inside   \* who works under it

lvars == <<owner, inside>>

LInit == owner = None /\ inside = {}

\* The client may not learn that it has the lock.
Take(c) ==
    /\ owner = None
    /\ owner' = c
    /\ inside' \in {inside, inside \cup {c}}

GiveBack(c) ==
    /\ owner = c
    /\ c \in inside
    /\ owner' = None
    /\ inside' = inside \ {c}

\* The client is gone, the lock is not.
Abandon(c) ==
    /\ owner = c
    /\ c \in inside
    /\ inside' = inside \ {c}
    /\ UNCHANGED owner

RunOut ==
    /\ owner \in Clients \ inside
    /\ owner' = None
    /\ UNCHANGED inside

LNext == RunOut \/ \E c \in Clients : Take(c) \/ GiveBack(c) \/ Abandon(c)

LSpec == LInit /\ [][LNext]_lvars
=============================================================================
