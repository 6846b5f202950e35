----------------------------- MODULE TicketLock -----------------------------
(***************************************************************************)
(* What a fair distributed lock promises, with no sessions, callbacks or   *)
(* watches: a client draws a ticket, enters when its ticket is the lowest  *)
(* one outstanding, and gives the ticket back when it leaves.  The healthy *)
(* LockZookeeper implements this specification.                            *)
(***************************************************************************)
EXTENDS Integers

CONSTANT Clients

VARIABLES last,    \* the last ticket drawn
          ticket,  \* the ticket of each client, 0 when it has none
          inside   \* the clients that believe they hold the lock

tvars == <<last, ticket, inside>>

TInit ==
    /\ last = 0
    /\ ticket = [c \in Clients |-> 0]
    /\ inside = {}

Lowest(c) ==
    /\ ticket[c] > 0
    /\ \A d \in Clients : ticket[d] > 0 => ticket[c] <= ticket[d]

Join(c) ==
    /\ ticket[c] = 0
    /\ c \notin inside
    /\ last' = last + 1
    /\ ticket' = [ticket EXCEPT ![c] = last + 1]
    /\ UNCHANGED inside

Enter(c) ==
    /\ Lowest(c)
    /\ inside' = inside \cup {c}
    /\ UNCHANGED <<last, ticket>>

Leave(c) ==
    /\ c \in inside
    /\ inside' = inside \ {c}
    /\ ticket' = [ticket EXCEPT ![c] = 0]
    /\ UNCHANGED last

TNext == \E c \in Clients : Join(c) \/ Enter(c) \/ Leave(c)

TSpec == TInit /\ [][TNext]_tvars
=============================================================================
