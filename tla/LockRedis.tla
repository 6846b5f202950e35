------------------------------ MODULE LockRedis ------------------------------
(***************************************************************************)
(* The Redis lock of gtk-devops-lock: one key set with SET NX EX, a polling *)
(* tryLock and an unLock that deletes the key whoever set it.  Every caller *)
(* has a LockRedis object of its own.  The stored value is the constant     *)
(* "lock", so setter is what the specification knows, not what Redis knows. *)
(***************************************************************************)
EXTENDS Integers

CONSTANTS
    Clients,
    None,             \* no setter
    TTL,              \* ticks a key lives (50 seconds in the code)
    MaxHold,          \* ticks a caller stays between tryLock and unLock
    RefusedUnlocks,   \* a caller refused by tryAsyncLock still calls unLock
    Faults            \* a subset of {"crash", "lostreply"}

ASSUME RedisAssumption ==
    /\ None \notin Clients
    /\ TTL \in Nat \ {0}
    /\ MaxHold \in Nat
    /\ RefusedUnlocks \in BOOLEAN
    /\ Faults \subseteq {"crash", "lostreply"}

VARIABLES
    left,     \* ticks before the key expires, 0 when there is no key
    setter,   \* the client that set the key
    pc,       \* where each caller is
    held      \* ticks since each caller got the lock

vars == <<left, setter, pc, held>>

Init ==
    /\ left = 0
    /\ setter = None
    /\ pc = [c \in Clients |-> "idle"]
    /\ held = [c \in Clients |-> 0]

\* (Operators named Bad... are faulty forms of the one after them; no
\* specification uses them.  They are there to see the properties fail.)
BadKeyFree == TRUE

KeyFree == left = 0

SetKey(c) ==
    /\ KeyFree
    /\ left' = TTL
    /\ setter' = c

Go(c, next) == pc' = [pc EXCEPT ![c] = next]

-----------------------------------------------------------------------------
\* tryAsyncLock, called by itself: one attempt.
TryAsyncLock(c) ==
    /\ pc[c] = "idle"
    /\ \/ SetKey(c) /\ Go(c, "inside")
       \/ ~KeyFree /\ Go(c, "refused") /\ UNCHANGED <<left, setter>>
    /\ UNCHANGED held

TryLock(c) ==
    /\ pc[c] = "idle"
    /\ Go(c, "trying")
    /\ UNCHANGED <<left, setter, held>>

BadNextTurn(got) == IF got THEN "sleeping" ELSE "inside"

NextTurn(got) == IF got THEN "inside" ELSE "sleeping"

\* One turn of the loop of tryLock: take the key, or sleep before the next.
Attempt(c) ==
    /\ pc[c] = "trying"
    /\ \/ SetKey(c) /\ Go(c, NextTurn(TRUE))
       \/ ~KeyFree /\ Go(c, NextTurn(FALSE)) /\ UNCHANGED <<left, setter>>
    /\ UNCHANGED held

\* The poll interval is over, or the sleep was interrupted: both try again.
WakeUp(c) ==
    /\ pc[c] = "sleeping"
    /\ Go(c, "trying")
    /\ UNCHANGED <<left, setter, held>>

BadUnLock(c) ==
    /\ pc[c] \in {"inside", "refused"}
    /\ left' = 0
    /\ setter' = None
    /\ Go(c, "done")
    /\ UNCHANGED held

\* delete(lockName): lockName was set by the attempt, also by a refused one.
UnLock(c) ==
    /\ pc[c] = "inside" \/ (pc[c] = "refused" /\ RefusedUnlocks)
    /\ left' = 0
    /\ setter' = None
    /\ Go(c, "done")
    /\ UNCHANGED held

\* The command or its reply is lost and the exception leaves tryLock or unLock,
\* with the command executed or not: the caller does not enter, or has left.
AttemptReplyLost(c) ==
    /\ "lostreply" \in Faults
    /\ pc[c] \in {"idle", "trying"}
    /\ SetKey(c) \/ UNCHANGED <<left, setter>>
    /\ Go(c, "failed")
    /\ UNCHANGED held

UnLockFails(c) ==
    /\ "lostreply" \in Faults
    /\ pc[c] = "inside"
    /\ \/ left' = 0 /\ setter' = None
       \/ UNCHANGED <<left, setter>>
    /\ Go(c, "failed")
    /\ UNCHANGED held

Crash(c) ==
    /\ "crash" \in Faults
    /\ pc[c] \in {"trying", "sleeping", "inside"}
    /\ Go(c, "crashed")
    /\ UNCHANGED <<left, setter, held>>

\* Time passes for the key and for the callers inside, none of which stays
\* longer than MaxHold.
Tick ==
    /\ \A c \in Clients : pc[c] = "inside" => held[c] < MaxHold
    /\ left > 0
    /\ left' = left - 1
    /\ setter' = IF left = 1 THEN None ELSE setter
    /\ held' = [c \in Clients |-> IF pc[c] = "inside" THEN held[c] + 1 ELSE held[c]]
    /\ UNCHANGED pc

Step(c) == Attempt(c) \/ WakeUp(c)

Next ==
    \/ Tick
    \/ \E c \in Clients :
         \/ TryAsyncLock(c) \/ TryLock(c) \/ Step(c) \/ UnLock(c)
         \/ AttemptReplyLost(c) \/ UnLockFails(c) \/ Crash(c)

Spec == Init /\ [][Next]_vars

\* The loop of tryLock runs on, time passes, and callers finish their work.
FairSpec ==
    /\ Spec
    /\ WF_vars(Tick)
    /\ \A c \in Clients : WF_vars(Step(c)) /\ WF_vars(pc[c] = "inside" /\ UnLock(c))

-----------------------------------------------------------------------------
\* The callers, the key and its setter are always consistent: a key that
\* exists was set by somebody, a key that does not has no setter.
TypeOK ==
    /\ left \in 0..TTL
    /\ setter \in Clients \cup {None}
    /\ pc \in [Clients -> {"idle", "trying", "sleeping", "inside", "refused", "done",
                           "failed", "crashed"}]
    /\ held \in [Clients -> 0..MaxHold]
    /\ left = 0 <=> setter = None

\* At most one caller is between tryLock and unLock.
MutualExclusion == \A c, d \in Clients : pc[c] = "inside" /\ pc[d] = "inside" => c = d

\* A caller inside still has a key of its own in Redis, with at least the part
\* of the TTL left that it has not used: no other caller can delete it.
HolderHasKey ==
    \A c \in Clients : pc[c] = "inside" => setter = c /\ left + held[c] >= TTL

\* What quick callers see is LeaseLock: the key disappears under none of them, neither
\* by the clock nor by a delete, and is theirs to delete when they leave.
Inside == {c \in Clients : pc[c] = "inside"}
Lease == INSTANCE LeaseLock WITH owner <- setter, inside <- Inside

ImplementsLeaseLock == Lease!LSpec

\* Every caller polling for the lock stops polling, also after the holder has
\* crashed or its unLock was lost: the key expires.
PollingEnds == \A c \in Clients : pc[c] = "trying" ~> pc[c] \notin {"trying", "sleeping"}
=============================================================================
