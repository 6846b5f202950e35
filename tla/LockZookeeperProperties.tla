---------------------- MODULE LockZookeeperProperties ----------------------
(* What LockZookeeper promises, and the abstract lock it implements.       *)
EXTENDS LockZookeeper

Types ==
    /\ catalog \in BOOLEAN
    /\ lastSeq \in Nat
    /\ node \in [Clients -> 0..lastSeq]
    /\ session \in [Procs -> BOOLEAN]
    /\ call \in [Clients -> Callers]
    /\ name \in [Clients -> 0..lastSeq]
    /\ latch \in [Clients -> BOOLEAN]
    /\ cb \in [Clients -> Chains]
    /\ snap \in [Clients -> SUBSET (1..lastSeq)]
    /\ watch \in [Clients -> 0..lastSeq]

ProgramOrder(c) ==
    /\ call[c] \in {"idle", "exists", "mkdir"} => cb[c] = "none"
    /\ latch[c] => cb[c] \in {"done", "stuck"}
    /\ watch[c] # 0 <=> cb[c] = "watching"

\* Typing, and the program order of one object: no callback runs before the
\* caller has sent its create, only a finished chain opens the latch, and a chain
\* that waits for a deletion does have a watch.
TypeOK == Types /\ \A c \in Clients : ProgramOrder(c)

Inside == {c \in Clients : call[c] = "inside"}

\* At most one caller is between tryLock and unLock: what the sum of
\* LockApplicationTests counts on.
MutualExclusion == \A c, d \in Inside : c = d

\* The same of the callers whose latch was opened, which is all that is left
\* of it in ZkLock, where losing the race to create the catalog lets a caller
\* through unlocked.
LatchHoldersExclude == \A c, d \in Inside : latch[c] /\ latch[d] => c = d

\* Whoever is in its critical section owns the first node of the queue:
\* point 2.3.2 of the class comment of LockZookeeper.
OnlyFirstNodeHolds ==
    \A c \in Inside : node[c] # 0 /\ \A s \in Children : node[c] <= s

\* A deletion watch is always set on an existing node, and on one queued
\* before the watcher's own: exists() in the children callback cannot miss a
\* deletion, and no two clients ever wait for each other.
NoLostWakeup ==
    \A c \in Clients :
        watch[c] # 0 => watch[c] \in Children /\ watch[c] < name[c]

\* Why NoLostWakeup is inductive: a node, once created, is never overwritten.
NotYetCreated == \A c \in Clients : cb[c] \in {"none", "create"} => node[c] = 0

\* unLock, when nothing fails it, leaves no node behind.
ClosedLeavesNoNode == \A c \in Clients : call[c] = "closed" => node[c] = 0

\* Every caller that waits in tryLock gets out of it, unless its own JVM dies.
AwaitEnds ==
    \A c \in Clients :
        (call[c] = "await" /\ Connected(c)) ~> (call[c] # "await" \/ ~Connected(c))

-----------------------------------------------------------------------------
(* Why exclusion holds without faults: the inductive invariant             *)

FirstInQueue(c) == node[c] # 0 /\ \A s \in Children : node[c] <= s

\* How far the callbacks have come says what the object and the server know.
Progress(c) ==
    /\ call[c] # "crashed" /\ cb[c] # "stuck"
    /\ cb[c] \in {"none", "create"} => node[c] = 0 /\ name[c] = 0
    /\ cb[c] = "none" => call[c] \in {"idle", "exists", "mkdir", "inside", "closed"}
    /\ cb[c] \notin {"none", "done"} => call[c] = "await"
    /\ cb[c] = "created" => node[c] # 0 /\ name[c] = 0
    /\ cb[c] \in {"list", "listed", "exists", "setdata", "watching", "event"}
          => name[c] = node[c] /\ name[c] # 0
    /\ cb[c] = "done" => /\ latch[c]
                         /\ name[c] # 0
                         /\ call[c] \in {"await", "inside", "unlock", "delete", "closed"}
                         /\ call[c] = "closed" => node[c] = 0
                         /\ call[c] # "closed" => node[c] = name[c]
    /\ latch[c] => cb[c] = "done"
    /\ CatchNodeExists /\ cb[c] = "none" => call[c] \in {"idle", "exists", "mkdir"}

\* A list once read still contains every node queued before its reader.
ListCurrent(c) ==
    cb[c] \in {"listed", "exists"} =>
        name[c] \in snap[c] /\ \A s \in Children : s <= name[c] => s \in snap[c]

\* Whoever may open its latch, or has, is first until it is deleted.
GrantedIsFirst(c) ==
    cb[c] = "setdata" \/ (latch[c] /\ call[c] # "closed") => FirstInQueue(c)

\* Nodes go in the order they came: no gap between a live node and the newest.
NoGaps == \A c \in Clients : node[c] # 0 => \A s \in node[c]..lastSeq : s \in Children

NodesDiffer == \A c, d \in Clients : node[c] # 0 /\ node[c] = node[d] => c = d

\* The inductive invariant of the lock when nothing fails: lists read are
\* still good, nodes leave in order, and whoever is granted the lock is first.
HealthyInv ==
    /\ \A p \in Procs : session[p]
    /\ NodesDiffer
    /\ NoGaps
    /\ \A c \in Clients : Progress(c) /\ ListCurrent(c) /\ GrantedIsFirst(c)

-----------------------------------------------------------------------------
(* Why AwaitEnds needs nothing but progress                                *)

\* A request of d can be served, a callback of d can be run on its event thread,
\* or the caller of d can go on.
GoesOn(d) ==
    \/ cb[d] \in {"create", "list", "exists", "setdata"} /\ Connected(d)
    \/ cb[d] \in {"created", "listed", "event"} /\ EventThreadFree(d)
    \/ call[d] = "await" /\ latch[d]
    \/ call[d] \in {"inside", "unlock", "delete"} /\ Connected(d)

\* When nothing fails, callers that await the latch are never all waiting for a
\* deletion or for an event thread that another callback keeps: of the objects in
\* the queue and its JVMs one can go on.
QueueGoesOn == (\E c \in Clients : call[c] = "await") => \E d \in Clients : GoesOn(d)

-----------------------------------------------------------------------------
\* A client holds its ticket from the creation of its node to its unLock.
Ticket == [c \in Clients |->
              IF call[c] \in {"unlock", "delete", "closed"} THEN 0 ELSE node[c]]

Abstract == INSTANCE TicketLock WITH last <- lastSeq, ticket <- Ticket, inside <- Inside

\* Without faults the lock behaves as a fair ticket lock: callers enter one at
\* a time, in the order in which the server created their nodes.
ImplementsTicketLock == Abstract!TSpec
=============================================================================
