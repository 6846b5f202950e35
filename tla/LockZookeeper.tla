--------------------------- MODULE LockZookeeper ---------------------------
(***************************************************************************)
(* The ZooKeeper lock of gtk-devops-lock (LockZookeeper) and its earlier   *)
(* copy in gtk-devops-study (ZkLock).  A client is one lock object, built, *)
(* locked and unlocked once by one caller thread.  The objects of a JVM    *)
(* share one ZooKeeper session and one event thread.  Every round trip to  *)
(* the server is split into the moment the server serves it and the moment *)
(* the client acts on the answer.                                          *)
(***************************************************************************)
EXTENDS Integers, FiniteSets

CONSTANTS
    Clients,          \* lock objects
    Procs,            \* JVMs: one static ZooKeeper handle each
    Host,             \* the JVM of each client
    CatchNodeExists,  \* TRUE: LockZookeeper.java, FALSE: ZkLock.java
    Faults            \* the faults a behaviour may contain

FaultKinds == {"interrupt", "connloss", "expire", "crash"}

ASSUME ClientsAssumption == IsFiniteSet(Clients)
ASSUME HostAssumption == Host \in [Clients -> Procs]
ASSUME CatchAssumption == CatchNodeExists \in BOOLEAN
ASSUME FaultsAssumption == Faults \subseteq FaultKinds

VARIABLES
    catalog,  \* the persistent parent node exists
    lastSeq,  \* the last sequence number the server gave out
    node,     \* the ephemeral node of each client, 0 when it has none
    session,  \* the session of each JVM is live
    call,     \* where the caller thread is
    name,     \* lockSeqName, 0 for null
    latch,    \* downLatch has been counted down
    cb,       \* where the chain of asynchronous callbacks is
    snap,     \* the children the last getChildren answered
    watch     \* the node a deletion watch is set on, 0 for none

server == <<catalog, lastSeq, node, session>>
vars == <<catalog, lastSeq, node, session, call, name, latch, cb, snap, watch>>

Callers == {"idle", "exists", "mkdir", "await", "inside", "unlock", "delete",
            "closed", "crashed"}
Chains == {"none", "create", "created", "list", "listed", "exists", "setdata",
           "watching", "event", "done", "stuck"}

Init ==
    /\ catalog = FALSE
    /\ lastSeq = 0
    /\ node = [c \in Clients |-> 0]
    /\ session = [p \in Procs |-> TRUE]
    /\ call = [c \in Clients |-> "idle"]
    /\ name = [c \in Clients |-> 0]
    /\ latch = [c \in Clients |-> FALSE]
    /\ cb = [c \in Clients |-> "none"]
    /\ snap = [c \in Clients |-> {}]
    /\ watch = [c \in Clients |-> 0]

Children == {node[c] : c \in Clients} \ {0}
Connected(c) == session[Host[c]]
Crashed(p) == \A c \in Clients : Host[c] = p => call[c] = "crashed"

\* The event thread of the JVM of c is not inside a synchronous request of
\* another callback.
EventThreadFree(c) ==
    \A d \in Clients : Host[d] = Host[c] => cb[d] \notin {"exists", "setdata"}

\* A request of c may be answered with an exception or a null result.
RequestMayFail(c) == ~Connected(c) \/ "connloss" \in Faults

-----------------------------------------------------------------------------
(* tryLock, in the caller thread                                           *)

TryLock(c) ==
    /\ call[c] = "idle"
    /\ call' = [call EXCEPT ![c] = "exists"]
    /\ UNCHANGED <<server, name, latch, cb, snap, watch>>

\* (Operators named Bad... are faulty forms of the one after them; no
\* specification uses them.  They are there to see the properties fail.)
BadSendCreate(c) == cb' = [cb EXCEPT ![c] = "create"] /\ UNCHANGED call

\* The asynchronous create is queued and the caller awaits the latch.
SendCreate(c) ==
    /\ call' = [call EXCEPT ![c] = "await"]
    /\ cb' = [cb EXCEPT ![c] = "create"]

CatalogExists(c) ==
    /\ call[c] = "exists"
    /\ Connected(c)
    /\ \/ catalog /\ SendCreate(c)
       \/ ~catalog /\ call' = [call EXCEPT ![c] = "mkdir"] /\ UNCHANGED cb
    /\ UNCHANGED <<server, name, latch, snap, watch>>

\* NodeExists is caught by LockZookeeper; in ZkLock it reaches the catch of
\* tryLock, which logs it and returns as if the lock were held.
CreateCatalog(c) ==
    /\ call[c] = "mkdir"
    /\ Connected(c)
    /\ catalog' = TRUE
    /\ \/ (~catalog \/ CatchNodeExists) /\ SendCreate(c)
       \/ /\ catalog /\ ~CatchNodeExists
          /\ call' = [call EXCEPT ![c] = "inside"]
          /\ UNCHANGED cb
    /\ UNCHANGED <<lastSeq, node, session, name, latch, snap, watch>>

AwaitReturns(c) ==
    /\ call[c] = "await"
    /\ latch[c]
    /\ call' = [call EXCEPT ![c] = "inside"]
    /\ UNCHANGED <<server, name, latch, cb, snap, watch>>

\* Any exception of tryLock is logged and tryLock returns normally.
TryLockFails(c) ==
    /\ \/ call[c] \in {"exists", "mkdir"} /\ RequestMayFail(c)
       \/ call[c] \in {"exists", "mkdir", "await"} /\ "interrupt" \in Faults
    /\ call' = [call EXCEPT ![c] = "inside"]
    /\ UNCHANGED <<server, name, latch, cb, snap, watch>>

-----------------------------------------------------------------------------
(* The asynchronous chain                                                  *)

ServeCreate(c) ==
    /\ cb[c] = "create"
    /\ Connected(c)
    /\ lastSeq' = lastSeq + 1
    /\ node' = [node EXCEPT ![c] = lastSeq + 1]
    /\ cb' = [cb EXCEPT ![c] = "created"]
    /\ UNCHANGED <<catalog, session, call, name, latch, snap, watch>>

CreateCallback(c) ==
    /\ cb[c] = "created"
    /\ EventThreadFree(c)
    /\ name' = [name EXCEPT ![c] = node[c]]
    /\ cb' = [cb EXCEPT ![c] = "list"]
    /\ UNCHANGED <<server, call, latch, snap, watch>>

ServeGetChildren(c) ==
    /\ cb[c] = "list"
    /\ Connected(c)
    /\ snap' = [snap EXCEPT ![c] = Children]
    /\ cb' = [cb EXCEPT ![c] = "listed"]
    /\ UNCHANGED <<server, call, name, latch, watch>>

BadBelow(c) == {s \in snap[c] : s > name[c]}
Below(c) == {s \in snap[c] : s < name[c]}

BadFirstOrAbsent(c) == Cardinality(Below(c)) <= 1

\* index < 1: the own node is the first child or is not a child at all.
FirstOrAbsent(c) == name[c] \notin snap[c] \/ Below(c) = {}

\* list.get(index - 1) is s.
Predecessor(c, s) == s \in Below(c) /\ \A t \in Below(c) : t <= s

BadPresent(s) == TRUE

Present(s) == s \in Children

\* The list of children is local to the callback.
EndCallback(c, next) ==
    /\ cb' = [cb EXCEPT ![c] = next]
    /\ snap' = [snap EXCEPT ![c] = {}]

ChildrenCallback(c) ==
    /\ cb[c] = "listed"
    /\ EventThreadFree(c)
    /\ \/ snap[c] = {} /\ EndCallback(c, "stuck")
       \/ snap[c] # {} /\ FirstOrAbsent(c) /\ EndCallback(c, "setdata")
       \/ /\ snap[c] # {} /\ ~FirstOrAbsent(c)
          /\ cb' = [cb EXCEPT ![c] = "exists"]
          /\ UNCHANGED snap
    /\ UNCHANGED <<server, call, name, latch, watch>>

\* exists(predecessor, this): it sets the deletion watch, or finds the node
\* gone, and then the lock is taken without listing the children again.
ServeExists(c) ==
    /\ cb[c] = "exists"
    /\ Connected(c)
    /\ \E s \in snap[c] :
         /\ Predecessor(c, s)
         /\ \/ /\ Present(s)
               /\ watch' = [watch EXCEPT ![c] = s]
               /\ EndCallback(c, "watching")
            \/ /\ ~Present(s)
               /\ EndCallback(c, "setdata")
               /\ UNCHANGED watch
    /\ UNCHANGED <<server, call, name, latch>>

SetData(c) ==
    /\ cb[c] = "setdata"
    /\ Connected(c)
    /\ latch' = [latch EXCEPT ![c] = TRUE]
    /\ cb' = [cb EXCEPT ![c] = "done"]
    /\ UNCHANGED <<server, call, name, snap, watch>>

\* process(NodeDeleted) lists the children again.
WatchCallback(c) ==
    /\ cb[c] = "event"
    /\ EventThreadFree(c)
    /\ cb' = [cb EXCEPT ![c] = "list"]
    /\ UNCHANGED <<server, call, name, latch, snap, watch>>

\* A null name or list makes a callback return, an exception is printed:
\* either way nothing continues the chain.
ChainFails(c) ==
    /\ cb[c] \in {"create", "created", "list", "listed", "exists", "setdata"}
    /\ RequestMayFail(c)
    /\ EndCallback(c, "stuck")
    /\ UNCHANGED <<server, call, name, latch, watch>>

-----------------------------------------------------------------------------
(* Deletions fire the watches set on the deleted nodes                     *)

Fires(c, D) == watch[c] # 0 /\ \E d \in D : node[d] = watch[c]

DeleteNodes(D) ==
    /\ node' = [c \in Clients |-> IF c \in D THEN 0 ELSE node[c]]
    /\ watch' = [c \in Clients |-> IF Fires(c, D) THEN 0 ELSE watch[c]]
    /\ cb' = [c \in Clients |-> IF Fires(c, D) THEN "event" ELSE cb[c]]

-----------------------------------------------------------------------------
(* unLock, in the caller thread                                            *)

\* After the latch the caller sees lockSeqName; after an exception the field
\* is read without synchronisation and may still look null.
MayLookNull(c) == name[c] = 0 \/ ~latch[c]

UnLock(c) ==
    /\ call[c] = "inside"
    /\ \/ name[c] # 0 /\ call' = [call EXCEPT ![c] = IF CatchNodeExists THEN "unlock"
                                                     ELSE "delete"]
       \/ MayLookNull(c) /\ call' = [call EXCEPT ![c] = "closed"]
    /\ UNCHANGED <<server, name, latch, cb, snap, watch>>

BadUnLockExists(c) ==
    /\ call[c] = "unlock"
    /\ Connected(c)
    /\ call' = [call EXCEPT ![c] = IF node[c] = 0 THEN "delete" ELSE "closed"]
    /\ UNCHANGED <<server, name, latch, cb, snap, watch>>

UnLockExists(c) ==
    /\ call[c] = "unlock"
    /\ Connected(c)
    /\ call' = [call EXCEPT ![c] = IF node[c] # 0 THEN "delete" ELSE "closed"]
    /\ UNCHANGED <<server, name, latch, cb, snap, watch>>

Delete(c) ==
    /\ call[c] = "delete"
    /\ Connected(c)
    /\ DeleteNodes({c})
    /\ call' = [call EXCEPT ![c] = "closed"]
    /\ UNCHANGED <<catalog, lastSeq, session, name, latch, snap>>

\* unLock logs an exception and returns: the node stays until the session ends.
UnLockFails(c) ==
    /\ call[c] \in {"unlock", "delete"}
    /\ RequestMayFail(c) \/ "interrupt" \in Faults
    /\ call' = [call EXCEPT ![c] = "closed"]
    /\ UNCHANGED <<server, name, latch, cb, snap, watch>>

-----------------------------------------------------------------------------
(* Faults                                                                  *)

On(p) == {c \in Clients : Host[c] = p}

\* The server expires the session: because the JVM is gone, or because a
\* pause or a partition outlasted the session timeout of a living one.
Expire(p) ==
    /\ session[p]
    /\ "expire" \in Faults \/ (On(p) # {} /\ Crashed(p))
    /\ session' = [session EXCEPT ![p] = FALSE]
    /\ node' = [c \in Clients |-> IF c \in On(p) THEN 0 ELSE node[c]]
    /\ watch' = [c \in Clients |->
                    IF c \in On(p) \/ Fires(c, On(p)) THEN 0 ELSE watch[c]]
    /\ cb' = [c \in Clients |->
                 IF c \in On(p) /\ cb[c] \notin {"none", "done"} THEN "stuck"
                 ELSE IF Fires(c, On(p)) THEN "event" ELSE cb[c]]
    /\ snap' = [c \in Clients |-> IF c \in On(p) THEN {} ELSE snap[c]]
    /\ UNCHANGED <<catalog, lastSeq, call, name, latch>>

\* The memory of the JVM is gone; its session and its nodes are not yet.
Crash(p) ==
    /\ "crash" \in Faults
    /\ \E c \in On(p) : call[c] # "crashed"
    /\ call' = [c \in Clients |-> IF c \in On(p) THEN "crashed" ELSE call[c]]
    /\ cb' = [c \in Clients |-> IF c \in On(p) THEN "stuck" ELSE cb[c]]
    /\ name' = [c \in Clients |-> IF c \in On(p) THEN 0 ELSE name[c]]
    /\ latch' = [c \in Clients |-> IF c \in On(p) THEN FALSE ELSE latch[c]]
    /\ snap' = [c \in Clients |-> IF c \in On(p) THEN {} ELSE snap[c]]
    /\ watch' = [c \in Clients |-> IF c \in On(p) THEN 0 ELSE watch[c]]
    /\ UNCHANGED server

-----------------------------------------------------------------------------
Caller(c) == CatalogExists(c) \/ CreateCatalog(c) \/ AwaitReturns(c)

Chain(c) ==
    \/ ServeCreate(c) \/ CreateCallback(c) \/ ServeGetChildren(c)
    \/ ChildrenCallback(c) \/ ServeExists(c) \/ SetData(c) \/ WatchCallback(c)

Release(c) == UnLock(c) \/ UnLockExists(c) \/ Delete(c)

Fail(c) == TryLockFails(c) \/ ChainFails(c) \/ UnLockFails(c)

Next ==
    \/ \E c \in Clients : TryLock(c) \/ Caller(c) \/ Chain(c) \/ Release(c) \/ Fail(c)
    \/ \E p \in Procs : Expire(p) \/ Crash(p)

Spec == Init /\ [][Next]_vars

\* Requests are answered, callbacks are run, callers leave their critical
\* section, a failing call ends, and a crashed JVM loses its session.
\* Nothing obliges a fault to happen or a caller to ask for the lock.
Fairness ==
    /\ \A c \in Clients : /\ WF_vars(Caller(c))
                          /\ WF_vars(Chain(c))
                          /\ WF_vars(Release(c))
                          /\ WF_vars(~Connected(c) /\ Fail(c))
    /\ \A p \in Procs : WF_vars(Crashed(p) /\ Expire(p))

FairSpec == Spec /\ Fairness
=============================================================================
