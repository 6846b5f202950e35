------------------------ MODULE LockZookeeperProofs ------------------------
(* Proofs about LockZookeeper for every set of clients and JVMs.           *)
EXTENDS LockZookeeperProperties, WellFoundedInduction, TLAPS

\* The step is one of the disjuncts of Next, named for the case splits below.
LEMMA NextCases ==
    ASSUME Next
    PROVE \/ \E c \in Clients :
               \/ TryLock(c) \/ CatalogExists(c) \/ CreateCatalog(c) \/ AwaitReturns(c)
               \/ ServeCreate(c) \/ CreateCallback(c) \/ ServeGetChildren(c)
               \/ ChildrenCallback(c) \/ ServeExists(c) \/ SetData(c) \/ WatchCallback(c)
               \/ UnLock(c) \/ UnLockExists(c) \/ Delete(c)
               \/ TryLockFails(c) \/ ChainFails(c) \/ UnLockFails(c)
          \/ \E p \in Procs : Expire(p) \/ Crash(p)
  BY DEF Next, Caller, Chain, Release, Fail

LEMMA ChildrenAreSequences ==
    ASSUME Types
    PROVE Children \subseteq 1..lastSeq
  BY DEF Types, Children

-----------------------------------------------------------------------------
(* The types and the program order of every object, whatever fails         *)

LEMMA InitTypeOK == Init => TypeOK
<1> SUFFICES ASSUME Init PROVE TypeOK
  OBVIOUS
<1>1. catalog \in BOOLEAN /\ session \in [Procs -> BOOLEAN] /\ latch \in [Clients -> BOOLEAN]
  BY DEF Init
<1>2. /\ lastSeq \in Nat
      /\ node \in [Clients -> 0..lastSeq]
      /\ name \in [Clients -> 0..lastSeq]
      /\ watch \in [Clients -> 0..lastSeq]
      /\ snap \in [Clients -> SUBSET (1..lastSeq)]
  BY DEF Init
<1>3. call \in [Clients -> Callers] /\ cb \in [Clients -> Chains]
  BY DEF Init, Callers, Chains
<1>4. \A c \in Clients : cb[c] = "none" /\ ~latch[c] /\ watch[c] = 0
  BY DEF Init
<1> QED
  BY <1>1, <1>2, <1>3, <1>4 DEF TypeOK, Types, ProgramOrder

LEMMA NextTypes == Types /\ [Next]_vars => Types'
<1> SUFFICES ASSUME Types, [Next]_vars PROVE Types'
  OBVIOUS
<1> USE HostAssumption, CatchAssumption DEF Types, Callers, Chains, server
<1>1. CASE UNCHANGED vars
  BY <1>1 DEF vars
<1>2. ASSUME NEW c \in Clients, TryLock(c) \/ CatalogExists(c) \/ AwaitReturns(c)
      PROVE Types'
  BY <1>2 DEF TryLock, CatalogExists, AwaitReturns, SendCreate
<1>3. ASSUME NEW c \in Clients, CreateCatalog(c) PROVE Types'
  BY <1>3 DEF CreateCatalog, SendCreate
<1>4. ASSUME NEW c \in Clients, ServeCreate(c) \/ CreateCallback(c) PROVE Types'
  BY <1>4 DEF ServeCreate, CreateCallback
<1>5. ASSUME NEW c \in Clients, ServeGetChildren(c) PROVE Types'
  BY <1>5, ChildrenAreSequences DEF ServeGetChildren
<1>6. ASSUME NEW c \in Clients, ChildrenCallback(c) PROVE Types'
  BY <1>6 DEF ChildrenCallback, EndCallback
<1>7. ASSUME NEW c \in Clients, ServeExists(c) PROVE Types'
  BY <1>7 DEF ServeExists, EndCallback
<1>8. ASSUME NEW c \in Clients, SetData(c) \/ WatchCallback(c) PROVE Types'
  BY <1>8 DEF SetData, WatchCallback
<1>9. ASSUME NEW c \in Clients, UnLock(c) \/ UnLockExists(c) \/ UnLockFails(c)
      PROVE Types'
  BY <1>9 DEF UnLock, UnLockExists, UnLockFails
<1>10. ASSUME NEW c \in Clients, Delete(c) PROVE Types'
  <2>1. /\ node' \in [Clients -> 0..lastSeq']
        /\ watch' \in [Clients -> 0..lastSeq']
    BY <1>10 DEF Delete, DeleteNodes
  <2>2. cb' \in [Clients -> Chains]
    BY <1>10 DEF Delete, DeleteNodes
  <2> QED
    BY <1>10, <2>1, <2>2 DEF Delete
<1>11. ASSUME NEW c \in Clients, TryLockFails(c) \/ ChainFails(c) PROVE Types'
  BY <1>11 DEF TryLockFails, ChainFails, EndCallback
<1>12. ASSUME NEW p \in Procs, Expire(p) PROVE Types'
  <2>1. /\ node' \in [Clients -> 0..lastSeq']
        /\ watch' \in [Clients -> 0..lastSeq']
        /\ snap' \in [Clients -> SUBSET (1..lastSeq')]
    BY <1>12 DEF Expire
  <2>2. cb' \in [Clients -> Chains]
    BY <1>12 DEF Expire
  <2> QED
    BY <1>12, <2>1, <2>2 DEF Expire
<1>13. ASSUME NEW p \in Procs, Crash(p) PROVE Types'
  <2>1. /\ name' \in [Clients -> 0..lastSeq']
        /\ watch' \in [Clients -> 0..lastSeq']
        /\ snap' \in [Clients -> SUBSET (1..lastSeq')]
    BY <1>13 DEF Crash
  <2>2. call' \in [Clients -> Callers] /\ cb' \in [Clients -> Chains]
    BY <1>13 DEF Crash
  <2>3. latch' \in [Clients -> BOOLEAN]
    BY <1>13 DEF Crash
  <2> QED
    BY <1>13, <2>1, <2>2, <2>3 DEF Crash
<1> QED
  BY <1>1, <1>2, <1>3, <1>4, <1>5, <1>6, <1>7, <1>8, <1>9, <1>10, <1>11, <1>12,
     <1>13, NextCases

LEMMA NextProgramOrder ==
    ASSUME TypeOK, [Next]_vars, NEW o \in Clients
    PROVE ProgramOrder(o)'
<1> USE DEF TypeOK, Types, ProgramOrder
<1>1. CASE UNCHANGED vars
  BY <1>1 DEF vars
<1>2. ASSUME NEW c \in Clients,
             \/ TryLock(c) \/ CatalogExists(c) \/ CreateCatalog(c) \/ AwaitReturns(c)
             \/ TryLockFails(c) \/ UnLock(c) \/ UnLockExists(c) \/ UnLockFails(c)
      PROVE ProgramOrder(o)'
  BY <1>2 DEF TryLock, CatalogExists, CreateCatalog, AwaitReturns, SendCreate,
              TryLockFails, UnLock, UnLockExists, UnLockFails
<1>3. ASSUME NEW c \in Clients,
             \/ ServeCreate(c) \/ CreateCallback(c) \/ ServeGetChildren(c)
             \/ ChildrenCallback(c) \/ ServeExists(c) \/ SetData(c) \/ WatchCallback(c)
             \/ ChainFails(c)
      PROVE ProgramOrder(o)'
  BY <1>3 DEF ServeCreate, CreateCallback, ServeGetChildren, ChildrenCallback,
              ServeExists, SetData, WatchCallback, ChainFails, EndCallback
<1>4. ASSUME NEW c \in Clients, Delete(c) PROVE ProgramOrder(o)'
  <2>1. CASE Fires(o, {c})
    <3>1. cb[o] = "watching" /\ cb'[o] = "event" /\ watch'[o] = 0
      BY <1>4, <2>1 DEF Delete, DeleteNodes, Fires
    <3>2. ~latch[o] /\ latch' = latch
      BY <1>4, <3>1 DEF Delete
    <3>3. call'[o] \notin {"idle", "exists", "mkdir"}
      BY <1>4, <3>1 DEF Delete
    <3> QED
      BY <3>1, <3>2, <3>3
  <2>2. CASE ~Fires(o, {c})
    BY <1>4, <2>2 DEF Delete, DeleteNodes
  <2> QED
    BY <2>1, <2>2
<1>5. ASSUME NEW p \in Procs, Expire(p) PROVE ProgramOrder(o)'
  <2>1. call'[o] = call[o] /\ latch' = latch
    BY <1>5 DEF Expire
  <2>2. CASE o \in On(p)
    <3>1. watch'[o] = 0 /\ cb'[o] = IF cb[o] \in {"none", "done"} THEN cb[o] ELSE "stuck"
      BY <1>5, <2>2 DEF Expire, Fires
    <3> QED
      BY <2>1, <3>1
  <2>3. CASE o \notin On(p) /\ Fires(o, On(p))
    <3>1. cb[o] = "watching" /\ cb'[o] = "event" /\ watch'[o] = 0
      BY <1>5, <2>3 DEF Expire, Fires
    <3> QED
      BY <2>1, <3>1
  <2>4. CASE o \notin On(p) /\ ~Fires(o, On(p))
    BY <1>5, <2>1, <2>4 DEF Expire
  <2> QED
    BY <2>2, <2>3, <2>4
<1>6. ASSUME NEW p \in Procs, Crash(p) PROVE ProgramOrder(o)'
  <2>1. CASE o \in On(p)
    <3>1. call'[o] = "crashed" /\ cb'[o] = "stuck" /\ watch'[o] = 0
      BY <1>6, <2>1 DEF Crash
    <3> QED
      BY <3>1
  <2>2. CASE o \notin On(p)
    <3>1. /\ call'[o] = call[o] /\ cb'[o] = cb[o] /\ watch'[o] = watch[o]
          /\ latch'[o] = latch[o]
      BY <1>6, <2>2 DEF Crash
    <3> QED
      BY <3>1
  <2> QED
    BY <2>1, <2>2
<1> QED
  BY <1>1, <1>2, <1>3, <1>4, <1>5, <1>6, NextCases

\* TypeOK is an invariant under every choice of faults.
THEOREM TypeCorrect == Spec => []TypeOK
<1>1. TypeOK /\ [Next]_vars => TypeOK'
  BY NextTypes, NextProgramOrder DEF TypeOK
<1> QED
  BY <1>1, InitTypeOK, PTL DEF Spec

-----------------------------------------------------------------------------
(* A watch is never left on a node that is gone, whatever fails            *)

LEMMA NextNotYetCreated ==
    ASSUME TypeOK, NotYetCreated, [Next]_vars
    PROVE NotYetCreated'
<1> SUFFICES ASSUME NEW o \in Clients, cb'[o] \in {"none", "create"} PROVE node'[o] = 0
  BY DEF NotYetCreated
<1> USE DEF TypeOK, Types, ProgramOrder, NotYetCreated, server
<1>1. CASE UNCHANGED vars
  BY <1>1 DEF vars
<1>2. ASSUME NEW c \in Clients,
             \/ TryLock(c) \/ CatalogExists(c) \/ CreateCatalog(c) \/ AwaitReturns(c)
             \/ TryLockFails(c) \/ UnLock(c) \/ UnLockExists(c) \/ UnLockFails(c)
      PROVE node'[o] = 0
  BY <1>2 DEF TryLock, CatalogExists, CreateCatalog, AwaitReturns, SendCreate,
              TryLockFails, UnLock, UnLockExists, UnLockFails
<1>3. ASSUME NEW c \in Clients,
             \/ ServeCreate(c) \/ CreateCallback(c) \/ ServeGetChildren(c)
             \/ ChildrenCallback(c) \/ ServeExists(c) \/ SetData(c) \/ WatchCallback(c)
             \/ ChainFails(c)
      PROVE node'[o] = 0
  BY <1>3 DEF ServeCreate, CreateCallback, ServeGetChildren, ChildrenCallback,
              ServeExists, SetData, WatchCallback, ChainFails, EndCallback
<1>4. ASSUME NEW c \in Clients, Delete(c) PROVE node'[o] = 0
  BY <1>4 DEF Delete, DeleteNodes
<1>5. ASSUME NEW p \in Procs, Expire(p) PROVE node'[o] = 0
  BY <1>5 DEF Expire
<1>6. ASSUME NEW p \in Procs, Crash(p) PROVE node'[o] = 0
  BY <1>6 DEF Crash
<1> QED
  BY <1>1, <1>2, <1>3, <1>4, <1>5, <1>6, NextCases

LEMMA NextNoLostWakeup ==
    ASSUME TypeOK, NotYetCreated, NoLostWakeup, [Next]_vars
    PROVE NoLostWakeup'
<1> SUFFICES ASSUME NEW o \in Clients, watch'[o] # 0
             PROVE watch'[o] \in Children' /\ watch'[o] < name'[o]
  BY DEF NoLostWakeup
<1> USE DEF TypeOK, Types, ProgramOrder
\* The steps that set no watch, delete no node and name no other object.
<1>1. ASSUME UNCHANGED <<node, name, watch>>
      PROVE watch'[o] \in Children' /\ watch'[o] < name'[o]
  BY <1>1 DEF NoLostWakeup, Children
<1>2. ASSUME NEW c \in Clients, ServeCreate(c)
      PROVE watch'[o] \in Children' /\ watch'[o] < name'[o]
  <2>1. watch'[o] = watch[o] /\ name'[o] = name[o]
    BY <1>2 DEF ServeCreate
  <2>2. PICK d \in Clients : node[d] = watch[o]
    BY <2>1 DEF NoLostWakeup, Children
  <2>3. node'[d] = node[d]
    BY <1>2, <2>1, <2>2 DEF ServeCreate, NotYetCreated
  <2> QED
    BY <2>1, <2>2, <2>3 DEF NoLostWakeup, Children
<1>3. ASSUME NEW c \in Clients, CreateCallback(c)
      PROVE watch'[o] \in Children' /\ watch'[o] < name'[o]
  <2>1. o # c /\ UNCHANGED <<node, watch>>
    BY <1>3 DEF CreateCallback, server
  <2> QED
    BY <1>3, <2>1 DEF CreateCallback, NoLostWakeup, Children
<1>4. ASSUME NEW c \in Clients, ServeExists(c)
      PROVE watch'[o] \in Children' /\ watch'[o] < name'[o]
  <2>1. UNCHANGED <<node, name>>
    BY <1>4 DEF ServeExists, server
  <2>2. CASE watch'[o] = watch[o]
    BY <2>1, <2>2 DEF NoLostWakeup, Children
  <2>3. CASE watch'[o] # watch[o]
    <3>1. PICK s \in snap[c] : Predecessor(c, s) /\ Present(s) /\ o = c /\ watch'[o] = s
      BY <1>4, <2>3 DEF ServeExists
    <3> QED
      BY <2>1, <3>1 DEF Predecessor, Present, Below, Children
  <2> QED
    BY <2>2, <2>3
<1>5. ASSUME NEW D \in SUBSET Clients,
             node' = [c \in Clients |-> IF c \in D THEN 0 ELSE node[c]],
             ~Fires(o, D), watch'[o] = watch[o], name' = name
      PROVE watch'[o] \in Children' /\ watch'[o] < name'[o]
  <2>1. PICK d \in Clients : node[d] = watch[o]
    BY <1>5 DEF NoLostWakeup, Children
  <2>2. node'[d] = node[d]
    BY <1>5, <2>1 DEF Fires
  <2> QED
    BY <1>5, <2>1, <2>2 DEF NoLostWakeup, Children
<1>6. ASSUME NEW c \in Clients, Delete(c)
      PROVE watch'[o] \in Children' /\ watch'[o] < name'[o]
  <2>1. ~Fires(o, {c}) /\ watch'[o] = watch[o]
    BY <1>6 DEF Delete, DeleteNodes
  <2> QED
    BY <1>5, <1>6, <2>1 DEF Delete, DeleteNodes
<1>7. ASSUME NEW p \in Procs, Expire(p)
      PROVE watch'[o] \in Children' /\ watch'[o] < name'[o]
  <2>1. ~Fires(o, On(p)) /\ watch'[o] = watch[o]
    BY <1>7 DEF Expire
  <2>2. On(p) \in SUBSET Clients
    BY DEF On
  <2> QED
    BY <1>5, <1>7, <2>1, <2>2 DEF Expire
<1>8. ASSUME NEW p \in Procs, Crash(p)
      PROVE watch'[o] \in Children' /\ watch'[o] < name'[o]
  BY <1>8 DEF Crash, server, NoLostWakeup, Children
<1>9. ASSUME NEW c \in Clients,
             \/ TryLock(c) \/ CatalogExists(c) \/ CreateCatalog(c) \/ AwaitReturns(c)
             \/ TryLockFails(c) \/ UnLock(c) \/ UnLockExists(c) \/ UnLockFails(c)
             \/ ServeGetChildren(c) \/ ChildrenCallback(c) \/ SetData(c)
             \/ WatchCallback(c) \/ ChainFails(c)
      PROVE UNCHANGED <<node, name, watch>>
  BY <1>9 DEF TryLock, CatalogExists, CreateCatalog, AwaitReturns, SendCreate,
              TryLockFails, UnLock, UnLockExists, UnLockFails, ServeGetChildren,
              ChildrenCallback, SetData, WatchCallback, ChainFails, server
<1>10. CASE UNCHANGED vars
  BY <1>1, <1>10 DEF vars
<1> QED
  BY <1>1, <1>2, <1>3, <1>4, <1>6, <1>7, <1>8, <1>9, <1>10, NextCases

\* Under every choice of faults a watch is on a live node queued earlier: no
\* wake-up is lost between the check of the predecessor and its deletion, and
\* the clients never wait in a circle.
THEOREM WakeupsNotLost == Spec => []NoLostWakeup
<1>1. Init => TypeOK /\ NotYetCreated /\ NoLostWakeup
  BY InitTypeOK DEF Init, NotYetCreated, NoLostWakeup
<1>2. TypeOK /\ NotYetCreated /\ NoLostWakeup /\ [Next]_vars
        => (TypeOK /\ NotYetCreated /\ NoLostWakeup)'
  BY NextTypes, NextProgramOrder, NextNotYetCreated, NextNoLostWakeup DEF TypeOK
<1> QED
  BY <1>1, <1>2, PTL DEF Spec

-----------------------------------------------------------------------------
(* Exclusion when nothing fails                                            *)

HealthyStep ==
    \E c \in Clients :
        \/ TryLock(c) \/ CatalogExists(c) \/ CreateCatalog(c) \/ AwaitReturns(c)
        \/ ServeCreate(c) \/ CreateCallback(c) \/ ServeGetChildren(c)
        \/ ChildrenCallback(c) \/ ServeExists(c) \/ SetData(c) \/ WatchCallback(c)
        \/ UnLock(c) \/ UnLockExists(c) \/ Delete(c)

LEMMA OnlyHealthySteps ==
    ASSUME Faults = {}, HealthyInv, Next
    PROVE HealthyStep
<1>1. \A c \in Clients : ~TryLockFails(c) /\ ~ChainFails(c) /\ ~UnLockFails(c)
  BY HostAssumption DEF HealthyInv, TryLockFails, ChainFails, UnLockFails,
                        RequestMayFail, Connected
<1>2. \A p \in Procs : ~Expire(p) /\ ~Crash(p)
  BY DEF HealthyInv, Progress, Expire, Crash, Crashed, On
<1> QED
  BY <1>1, <1>2, NextCases DEF HealthyStep

\* The client that deletes its node is the first in the queue.
LEMMA DeleterIsFirst ==
    ASSUME HealthyInv, NEW c \in Clients, call[c] = "delete"
    PROVE FirstInQueue(c) /\ cb[c] = "done" /\ node[c] # 0
  BY DEF HealthyInv, Progress, GrantedIsFirst, FirstInQueue

LEMMA NextProgress ==
    ASSUME TypeOK, HealthyInv, HealthyStep, NEW o \in Clients
    PROVE Progress(o)'
<1> USE DEF TypeOK, Types, ProgramOrder, server, Progress
<1>1. PICK c \in Clients :
        \/ TryLock(c) \/ CatalogExists(c) \/ CreateCatalog(c) \/ AwaitReturns(c)
        \/ ServeCreate(c) \/ CreateCallback(c) \/ ServeGetChildren(c)
        \/ ChildrenCallback(c) \/ ServeExists(c) \/ SetData(c) \/ WatchCallback(c)
        \/ UnLock(c) \/ UnLockExists(c) \/ Delete(c)
  BY DEF HealthyStep
<1>2. Progress(o) /\ ListCurrent(o) /\ Progress(c) /\ ListCurrent(c)
  BY DEF HealthyInv
<1>3. CASE TryLock(c)
  BY <1>2, <1>3 DEF TryLock
<1>4. CASE CatalogExists(c)
  BY <1>2, <1>4 DEF CatalogExists, SendCreate
<1>5. CASE CreateCatalog(c)
  BY <1>2, <1>5, CatchAssumption DEF CreateCatalog, SendCreate
<1>6. CASE AwaitReturns(c)
  BY <1>2, <1>6 DEF AwaitReturns
<1>7. CASE ServeCreate(c)
  BY <1>2, <1>7 DEF ServeCreate
<1>8. CASE CreateCallback(c)
  BY <1>2, <1>8 DEF CreateCallback
<1>9. CASE ServeGetChildren(c)
  BY <1>2, <1>9 DEF ServeGetChildren
<1>10. CASE ChildrenCallback(c)
  BY <1>2, <1>10 DEF ChildrenCallback, EndCallback, ListCurrent
<1>11. CASE ServeExists(c)
  BY <1>2, <1>11 DEF ServeExists, EndCallback
<1>12. CASE SetData(c)
  BY <1>2, <1>12 DEF SetData
<1>13. CASE WatchCallback(c)
  BY <1>2, <1>13 DEF WatchCallback
<1>14. CASE UnLock(c)
  BY <1>2, <1>14 DEF UnLock, MayLookNull
<1>15. CASE UnLockExists(c)
  BY <1>2, <1>15 DEF UnLockExists
<1>16. CASE Delete(c)
  <2>1. cb[c] = "done"
    BY <1>16, DeleterIsFirst DEF Delete
  <2>2. CASE o = c
    BY <1>2, <1>16, <2>1, <2>2 DEF Delete, DeleteNodes, Fires
  <2>3. CASE o # c /\ Fires(o, {c})
    <3>1. /\ cb[o] = "watching" /\ cb'[o] = "event"
          /\ node'[o] = node[o] /\ name'[o] = name[o] /\ call'[o] = call[o]
          /\ latch'[o] = latch[o]
      BY <1>16, <2>3 DEF Delete, DeleteNodes, Fires
    <3> QED
      BY <1>2, <3>1
  <2>4. CASE o # c /\ ~Fires(o, {c})
    <3>1. /\ cb'[o] = cb[o] /\ node'[o] = node[o] /\ name'[o] = name[o]
          /\ call'[o] = call[o] /\ latch'[o] = latch[o]
      BY <1>16, <2>4 DEF Delete, DeleteNodes
    <3> QED
      BY <1>2, <3>1
  <2> QED
    BY <2>2, <2>3, <2>4
<1> QED
  BY <1>1, <1>3, <1>4, <1>5, <1>6, <1>7, <1>8, <1>9, <1>10, <1>11, <1>12, <1>13,
     <1>14, <1>15, <1>16

LEMMA QueueSteps ==
    ASSUME HealthyStep
    PROVE \/ UNCHANGED <<node, lastSeq>>
          \/ \E c \in Clients : ServeCreate(c) \/ Delete(c)
  BY DEF HealthyStep, server, TryLock, CatalogExists, CreateCatalog, AwaitReturns,
         CreateCallback, ServeGetChildren, ChildrenCallback, ServeExists, SetData,
         WatchCallback, UnLock, UnLockExists

\* What a creation and a deletion do to the queue.
LEMMA CreateAppends ==
    ASSUME TypeOK, HealthyInv, NEW c \in Clients, ServeCreate(c)
    PROVE /\ node[c] = 0
          /\ node' = [node EXCEPT ![c] = lastSeq + 1]
          /\ lastSeq' = lastSeq + 1
          /\ Children' = Children \cup {lastSeq + 1}
<1>1. node[c] = 0
  BY DEF ServeCreate, HealthyInv, Progress
<1>2. \A d \in Clients : node'[d] = IF d = c THEN lastSeq + 1 ELSE node[d]
  BY DEF ServeCreate, TypeOK, Types
<1>3. Children' = Children \cup {lastSeq + 1}
  BY <1>1, <1>2 DEF Children, TypeOK, Types
<1> QED
  BY <1>1, <1>3 DEF ServeCreate

LEMMA DeleteRemovesFirst ==
    ASSUME TypeOK, HealthyInv, NEW c \in Clients, Delete(c)
    PROVE /\ FirstInQueue(c)
          /\ \A d \in Clients : node'[d] = IF d = c THEN 0 ELSE node[d]
          /\ lastSeq' = lastSeq
          /\ Children' = Children \ {node[c]}
<1>1. FirstInQueue(c)
  BY DeleterIsFirst DEF Delete
<1>2. \A d \in Clients : node'[d] = IF d = c THEN 0 ELSE node[d]
  BY DEF Delete, DeleteNodes
<1>3. Children' = Children \ {node[c]}
  BY <1>1, <1>2 DEF Children, FirstInQueue, HealthyInv, NodesDiffer
<1> QED
  BY <1>1, <1>2, <1>3 DEF Delete

LEMMA NextQueue ==
    ASSUME TypeOK, HealthyInv, HealthyStep
    PROVE NodesDiffer' /\ NoGaps'
<1> USE DEF TypeOK, Types
<1>1. CASE UNCHANGED <<node, lastSeq>>
  BY <1>1 DEF HealthyInv, NodesDiffer, NoGaps, Children
<1>2. ASSUME NEW c \in Clients, ServeCreate(c) PROVE NodesDiffer' /\ NoGaps'
  <2>1. NodesDiffer'
    BY <1>2, CreateAppends DEF HealthyInv, NodesDiffer
  <2>2. ASSUME NEW d \in Clients, node'[d] # 0, NEW s \in node'[d]..lastSeq'
        PROVE s \in Children'
    <3>1. CASE s = lastSeq + 1
      BY <1>2, <3>1, CreateAppends
    <3>2. CASE s # lastSeq + 1
      <4>1. d # c /\ node'[d] = node[d] /\ s \in node[d]..lastSeq
        BY <1>2, <2>2, <3>2, CreateAppends
      <4> QED
        BY <1>2, <2>2, <4>1, CreateAppends DEF HealthyInv, NoGaps
    <3> QED
      BY <3>1, <3>2
  <2> QED
    BY <2>1, <2>2 DEF NoGaps
<1>3. ASSUME NEW c \in Clients, Delete(c) PROVE NodesDiffer' /\ NoGaps'
  <2>1. NodesDiffer'
    BY <1>3, DeleteRemovesFirst DEF HealthyInv, NodesDiffer
  <2>2. ASSUME NEW d \in Clients, node'[d] # 0, NEW s \in node'[d]..lastSeq'
        PROVE s \in Children'
    <3>1. d # c /\ node'[d] = node[d] /\ lastSeq' = lastSeq
      BY <1>3, <2>2, DeleteRemovesFirst
    <3>2. s \in Children
      BY <2>2, <3>1 DEF HealthyInv, NoGaps
    <3>3. node[c] <= node[d] /\ node[c] # node[d]
      BY <1>3, <2>2, <3>1, DeleteRemovesFirst
      DEF FirstInQueue, HealthyInv, NodesDiffer, Children
    <3> QED
      BY <1>3, <2>2, <3>1, <3>2, <3>3, DeleteRemovesFirst
  <2> QED
    BY <2>1, <2>2 DEF NoGaps
<1> QED
  BY <1>1, <1>2, <1>3, QueueSteps

\* A client that the predecessor check lets through really is first: the
\* predecessor it read is gone, and nodes go in the order they came.
LEMMA GoneMeansFirst ==
    ASSUME TypeOK, HealthyInv, NEW c \in Clients, cb[c] = "exists",
           NEW s \in snap[c], Predecessor(c, s), ~Present(s)
    PROVE FirstInQueue(c)
<1> USE DEF TypeOK, Types
<1>1. node[c] = name[c] /\ node[c] # 0 /\ ListCurrent(c)
  BY DEF HealthyInv, Progress
<1> SUFFICES ASSUME NEW t \in Children, ~(node[c] <= t) PROVE FALSE
  BY <1>1 DEF FirstInQueue
<1>2. PICK d \in Clients : t = node[d] /\ node[d] # 0
  BY DEF Children
<1>3. t \in Below(c)
  BY <1>1, <1>2 DEF ListCurrent, Below
<1>4. s \in node[d]..lastSeq
  BY <1>2, <1>3 DEF Predecessor
<1> QED
  BY <1>2, <1>4 DEF HealthyInv, NoGaps, Present

\* A client that its list shows first really is first.
LEMMA ListedFirstIsFirst ==
    ASSUME TypeOK, HealthyInv, NEW c \in Clients, cb[c] = "listed", FirstOrAbsent(c)
    PROVE FirstInQueue(c)
<1> USE DEF TypeOK, Types
<1>1. node[c] = name[c] /\ node[c] # 0 /\ ListCurrent(c)
  BY DEF HealthyInv, Progress
<1>2. \A t \in Children : ~(t < node[c])
  BY <1>1, ChildrenAreSequences DEF ListCurrent, FirstOrAbsent, Below
<1> QED
  BY <1>1, <1>2, ChildrenAreSequences DEF FirstInQueue

LEMMA NextGranted ==
    ASSUME TypeOK, HealthyInv, HealthyStep, NEW o \in Clients
    PROVE GrantedIsFirst(o)'
<1> USE DEF TypeOK, Types, server
<1> DEFINE Granted(c) == cb[c] = "setdata" \/ (latch[c] /\ call[c] # "closed")
<1> SUFFICES ASSUME Granted(o)' PROVE FirstInQueue(o)'
  BY DEF GrantedIsFirst
<1>1. PICK c \in Clients :
        \/ TryLock(c) \/ CatalogExists(c) \/ CreateCatalog(c) \/ AwaitReturns(c)
        \/ ServeCreate(c) \/ CreateCallback(c) \/ ServeGetChildren(c)
        \/ ChildrenCallback(c) \/ ServeExists(c) \/ SetData(c) \/ WatchCallback(c)
        \/ UnLock(c) \/ UnLockExists(c) \/ Delete(c)
  BY DEF HealthyStep
<1>2. Granted(o) => FirstInQueue(o)
  BY DEF HealthyInv, GrantedIsFirst
<1>3. ASSUME UNCHANGED node, FirstInQueue(o) PROVE FirstInQueue(o)'
  BY <1>3 DEF FirstInQueue, Children
<1>4. CASE TryLock(c) \/ CatalogExists(c) \/ CreateCatalog(c)
  <2>1. Granted(o) /\ UNCHANGED node
    BY <1>1, <1>4 DEF TryLock, CatalogExists, CreateCatalog, SendCreate, ProgramOrder
  <2> QED
    BY <1>2, <1>3, <2>1
<1>5. CASE \/ AwaitReturns(c) \/ CreateCallback(c) \/ ServeGetChildren(c) \/ SetData(c)
           \/ WatchCallback(c) \/ UnLock(c) \/ UnLockExists(c)
  <2>1. Granted(o) /\ UNCHANGED node
    BY <1>5 DEF AwaitReturns, CreateCallback, ServeGetChildren, SetData,
                WatchCallback, UnLock, UnLockExists
  <2> QED
    BY <1>2, <1>3, <2>1
<1>6. CASE ServeCreate(c)
  <2>1. o # c /\ Granted(o)
    BY <1>6 DEF ServeCreate, HealthyInv, Progress
  <2>2. FirstInQueue(o)
    BY <1>2, <2>1
  <2> QED
    BY <1>6, <2>1, <2>2, CreateAppends, ChildrenAreSequences DEF FirstInQueue
<1>7. CASE ChildrenCallback(c)
  <2>1. UNCHANGED node
    BY <1>7 DEF ChildrenCallback
  <2>2. Granted(o) \/ (o = c /\ FirstOrAbsent(c))
    BY <1>7 DEF ChildrenCallback, EndCallback
  <2>3. FirstInQueue(o)
    BY <1>2, <1>7, <2>2, ListedFirstIsFirst DEF ChildrenCallback
  <2> QED
    BY <1>3, <2>1, <2>3
<1>8. CASE ServeExists(c)
  <2>1. UNCHANGED node
    BY <1>8 DEF ServeExists
  <2>2. Granted(o) \/ (o = c /\ \E s \in snap[c] : Predecessor(c, s) /\ ~Present(s))
    BY <1>8 DEF ServeExists, EndCallback
  <2>3. FirstInQueue(o)
    BY <1>2, <1>8, <2>2, GoneMeansFirst DEF ServeExists
  <2> QED
    BY <1>3, <2>1, <2>3
<1>9. CASE Delete(c)
  <2>1. FirstInQueue(c) /\ cb[c] = "done"
    BY <1>9, DeleterIsFirst DEF Delete
  <2>2. o # c /\ Granted(o)
    BY <1>9, <2>1 DEF Delete, DeleteNodes, Fires
  <2>3. FirstInQueue(o)
    BY <1>2, <2>2
  <2> QED
    BY <1>9, <2>2, <2>3, DeleteRemovesFirst DEF FirstInQueue
<1> QED
  BY <1>1, <1>4, <1>5, <1>6, <1>7, <1>8, <1>9

LEMMA NextListCurrent ==
    ASSUME TypeOK, HealthyInv, HealthyStep, NEW o \in Clients
    PROVE ListCurrent(o)'
<1> USE DEF TypeOK, Types, server
<1> SUFFICES ASSUME cb'[o] \in {"listed", "exists"}
             PROVE /\ name'[o] \in snap'[o]
                   /\ \A s \in Children' : s <= name'[o] => s \in snap'[o]
  BY DEF ListCurrent
<1>1. PICK c \in Clients :
        \/ TryLock(c) \/ CatalogExists(c) \/ CreateCatalog(c) \/ AwaitReturns(c)
        \/ ServeCreate(c) \/ CreateCallback(c) \/ ServeGetChildren(c)
        \/ ChildrenCallback(c) \/ ServeExists(c) \/ SetData(c) \/ WatchCallback(c)
        \/ UnLock(c) \/ UnLockExists(c) \/ Delete(c)
  BY DEF HealthyStep
<1>2. ASSUME cb[o] \in {"listed", "exists"}, name'[o] = name[o], snap'[o] = snap[o],
             Children' \subseteq Children
      PROVE /\ name'[o] \in snap'[o]
            /\ \A s \in Children' : s <= name'[o] => s \in snap'[o]
  BY <1>2 DEF HealthyInv, ListCurrent
<1>3. CASE \/ TryLock(c) \/ CatalogExists(c) \/ CreateCatalog(c) \/ AwaitReturns(c)
           \/ CreateCallback(c) \/ SetData(c) \/ WatchCallback(c) \/ UnLock(c)
           \/ UnLockExists(c)
  <2>1. cb[o] \in {"listed", "exists"} /\ UNCHANGED <<node, snap>> /\ name'[o] = name[o]
    BY <1>3 DEF TryLock, CatalogExists, CreateCatalog, SendCreate, AwaitReturns,
                CreateCallback, SetData, WatchCallback, UnLock, UnLockExists
  <2> QED
    BY <1>2, <2>1 DEF Children
<1>4. CASE ServeCreate(c)
  <2>1. cb[o] \in {"listed", "exists"} /\ UNCHANGED <<name, snap>>
    BY <1>4 DEF ServeCreate
  <2>2. Children' = Children \cup {lastSeq + 1} /\ ~(lastSeq + 1 <= name[o])
    BY <1>4, CreateAppends
  <2> QED
    BY <2>1, <2>2 DEF HealthyInv, ListCurrent
<1>5. CASE ServeGetChildren(c)
  <2>1. UNCHANGED <<node, name>>
    BY <1>5 DEF ServeGetChildren
  <2>2. CASE o = c
    <3>1. snap'[o] = Children /\ name[o] \in Children
      BY <1>5, <2>2 DEF ServeGetChildren, HealthyInv, Progress, Children
    <3> QED
      BY <2>1, <3>1 DEF Children
  <2>3. CASE o # c
    BY <1>2, <1>5, <2>1, <2>3 DEF ServeGetChildren, Children
  <2> QED
    BY <2>2, <2>3
<1>6. CASE ChildrenCallback(c) \/ ServeExists(c)
  <2>1. cb[o] \in {"listed", "exists"} /\ snap'[o] = snap[o] /\ UNCHANGED <<node, name>>
    BY <1>6 DEF ChildrenCallback, ServeExists, EndCallback
  <2> QED
    BY <1>2, <2>1 DEF Children
<1>7. CASE Delete(c)
  <2>1. cb[o] \in {"listed", "exists"} /\ UNCHANGED <<name, snap>>
    BY <1>7 DEF Delete, DeleteNodes
  <2> QED
    BY <1>2, <1>7, <2>1, DeleteRemovesFirst
<1> QED
  BY <1>1, <1>3, <1>4, <1>5, <1>6, <1>7

LEMMA NextHealthyInv ==
    ASSUME Faults = {}, TypeOK, HealthyInv, [Next]_vars
    PROVE HealthyInv'
<1>1. CASE UNCHANGED vars
  BY <1>1 DEF vars, HealthyInv, NodesDiffer, NoGaps, Progress, ListCurrent,
              GrantedIsFirst, FirstInQueue, Children
<1>2. CASE Next
  <2>1. HealthyStep
    BY <1>2, OnlyHealthySteps
  <2>2. UNCHANGED session
    BY <2>1 DEF HealthyStep, server, TryLock, CatalogExists, CreateCatalog, AwaitReturns,
                ServeCreate, CreateCallback, ServeGetChildren, ChildrenCallback,
                ServeExists, SetData, WatchCallback, UnLock, UnLockExists, Delete
  <2>3. NodesDiffer' /\ NoGaps'
    BY <2>1, NextQueue
  <2>4. \A o \in Clients : Progress(o)' /\ ListCurrent(o)' /\ GrantedIsFirst(o)'
    BY <2>1, NextProgress, NextListCurrent, NextGranted
  <2> QED
    BY <2>2, <2>3, <2>4 DEF HealthyInv
<1> QED
  BY <1>1, <1>2

LEMMA InitHealthyInv == Init => HealthyInv
  BY DEF Init, HealthyInv, NodesDiffer, NoGaps, Progress, ListCurrent, GrantedIsFirst

LEMMA HealthyInvariant == ASSUME Faults = {} PROVE Spec => [](TypeOK /\ HealthyInv)
<1>1. TypeOK /\ HealthyInv /\ [Next]_vars => (TypeOK /\ HealthyInv)'
  BY NextTypes, NextProgramOrder, NextHealthyInv DEF TypeOK
<1> QED
  BY <1>1, InitTypeOK, InitHealthyInv, PTL DEF Spec

LEMMA FirstIsUnique ==
    ASSUME TypeOK, HealthyInv, NEW c \in Clients, NEW d \in Clients,
           FirstInQueue(c), FirstInQueue(d)
    PROVE c = d
<1>1. node[c] \in Children /\ node[d] \in Children
  BY DEF FirstInQueue, Children
<1>2. node[c] = node[d]
  BY <1>1, ChildrenAreSequences DEF FirstInQueue, TypeOK, Types
<1> QED
  BY <1>2 DEF HealthyInv, NodesDiffer, FirstInQueue

LEMMA LatchedIsFirst ==
    ASSUME HealthyInv, NEW c \in Inside, latch[c]
    PROVE FirstInQueue(c)
  BY DEF HealthyInv, GrantedIsFirst, Inside

\* When nothing fails, whoever got in by its latch owns the first node of the
\* queue, and no two such callers are in the critical section together.
THEOREM LatchExcludes == ASSUME Faults = {} PROVE Spec => []LatchHoldersExclude
<1>1. TypeOK /\ HealthyInv => LatchHoldersExclude
  BY FirstIsUnique, LatchedIsFirst DEF LatchHoldersExclude, Inside
<1> QED
  BY <1>1, HealthyInvariant, PTL

\* In LockZookeeper, which survives the race to create the catalog, every
\* caller gets in by its latch: the critical sections exclude each other.
THEOREM LocksExclude ==
    ASSUME Faults = {}, CatchNodeExists PROVE Spec => [](MutualExclusion /\ OnlyFirstNodeHolds)
<1>1. HealthyInv => \A c \in Inside : latch[c]
  BY DEF HealthyInv, Progress, Inside
<1>2. TypeOK /\ HealthyInv => MutualExclusion
  BY <1>1, FirstIsUnique, LatchedIsFirst DEF MutualExclusion, Inside
<1>3. HealthyInv => OnlyFirstNodeHolds
  BY <1>1, LatchedIsFirst DEF FirstInQueue, OnlyFirstNodeHolds
<1> QED
  BY <1>2, <1>3, HealthyInvariant, PTL

\* And every holder owns the first node of the queue, as the class comment says.
THEOREM HoldersAreFirst ==
    ASSUME Faults = {}, CatchNodeExists PROVE Spec => []OnlyFirstNodeHolds
  BY LocksExclude, PTL

\* The invariant that exclusion rests on, for both copies of the code.
THEOREM HealthyStays == ASSUME Faults = {} PROVE Spec => []HealthyInv
  BY HealthyInvariant, PTL

\* A lock object that was closed has deleted its node: no name is missed by unLock.
THEOREM NothingLeftBehind ==
    ASSUME Faults = {}, CatchNodeExists PROVE Spec => []ClosedLeavesNoNode
<1>1. TypeOK /\ HealthyInv => ClosedLeavesNoNode
  BY DEF HealthyInv, Progress, ClosedLeavesNoNode
<1> QED
  BY <1>1, HealthyInvariant, PTL

-----------------------------------------------------------------------------
(* Waiting in the queue is never in vain                                   *)

\* Whoever is first in the queue does not wait for a deletion.
LEMMA FirstWaitsForNone ==
    ASSUME TypeOK, NoLostWakeup, HealthyInv, NEW c \in Clients, FirstInQueue(c)
    PROVE cb[c] # "watching"
<1> SUFFICES ASSUME cb[c] = "watching" PROVE FALSE
  OBVIOUS
<1>1. watch[c] \in Children /\ watch[c] < name[c]
  BY DEF TypeOK, ProgramOrder, NoLostWakeup
<1>2. name[c] = node[c] /\ node[c] <= watch[c]
  BY <1>1 DEF HealthyInv, Progress, FirstInQueue
<1> QED
  BY <1>1, <1>2 DEF TypeOK, Types

\* A queue that is not empty has a first node.
LEMMA QueueHasFirst ==
    ASSUME TypeOK, Children # {}
    PROVE \E c \in Clients : FirstInQueue(c)
<1>1. Children \subseteq Nat
  BY ChildrenAreSequences DEF TypeOK, Types
<1> DEFINE Less == {ss \in Nat \X Nat : ss[1] < ss[2]}
<1>2. PICK s \in Children : \A t \in Children : s <= t
  <2>1. IsWellFoundedOn(Less, Nat)
    BY NatLessThanWellFounded DEF OpToRel
  <2>2. PICK s \in Children : \A t \in Children : <<t, s>> \notin Less
    BY <1>1, <2>1, WFMin
  <2>3. \A t \in Children : t \in Nat /\ s \in Nat /\ ~(t < s)
    <3> SUFFICES ASSUME NEW t \in Children PROVE ~(t < s)
      BY <1>1
    <3>1. <<t, s>> \in Nat \X Nat /\ <<t, s>>[1] = t /\ <<t, s>>[2] = s
      BY <1>1
    <3> QED
      BY <2>2, <3>1
  <2> QED
    BY <2>3
<1>3. PICK c \in Clients : node[c] = s /\ s # 0
  BY DEF Children
<1> QED
  BY <1>2, <1>3 DEF FirstInQueue

\* An object in the middle of its chain can go on, or the event thread it needs is
\* inside a request of another one, which can be served.
LEMMA ChainGoesOn ==
    ASSUME HealthyInv, NEW c \in Clients,
           cb[c] \in {"create", "created", "list", "listed", "exists", "setdata", "event"}
    PROVE \E d \in Clients : GoesOn(d)
<1>1. \A d \in Clients : Connected(d)
  BY HostAssumption DEF HealthyInv, Connected
<1>2. CASE EventThreadFree(c) \/ cb[c] \in {"create", "list", "exists", "setdata"}
  BY <1>1, <1>2 DEF GoesOn
<1>3. CASE ~EventThreadFree(c)
  BY <1>1, <1>3 DEF GoesOn, EventThreadFree
<1> QED
  BY <1>2, <1>3

LEMMA HealthyQueueGoesOn == TypeOK /\ NoLostWakeup /\ HealthyInv => QueueGoesOn
<1> SUFFICES ASSUME TypeOK, NoLostWakeup, HealthyInv, NEW c \in Clients, call[c] = "await"
             PROVE \E d \in Clients : GoesOn(d)
  BY DEF QueueGoesOn
<1> DEFINE Under == {"create", "created", "list", "listed", "exists", "setdata", "event"}
<1>1. \A d \in Clients : /\ Connected(d)
                         /\ cb[d] \in Under \cup {"none", "watching", "done"}
                         /\ call[d] \in Callers
  BY HostAssumption DEF HealthyInv, Connected, Progress, TypeOK, Types, Chains
<1>2. CASE cb[c] \in Under
  BY <1>2, ChainGoesOn
<1>3. CASE cb[c] = "done"
  BY <1>3 DEF HealthyInv, Progress, GoesOn
<1>4. CASE cb[c] = "watching"
  <2>1. Children # {}
    BY <1>4 DEF TypeOK, ProgramOrder, NoLostWakeup
  <2>2. PICK d \in Clients : FirstInQueue(d)
    BY <2>1, QueueHasFirst
  <2>3. cb[d] \in Under \cup {"done"}
    <3>1. node[d] # 0 /\ cb[d] # "none"
      BY <2>2 DEF FirstInQueue, HealthyInv, Progress
    <3> QED
      BY <1>1, <2>2, <3>1, FirstWaitsForNone
  <2>4. CASE cb[d] = "done"
    <3>1. latch[d] /\ call[d] \in {"await", "inside", "unlock", "delete"}
      BY <2>2, <2>4 DEF HealthyInv, Progress, FirstInQueue
    <3> QED
      BY <1>1, <3>1 DEF GoesOn
  <2> QED
    BY <2>3, <2>4, ChainGoesOn
<1>5. cb[c] # "none"
  BY DEF HealthyInv, Progress
<1> QED
  BY <1>1, <1>2, <1>3, <1>4, <1>5

\* What AwaitEnds needs besides progress: when nothing fails, in both copies, some
\* object can go on as long as a caller waits.
THEOREM QueuesGoOn == ASSUME Faults = {} PROVE Spec => []QueueGoesOn
  BY HealthyInvariant, WakeupsNotLost, HealthyQueueGoesOn, PTL

-----------------------------------------------------------------------------
(* The healthy lock is a fair ticket lock                                  *)

\* The steps between joining, entering and leaving are invisible outside.
LEMMA SilentStep ==
    ASSUME UNCHANGED <<lastSeq, Ticket, Inside>>
    PROVE [Abstract!TNext]_(Abstract!tvars)
  BY DEF Abstract!tvars

LEMMA StepImplements ==
    ASSUME Faults = {}, CatchNodeExists, TypeOK, HealthyInv, [Next]_vars
    PROVE [Abstract!TNext]_(Abstract!tvars)
<1> USE DEF TypeOK, Types, ProgramOrder, server
<1>1. CASE UNCHANGED vars
  BY <1>1, SilentStep DEF vars, Ticket, Inside
<1>2. CASE Next
  <2>1. PICK c \in Clients :
          \/ TryLock(c) \/ CatalogExists(c) \/ CreateCatalog(c) \/ AwaitReturns(c)
          \/ ServeCreate(c) \/ CreateCallback(c) \/ ServeGetChildren(c)
          \/ ChildrenCallback(c) \/ ServeExists(c) \/ SetData(c) \/ WatchCallback(c)
          \/ UnLock(c) \/ UnLockExists(c) \/ Delete(c)
    BY <1>2, OnlyHealthySteps DEF HealthyStep
  <2>2. CASE TryLock(c) \/ CatalogExists(c) \/ CreateCatalog(c) \/ UnLockExists(c)
    <3>1. UNCHANGED <<lastSeq, node>> /\ Ticket' = Ticket /\ Inside' = Inside
      BY <2>2 DEF TryLock, CatalogExists, CreateCatalog, SendCreate, UnLockExists,
                  Ticket, Inside
    <3> QED
      BY <3>1, SilentStep
  <2>3. CASE \/ CreateCallback(c) \/ ServeGetChildren(c) \/ ChildrenCallback(c)
             \/ ServeExists(c) \/ SetData(c) \/ WatchCallback(c)
    <3>1. UNCHANGED <<lastSeq, node, call>>
      BY <2>3 DEF CreateCallback, ServeGetChildren, ChildrenCallback, ServeExists,
                  SetData, WatchCallback
    <3> QED
      BY <3>1, SilentStep DEF Ticket, Inside
  <2>4. CASE ServeCreate(c)
    <3>1. call[c] = "await" /\ UNCHANGED call
      BY <2>4 DEF ServeCreate, HealthyInv, Progress
    <3>2. Ticket[c] = 0 /\ Ticket' = [Ticket EXCEPT ![c] = lastSeq + 1]
      BY <2>4, <3>1, CreateAppends DEF Ticket
    <3>3. Abstract!Join(c)
      BY <2>4, <3>1, <3>2, CreateAppends DEF Abstract!Join, Inside
    <3> QED
      BY <3>3 DEF Abstract!TNext
  <2>5. CASE AwaitReturns(c)
    <3>1. /\ FirstInQueue(c) /\ call[c] = "await" /\ UNCHANGED <<node, lastSeq>>
          /\ call' = [call EXCEPT ![c] = "inside"]
      BY <2>5 DEF AwaitReturns, HealthyInv, GrantedIsFirst
    <3>2. Ticket' = Ticket /\ Inside' = Inside \cup {c}
      BY <3>1 DEF Ticket, Inside
    <3>3. Abstract!Lowest(c)
      BY <3>1 DEF Abstract!Lowest, Ticket, FirstInQueue, Children
    <3>4. Abstract!Enter(c)
      BY <3>1, <3>2, <3>3 DEF Abstract!Enter
    <3> QED
      BY <3>4 DEF Abstract!TNext
  <2>6. CASE UnLock(c)
    <3>1. /\ call[c] = "inside" /\ UNCHANGED <<node, lastSeq>>
          /\ call' \in {[call EXCEPT ![c] = "unlock"], [call EXCEPT ![c] = "delete"],
                        [call EXCEPT ![c] = "closed"]}
      BY <2>6 DEF UnLock
    <3>2. Inside' = Inside \ {c} /\ c \in Inside
      BY <3>1 DEF Inside
    <3>3. Ticket' = [Ticket EXCEPT ![c] = 0]
      BY <3>1 DEF Ticket
    <3>4. Abstract!Leave(c)
      BY <3>1, <3>2, <3>3 DEF Abstract!Leave
    <3> QED
      BY <3>4 DEF Abstract!TNext
  <2>7. CASE Delete(c)
    <3>1. call[c] = "delete" /\ call' = [call EXCEPT ![c] = "closed"] /\ lastSeq' = lastSeq
      BY <2>7 DEF Delete
    <3>2. Inside' = Inside
      BY <3>1 DEF Inside
    <3>3. Ticket' = Ticket
      BY <2>7, <3>1, DeleteRemovesFirst DEF Ticket
    <3> QED
      BY <3>1, <3>2, <3>3, SilentStep
  <2> QED
    BY <2>1, <2>2, <2>3, <2>4, <2>5, <2>6, <2>7
<1> QED
  BY <1>1, <1>2

\* Every behaviour of LockZookeeper without faults is one of TicketLock.
THEOREM RefinesTicketLock ==
    ASSUME Faults = {}, CatchNodeExists PROVE Spec => ImplementsTicketLock
<1>1. Init => Abstract!TInit
  BY DEF Init, Abstract!TInit, Ticket, Inside
<1>2. TypeOK /\ HealthyInv /\ [Next]_vars => [Abstract!TNext]_(Abstract!tvars)
  BY StepImplements
<1> QED
  BY <1>1, <1>2, HealthyInvariant, PTL DEF Spec, ImplementsTicketLock, Abstract!TSpec
=============================================================================
