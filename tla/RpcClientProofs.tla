--------------------------- MODULE RpcClientProofs ---------------------------
(* Proofs about RpcClient for any finite set of callers, any number of     *)
(* calls and any size of the pool.                                         *)
EXTENDS RpcClient, FiniteSetTheorems, FunctionTheorems, TLAPS

Total == Cardinality(Callers) * Calls

Pools == [clients : [Slots -> Conns \cup {Null}], lock : [Slots -> Callers \cup {None}]]

LEMMA TotalIsNat == ASSUME IsFiniteSet(Callers) PROVE Total \in Nat /\ Conns = 1..Total
<1>1. Cardinality(Callers) \in Nat
  BY FS_CardinalityType
<1> QED
  BY <1>1, CallersAssumption DEF Total, Conns

\* The calls that may yet make a connection: those to come, and those of the
\* callers still on their way to create.
Connecting == {"pool", "newpool", "pick", "lock", "create"}
Budget ==
    {x \in Callers \X (1..Calls) :
        \/ x[2] <= left[x[1]]
        \/ x[2] = left[x[1]] + 1 /\ pc[x[1]] \in Connecting}

\* A caller in getClient has a pool.
PoolKnown ==
    \A c \in Callers : pc[c] \in {"pick", "lock", "create", "store", "return"} => pool[c] # Null

\* A caller in a call counts it among the calls made.
InCall ==
    \A c \in Callers :
        pc[c] # "idle" => /\ req[c] \in Requests
                          /\ req[c].caller = c
                          /\ req[c].n = left[c] + 1

ConnsBounded == conns + Cardinality(Budget) <= Total

LEMMA BudgetFinite ==
    ASSUME IsFiniteSet(Callers)
    PROVE  /\ IsFiniteSet(Budget) /\ Cardinality(Budget) \in Nat
           /\ Cardinality(Budget) <= Total
<1>1. IsFiniteSet(1..Calls) /\ Cardinality(1..Calls) = Calls
  BY FS_Interval, CallersAssumption
<1>2. IsFiniteSet(Callers \X (1..Calls)) /\ Cardinality(Callers \X (1..Calls)) = Total
  BY <1>1, FS_Product DEF Total
<1>3. Budget \in SUBSET (Callers \X (1..Calls))
  BY DEF Budget
<1>4. IsFiniteSet(Budget) /\ Cardinality(Budget) <= Total
  BY <1>2, <1>3, FS_Subset
<1> QED
  BY <1>4, FS_CardinalityType

\* The two changes made to a pool, and what they leave as it was.
SetLock(ps, p, i, v) == [ps EXCEPT ![p].lock[i] = v]
SetClient(ps, p, i, k) == [ps EXCEPT ![p].clients[i] = k]

LockChanged(qs, ps, p, i, v) ==
    /\ Len(qs) = Len(ps)
    /\ \A q \in 1..Len(ps) : qs[q].clients = ps[q].clients
    /\ \A q \in 1..Len(ps), j \in Slots :
         qs[q].lock[j] = IF q = p /\ j = i THEN v ELSE ps[q].lock[j]
ClientChanged(qs, ps, p, i, k) ==
    /\ Len(qs) = Len(ps)
    /\ \A q \in 1..Len(ps) : qs[q].lock = ps[q].lock
    /\ \A q \in 1..Len(ps), j \in Slots :
         qs[q].clients[j] = IF q = p /\ j = i THEN k ELSE ps[q].clients[j]

LEMMA SetLockSpec ==
    ASSUME NEW ps \in Seq(Pools), NEW p \in 1..Len(ps), NEW i \in Slots,
           NEW v \in Callers \cup {None}
    PROVE  /\ SetLock(ps, p, i, v) \in Seq(Pools)
           /\ Len(SetLock(ps, p, i, v)) = Len(ps)
           /\ LockChanged(SetLock(ps, p, i, v), ps, p, i, v)
<1> DEFINE new == [ps[p] EXCEPT !.lock = [ps[p].lock EXCEPT ![i] = v]]
<1>1. \A q \in 1..Len(ps) : ps[q] \in Pools
  OBVIOUS
<1>2. new \in Pools /\ new.clients = ps[p].clients
  BY <1>1 DEF Pools
<1>3. \A j \in Slots : new.lock[j] = IF j = i THEN v ELSE ps[p].lock[j]
  BY <1>1 DEF Pools
<1>4. SetLock(ps, p, i, v) = [ps EXCEPT ![p] = new]
  BY DEF SetLock
<1> HIDE DEF new
<1> QED
  BY <1>1, <1>2, <1>3, <1>4 DEF LockChanged

LEMMA SetClientSpec ==
    ASSUME NEW ps \in Seq(Pools), NEW p \in 1..Len(ps), NEW i \in Slots,
           NEW k \in Conns \cup {Null}
    PROVE  /\ SetClient(ps, p, i, k) \in Seq(Pools)
           /\ Len(SetClient(ps, p, i, k)) = Len(ps)
           /\ ClientChanged(SetClient(ps, p, i, k), ps, p, i, k)
<1> DEFINE new == [ps[p] EXCEPT !.clients = [ps[p].clients EXCEPT ![i] = k]]
<1>1. \A q \in 1..Len(ps) : ps[q] \in Pools
  OBVIOUS
<1>2. new \in Pools /\ new.lock = ps[p].lock
  BY <1>1 DEF Pools
<1>3. \A j \in Slots : new.clients[j] = IF j = i THEN k ELSE ps[p].clients[j]
  BY <1>1 DEF Pools
<1>4. SetClient(ps, p, i, k) = [ps EXCEPT ![p] = new]
  BY DEF SetClient
<1> HIDE DEF new
<1> QED
  BY <1>1, <1>2, <1>3, <1>4 DEF ClientChanged

-----------------------------------------------------------------------------
(* Types                                                                   *)

Places == {"idle", "pool", "newpool", "pick", "lock", "create", "store", "return", "add",
           "write", "wait"}

\* TypeOK in four groups of variables.
CallerTypes ==
    /\ copy \in Copies
    /\ pc \in [Callers -> Places]
    /\ left \in [Callers -> 0..Calls]
    /\ req \in [Callers -> Requests \cup {NoCall}]
    /\ answer \in [Callers -> Responses \cup {Failed}]
PoolTypes ==
    /\ pools \in Seq(Pools)
    /\ outbox \in 0..Len(pools)
    /\ pool \in [Callers -> 0..Len(pools)]
    /\ slot \in [Callers -> Slots]
    /\ monitor \in Callers \cup {None}
ConnTypes ==
    /\ chan \in [Callers -> Conns \cup {Null}]
    /\ conns \in 0..Total
    /\ open \subseteq 1..conns
NetTypes ==
    /\ mapping \subseteq Requests
    /\ toServer \in [Conns -> Seq(Requests)]
    /\ tasks \in [Conns -> Seq(Requests)]
    /\ toClient \in [Conns -> Seq(Responses)]

LEMMA TypesSplit == TypeOK <=> CallerTypes /\ PoolTypes /\ ConnTypes /\ NetTypes
  BY DEF TypeOK, CallerTypes, PoolTypes, ConnTypes, NetTypes, Places, Pools, Total

TypeInv == CallerTypes /\ PoolTypes /\ ConnTypes /\ NetTypes /\ PoolKnown /\ InCall /\ ConnsBounded

LEMMA InitTypeInv ==
    ASSUME IsFiniteSet(Callers), Init
    PROVE  TypeInv
<1>1. CallerTypes /\ PoolTypes
  BY CallersAssumption, CopiesAssumption DEF Init, CallerTypes, PoolTypes, Slots, Places, Null
<1>2. ConnTypes /\ NetTypes
  BY TotalIsNat DEF Init, ConnTypes, NetTypes
<1>3. PoolKnown /\ InCall
  BY DEF Init, PoolKnown, InCall
<1>4. ConnsBounded
  BY BudgetFinite, TotalIsNat DEF Init, ConnsBounded
<1> QED
  BY <1>1, <1>2, <1>3, <1>4 DEF TypeInv

CallerStep(c) ==
    \/ Invoke(c) \/ GetPool(c) \/ NewPool(c) \/ Pick(c) \/ Lock(c) \/ Create(c)
    \/ Refused(c) \/ Store(c) \/ Return(c) \/ AddCallBack(c) \/ Write(c) \/ GetInterrupted(c)

LEMMA NextSplit ==
    ASSUME [Next]_vars
    PROVE  \/ UNCHANGED vars
           \/ \E c \in Callers : CallerStep(c)
           \/ \E k \in Conns : ServerRead(k) \/ ServerRun(k) \/ Response(k) \/ Close(k)
  BY DEF Next, Caller, GetClient, EventLoop, CallerStep

\* The call Invoke makes is a request, and its answer in place a response.
LEMMA InvokeCalls ==
    ASSUME CallerTypes, NEW c \in Callers, Invoke(c)
    PROVE  \E call \in Requests :
             /\ call.caller = c /\ call.n = left[c]
             /\ req' = [req EXCEPT ![c] = call]
             /\ \/ /\ answer' = [answer EXCEPT ![c] = [id |-> call, value |-> "result"]]
                   /\ call.kind = "local"
                   /\ UNCHANGED pc
                \/ Go(c, "pool") /\ UNCHANGED answer
<1>1. PICK kind \in Kinds :
         LET call == [caller |-> c, n |-> left[c], kind |-> kind] IN
         /\ req' = [req EXCEPT ![c] = call]
         /\ \/ /\ kind = "local" /\ ~Multiplex
               /\ answer' = [answer EXCEPT ![c] = [id |-> call, value |-> "result"]]
               /\ UNCHANGED pc
            \/ /\ kind # "local"
               /\ Go(c, "pool")
               /\ UNCHANGED answer
  BY DEF Invoke
<1>2. left[c] \in 1..Calls
  BY CallersAssumption DEF Invoke, CallerTypes
<1>3. [caller |-> c, n |-> left[c], kind |-> kind] \in Requests
  BY <1>2 DEF Requests
<1> QED
  BY <1>1, <1>3

\* What a connection delivers is a request or a response.
LEMMA HeadsTyped ==
    ASSUME NetTypes, NEW k \in Conns
    PROVE  /\ toServer[k] # <<>> => Head(toServer[k]) \in Requests
           /\ tasks[k] # <<>> => Head(tasks[k]) \in Requests
           /\ toClient[k] # <<>> => Head(toClient[k]) \in Responses
  BY DEF NetTypes

LEMMA NextCallerTypes ==
    ASSUME TypeInv, [Next]_vars
    PROVE  CallerTypes'
<1> USE DEF CallerTypes
<1> CallerTypes /\ NetTypes
  BY DEF TypeInv
<1>1. CASE UNCHANGED vars
  BY <1>1 DEF vars
<1>2. ASSUME NEW c \in Callers, Invoke(c) PROVE CallerTypes'
  <2>1. PICK call \in Requests :
             /\ req' = [req EXCEPT ![c] = call]
             /\ \/ /\ answer' = [answer EXCEPT ![c] = [id |-> call, value |-> "result"]]
                   /\ UNCHANGED pc
                \/ Go(c, "pool") /\ UNCHANGED answer
    BY <1>2, InvokeCalls
  <2>2. [id |-> call, value |-> "result"] \in Responses
    BY DEF Responses
  <2>3. left' \in [Callers -> 0..Calls] /\ copy' = copy
    BY <1>2, CallersAssumption DEF Invoke
  <2> QED
    BY <2>1, <2>2, <2>3 DEF Go, Places
<1>3. ASSUME NEW c \in Callers, GetPool(c) \/ NewPool(c) \/ Pick(c) \/ Lock(c) \/ Create(c)
      PROVE CallerTypes'
  BY <1>3 DEF GetPool, NewPool, Pick, Lock, Create, Go, Places, callerVars
<1>4. ASSUME NEW c \in Callers,
             Refused(c) \/ Store(c) \/ Return(c) \/ AddCallBack(c) \/ Write(c) \/ GetInterrupted(c)
      PROVE CallerTypes'
  BY <1>4 DEF Refused, Store, Return, AddCallBack, Write, GetInterrupted, Throw, Go, Places,
              callerVars
<1>5. ASSUME NEW k \in Conns, ServerRead(k) \/ ServerRun(k) \/ Close(k) PROVE CallerTypes'
  BY <1>5 DEF ServerRead, ServerRun, Close, callerVars
<1>6. ASSUME NEW k \in Conns, Response(k) PROVE CallerTypes'
  <2>1. Head(toClient[k]) \in Responses
    BY <1>6, HeadsTyped DEF Response
  <2>2. /\ UNCHANGED callerVars
        /\ \/ UNCHANGED <<pc, answer>>
           \/ \E f \in mapping : /\ answer' = [answer EXCEPT ![f.caller] = Head(toClient[k])]
                                 /\ Go(f.caller, "idle")
    BY <1>6 DEF Response, Callback
  <2> QED
    BY <2>1, <2>2 DEF Go, Places, callerVars
<1> QED
  BY <1>1, <1>2, <1>3, <1>4, <1>5, <1>6, NextSplit DEF CallerStep

LEMMA NextPoolTypes ==
    ASSUME TypeInv, [Next]_vars
    PROVE  PoolTypes'
<1> USE DEF PoolTypes
<1> PoolTypes /\ CallerTypes /\ ConnTypes /\ PoolKnown
  BY DEF TypeInv
<1>1. CASE UNCHANGED poolVars
  BY <1>1 DEF poolVars
<1>2. ASSUME NEW c \in Callers, GetPool(c) PROVE PoolTypes'
  BY <1>2 DEF GetPool, Enter
<1>3. ASSUME NEW c \in Callers, NewPool(c) PROVE PoolTypes'
  <2> DEFINE new == [clients |-> [i \in Slots |-> Null], lock |-> [i \in Slots |-> None]]
  <2>1. new \in Pools
    BY DEF Pools
  <2> HIDE DEF new
  <2>2. pools' = Append(pools, new)
    BY <1>3 DEF NewPool, new
  <2>3. pools' \in Seq(Pools) /\ Len(pools') = Len(pools) + 1 /\ Len(pools) \in Nat
    BY <2>1, <2>2
  <2> QED
    BY <1>3, <2>3 DEF NewPool
<1>4. ASSUME NEW c \in Callers, Pick(c) PROVE PoolTypes'
  BY <1>4 DEF Pick
<1>5. ASSUME NEW c \in Callers, Lock(c) \/ Refused(c) PROVE PoolTypes'
  <2>1. pool[c] \in 1..Len(pools) /\ slot[c] \in Slots
    BY <1>5 DEF Lock, Refused, PoolKnown, Null
  <2>2. \/ pools' = pools
        \/ \E v \in Callers \cup {None} : pools' = SetLock(pools, pool[c], slot[c], v)
    BY <1>5 DEF Lock, Refused, SetLock
  <2>3. pools' \in Seq(Pools) /\ Len(pools') = Len(pools)
    BY <2>1, <2>2, SetLockSpec
  <2> QED
    BY <1>5, <2>3 DEF Lock, Refused, Exit
<1>6. ASSUME NEW c \in Callers, Store(c) PROVE PoolTypes'
  <2>1. pool[c] \in 1..Len(pools) /\ slot[c] \in Slots /\ chan[c] \in Conns \cup {Null}
    BY <1>6 DEF Store, PoolKnown, ConnTypes, Null
  <2> DEFINE stored == SetClient(pools, pool[c], slot[c], chan[c])
  <2>2. pools' = SetLock(stored, pool[c], slot[c], None)
    BY <1>6 DEF Store, SetLock, SetClient
  <2>3. stored \in Seq(Pools) /\ Len(stored) = Len(pools)
    BY <2>1, SetClientSpec
  <2> HIDE DEF stored
  <2>4. pools' \in Seq(Pools) /\ Len(pools') = Len(pools)
    BY <2>1, <2>2, <2>3, SetLockSpec
  <2> QED
    BY <1>6, <2>4 DEF Store
<1>7. ASSUME NEW c \in Callers, Return(c) PROVE PoolTypes'
  BY <1>7 DEF Return, Exit
<1>8. ASSUME NEW c \in Callers,
             Invoke(c) \/ Create(c) \/ AddCallBack(c) \/ Write(c) \/ GetInterrupted(c)
      PROVE UNCHANGED poolVars
  BY <1>8 DEF Invoke, Create, AddCallBack, Write, GetInterrupted
<1>9. ASSUME NEW k \in Conns, ServerRead(k) \/ ServerRun(k) \/ Response(k) \/ Close(k)
      PROVE UNCHANGED poolVars
  BY <1>9 DEF ServerRead, ServerRun, Response, Close
<1>10. UNCHANGED vars => UNCHANGED poolVars
  BY DEF vars, poolVars
<1> QED
  BY <1>1, <1>2, <1>3, <1>4, <1>5, <1>6, <1>7, <1>8, <1>9, <1>10, NextSplit DEF CallerStep

LEMMA NextConnTypes ==
    ASSUME IsFiniteSet(Callers), TypeInv, [Next]_vars
    PROVE  ConnTypes'
<1> USE DEF ConnTypes
<1> /\ PoolTypes /\ CallerTypes /\ ConnTypes /\ PoolKnown /\ InCall
    /\ Total \in Nat /\ Conns = 1..Total
  BY TotalIsNat DEF TypeInv
<1>1. CASE UNCHANGED <<chan, conns, open>>
  BY <1>1
<1>2. ASSUME NEW c \in Callers, Create(c) PROVE ConnTypes'
  <2>1. left[c] + 1 \in 1..Calls /\ pc[c] = "create"
    BY <1>2 DEF Create, InCall, Requests
  <2>2. <<c, left[c] + 1>> \in Budget
    BY <2>1 DEF Budget, Connecting
  <2>3. Cardinality(Budget) # 0
    BY <2>2, BudgetFinite, FS_EmptySet
  <2>4. conns + 1 \in 1..Total
    BY <2>3, BudgetFinite DEF TypeInv, ConnsBounded
  <2>5. conns' = conns + 1 /\ open' \subseteq open \cup {conns + 1}
    BY <1>2 DEF Create
  <2>6. chan' \in [Callers -> Conns \cup {Null}]
    BY <1>2, <2>4 DEF Create
  <2>7. open' \subseteq 1..conns'
    BY <2>4, <2>5
  <2> QED
    BY <2>4, <2>5, <2>6, <2>7
<1>3. ASSUME NEW c \in Callers, Return(c) PROVE ConnTypes'
  <2>1. pool[c] \in 1..Len(pools) /\ slot[c] \in Slots
    BY <1>3 DEF Return, PoolKnown, PoolTypes, Null
  <2>2. pools[pool[c]] \in Pools
    BY <2>1 DEF PoolTypes
  <2>3. Slot(c) \in Conns \cup {Null}
    BY <2>1, <2>2 DEF Slot, Pools
  <2> QED
    BY <1>3, <2>3 DEF Return
<1>4. ASSUME NEW k \in Conns, Close(k) PROVE ConnTypes'
  BY <1>4 DEF Close
<1>5. ASSUME NEW c \in Callers, CallerStep(c), ~Create(c), ~Return(c)
      PROVE UNCHANGED <<chan, conns, open>>
  BY <1>5 DEF CallerStep, Invoke, GetPool, NewPool, Pick, Lock, Refused, Store, AddCallBack, Write,
              GetInterrupted
<1>6. ASSUME NEW k \in Conns, ServerRead(k) \/ ServerRun(k) \/ Response(k)
      PROVE UNCHANGED <<chan, conns, open>>
  BY <1>6 DEF ServerRead, ServerRun, Response
<1>7. UNCHANGED vars => UNCHANGED <<chan, conns, open>>
  BY DEF vars
<1> QED
  BY <1>1, <1>2, <1>3, <1>4, <1>5, <1>6, <1>7, NextSplit

LEMMA NextNetTypes ==
    ASSUME TypeInv, [Next]_vars
    PROVE  NetTypes'
<1> USE DEF NetTypes
<1> CallerTypes /\ NetTypes /\ ConnTypes /\ InCall
  BY DEF TypeInv
<1>1. CASE UNCHANGED <<mapping, netVars>>
  BY <1>1 DEF netVars
<1>2. ASSUME NEW c \in Callers, AddCallBack(c) \/ Write(c) PROVE NetTypes'
  <2>1. req[c] \in Requests
    BY <1>2 DEF AddCallBack, Write, InCall
  <2>2. mapping' \subseteq Requests
    <3>1. mapping' = mapping \/ mapping' = mapping \cup {req[c]}
      BY <1>2 DEF AddCallBack, Write
    <3> QED
      BY <2>1, <3>1
  <2>3. \/ toServer' = toServer
        \/ toServer' = [toServer EXCEPT ![chan[c]] = Append(@, req[c])]
    BY <1>2 DEF AddCallBack, Write, netVars
  <2>4. toServer' \in [Conns -> Seq(Requests)]
    <3>1. toServer \in [Conns -> Seq(Requests)]
      OBVIOUS
    <3>2. ASSUME NEW k \in Conns PROVE Append(toServer[k], req[c]) \in Seq(Requests)
      BY <2>1, <3>1
    <3> QED
      BY <2>3, <3>1, <3>2
  <2> QED
    <3>1. tasks' = tasks /\ toClient' = toClient
      BY <1>2 DEF AddCallBack, Write, netVars
    <3> QED
      BY <2>2, <2>4, <3>1
<1>3. ASSUME NEW k \in Conns, ServerRead(k) PROVE NetTypes'
  BY <1>3, HeadsTyped DEF ServerRead
<1>4. ASSUME NEW k \in Conns, ServerRun(k) PROVE NetTypes'
  <2>1. Head(tasks[k]) \in Requests
    BY <1>4, HeadsTyped DEF ServerRun
  <2>2. Reply(Head(tasks[k])) \in Responses
    BY <2>1 DEF Reply, Invoked, Responses
  <2> QED
    BY <1>4, <2>2 DEF ServerRun
<1>5. ASSUME NEW k \in Conns, Response(k) PROVE NetTypes'
  BY <1>5 DEF Response, Removed
<1>6. ASSUME NEW k \in Conns, Close(k) PROVE NetTypes'
  BY <1>6 DEF Close
<1>7. ASSUME NEW c \in Callers, CallerStep(c), ~AddCallBack(c), ~Write(c)
      PROVE UNCHANGED <<mapping, netVars>>
  BY <1>7 DEF CallerStep, Invoke, GetPool, NewPool, Pick, Lock, Create, Refused, Store, Return,
              GetInterrupted
<1>8. UNCHANGED vars => UNCHANGED <<mapping, netVars>>
  BY DEF vars, netVars
<1> QED
  BY <1>1, <1>2, <1>3, <1>4, <1>5, <1>6, <1>7, <1>8, NextSplit

\* Outside its own steps and the response it waits for, a caller stays where it is.
LEMMA OthersStay ==
    ASSUME CallerTypes, NEW d \in Callers
    PROVE  /\ \A c \in Callers : CallerStep(c) /\ d # c => pc'[d] = pc[d] /\ left'[d] = left[d]
                                                            /\ req'[d] = req[d]
           /\ \A k \in Conns : ServerRead(k) \/ ServerRun(k) \/ Response(k) \/ Close(k) =>
                /\ pc'[d] = pc[d] \/ (pc[d] = "wait" /\ pc'[d] = "idle")
                /\ left' = left /\ req' = req
<1> USE DEF CallerTypes
<1>1. ASSUME NEW c \in Callers, d # c,
             Invoke(c) \/ GetPool(c) \/ NewPool(c) \/ Pick(c) \/ Lock(c) \/ Create(c)
      PROVE  pc'[d] = pc[d] /\ left'[d] = left[d] /\ req'[d] = req[d]
  BY <1>1 DEF Invoke, GetPool, NewPool, Pick, Lock, Create, Go, callerVars
<1>2. ASSUME NEW c \in Callers, d # c,
             Refused(c) \/ Store(c) \/ Return(c) \/ AddCallBack(c) \/ Write(c) \/ GetInterrupted(c)
      PROVE  pc'[d] = pc[d] /\ left'[d] = left[d] /\ req'[d] = req[d]
  BY <1>2 DEF Refused, Store, Return, AddCallBack, Write, GetInterrupted, Throw, Go, callerVars
<1>3. ASSUME NEW k \in Conns, ServerRead(k) \/ ServerRun(k) \/ Response(k) \/ Close(k)
      PROVE  /\ pc'[d] = pc[d] \/ (pc[d] = "wait" /\ pc'[d] = "idle")
             /\ left' = left /\ req' = req
  BY <1>3 DEF ServerRead, ServerRun, Response, Close, Go, callerVars
<1> QED
  BY <1>1, <1>2, <1>3 DEF CallerStep

\* The caller's own steps: the place it goes to and what it takes along.
LEMMA NextPlace ==
    ASSUME CallerTypes, NEW c \in Callers, CallerStep(c)
    PROVE  \/ Invoke(c) /\ pc'[c] \in {"idle", "pool"}
           \/ /\ left' = left /\ req' = req
              /\ pc'[c] # "idle" => pc[c] # "idle"
              /\ pc'[c] \in Connecting => pc[c] \in Connecting \ {"create"}
              /\ Create(c) => pc[c] = "create"
<1> USE DEF CallerTypes, Connecting
<1>1. CASE Invoke(c)
  BY <1>1 DEF Invoke, Go
<1>2. CASE GetPool(c) \/ NewPool(c) \/ Pick(c) \/ Lock(c) \/ Create(c)
  BY <1>2 DEF GetPool, NewPool, Pick, Lock, Create, Go, callerVars
<1>3. CASE Refused(c) \/ Store(c) \/ Return(c) \/ AddCallBack(c) \/ Write(c) \/ GetInterrupted(c)
  BY <1>3 DEF Refused, Store, Return, AddCallBack, Write, GetInterrupted, Throw, Go, callerVars,
              Create
<1> QED
  BY <1>1, <1>2, <1>3 DEF CallerStep

LEMMA NextPoolKnown ==
    ASSUME TypeInv, [Next]_vars
    PROVE  PoolKnown'
<1> SUFFICES ASSUME NEW d \in Callers,
                    pc'[d] \in {"pick", "lock", "create", "store", "return"}
             PROVE  pool'[d] # Null
  BY DEF PoolKnown
<1> USE DEF CallerTypes, PoolTypes
<1> CallerTypes /\ PoolTypes /\ PoolKnown
  BY DEF TypeInv
<1>1. CASE UNCHANGED vars
  BY <1>1 DEF vars, PoolKnown
<1>2. ASSUME NEW c \in Callers, CallerStep(c), d # c PROVE pool'[d] # Null
  <2>1. pool'[d] = pool[d]
    BY <1>2 DEF CallerStep, Invoke, GetPool, NewPool, Pick, Lock, Create, Refused, Store, Return,
                AddCallBack, Write, GetInterrupted, poolVars
  <2> QED
    BY <1>2, <2>1, OthersStay DEF PoolKnown
<1>3. CASE GetPool(d) \/ NewPool(d)
  BY <1>3 DEF GetPool, NewPool, Go, Null
<1>4. CASE Invoke(d) \/ Pick(d) \/ Lock(d) \/ Create(d) \/ Store(d)
  BY <1>4 DEF Invoke, Pick, Lock, Create, Store, Go, PoolKnown, poolVars
<1>5. ~(Refused(d) \/ Return(d) \/ AddCallBack(d) \/ Write(d) \/ GetInterrupted(d))
  BY DEF Refused, Return, AddCallBack, Write, GetInterrupted, Throw, Go
<1>6. ASSUME NEW k \in Conns, ServerRead(k) \/ ServerRun(k) \/ Response(k) \/ Close(k)
      PROVE  pool'[d] # Null
  <2>1. pool'[d] = pool[d]
    BY <1>6 DEF ServerRead, ServerRun, Response, Close, poolVars
  <2> QED
    BY <1>6, <2>1, OthersStay DEF PoolKnown
<1> QED
  BY <1>1, <1>2, <1>3, <1>4, <1>5, <1>6, NextSplit DEF CallerStep

LEMMA NextInCall ==
    ASSUME TypeInv, [Next]_vars
    PROVE  InCall'
<1> DEFINE Known(d) == req[d] \in Requests /\ req[d].caller = d /\ req[d].n = left[d] + 1
<1> SUFFICES ASSUME NEW d \in Callers, pc'[d] # "idle" PROVE Known(d)'
  BY DEF InCall
<1> CallerTypes /\ InCall
  BY DEF TypeInv
<1>1. CASE pc[d] # "idle" /\ left'[d] = left[d] /\ req'[d] = req[d]
  BY <1>1 DEF InCall
<1>2. CASE Invoke(d)
  <2>1. PICK call \in Requests : /\ call.caller = d /\ call.n = left[d]
                                 /\ req' = [req EXCEPT ![d] = call]
    BY <1>2, InvokeCalls
  <2>2. req'[d] = call /\ left'[d] + 1 = left[d]
    BY <1>2, <2>1 DEF Invoke, CallerTypes
  <2> QED
    BY <2>1, <2>2
<1>3. CASE UNCHANGED vars
  BY <1>1, <1>3 DEF vars
<1>4. ASSUME NEW c \in Callers, CallerStep(c), d # c PROVE Known(d)'
  BY <1>1, <1>4, OthersStay
<1>5. CASE CallerStep(d)
  BY <1>1, <1>2, <1>5, NextPlace
<1>6. ASSUME NEW k \in Conns, ServerRead(k) \/ ServerRun(k) \/ Response(k) \/ Close(k)
      PROVE  Known(d)'
  BY <1>1, <1>6, OthersStay
<1> QED
  BY <1>3, <1>4, <1>5, <1>6, NextSplit

LEMMA NextConnsBounded ==
    ASSUME IsFiniteSet(Callers), TypeInv, [Next]_vars
    PROVE  ConnsBounded'
<1> CallerTypes /\ ConnTypes /\ InCall /\ ConnsBounded /\ Total \in Nat
  BY TotalIsNat DEF TypeInv
<1>1. ASSUME conns' = conns, Budget' \subseteq Budget PROVE ConnsBounded'
  <2>1. Cardinality(Budget') <= Cardinality(Budget) /\ Cardinality(Budget') \in Nat
    BY <1>1, BudgetFinite, FS_Subset, FS_CardinalityType
  <2> QED
    BY <1>1, <2>1, BudgetFinite DEF ConnsBounded, ConnTypes
<1>2. ASSUME NEW c \in Callers, Create(c) PROVE ConnsBounded'
  <2> DEFINE own == <<c, left[c] + 1>>
  <2>1. left[c] + 1 \in 1..Calls /\ pc[c] = "create"
    BY <1>2 DEF Create, InCall, Requests
  <2>2. own \in Budget
    BY <2>1 DEF Budget, Connecting
  <2>3. pc'[c] = "store" /\ left' = left /\ \A d \in Callers \ {c} : pc'[d] = pc[d]
    BY <1>2 DEF Create, Go, callerVars, CallerTypes
  <2>4. Budget' \subseteq Budget \ {own}
    BY <2>3 DEF Budget, Connecting, CallerTypes
  <2>5. IsFiniteSet(Budget \ {own}) /\ Cardinality(Budget \ {own}) = Cardinality(Budget) - 1
    BY <2>2, BudgetFinite, FS_RemoveElement
  <2>6. Cardinality(Budget') <= Cardinality(Budget) - 1 /\ Cardinality(Budget') \in Nat
    BY <2>4, <2>5, FS_Subset, FS_CardinalityType
  <2>7. conns' = conns + 1
    BY <1>2 DEF Create
  <2> QED
    BY <2>6, <2>7, BudgetFinite DEF ConnsBounded, ConnTypes
<1>3. ASSUME NEW c \in Callers, Invoke(c) PROVE Budget' \subseteq Budget
  <2>1. /\ left'[c] = left[c] - 1 /\ left[c] \in Nat
        /\ \A d \in Callers \ {c} : left'[d] = left[d] /\ pc'[d] = pc[d]
    BY <1>3 DEF Invoke, Go, CallerTypes
  <2> SUFFICES ASSUME NEW x \in Callers \X (1..Calls), x \in Budget' PROVE x \in Budget
    BY DEF Budget
  <2>2. CASE x[1] = c
    <3>1. x[2] <= left[c]
      BY <2>1, <2>2 DEF Budget
    <3> QED
      BY <2>2, <3>1 DEF Budget
  <2>3. CASE x[1] # c
    BY <2>1, <2>3 DEF Budget
  <2> QED
    BY <2>2, <2>3
<1>4. ASSUME NEW c \in Callers, CallerStep(c), ~Create(c), ~Invoke(c)
      PROVE  Budget' \subseteq Budget /\ conns' = conns
  <2>1. left' = left /\ \A d \in Callers : pc'[d] \in Connecting => pc[d] \in Connecting
    BY <1>4, NextPlace, OthersStay
  <2>2. conns' = conns
    BY <1>4 DEF CallerStep, GetPool, NewPool, Pick, Lock, Refused, Store, Return, AddCallBack,
                Write, GetInterrupted
  <2> QED
    BY <2>1, <2>2 DEF Budget
<1>5. ASSUME NEW k \in Conns, ServerRead(k) \/ ServerRun(k) \/ Response(k) \/ Close(k)
      PROVE  Budget' \subseteq Budget /\ conns' = conns
  <2>1. \A d \in Callers : pc'[d] \in {pc[d], "idle"}
    BY <1>5, OthersStay
  <2>2. conns' = conns /\ left' = left
    BY <1>5 DEF ServerRead, ServerRun, Response, Close, callerVars
  <2> QED
    BY <2>1, <2>2 DEF Budget, Connecting
<1>6. CASE UNCHANGED vars
  BY <1>1, <1>6 DEF vars, Budget
<1>7. ASSUME NEW c \in Callers, Invoke(c) PROVE conns' = conns
  BY <1>7 DEF Invoke
<1> QED
  BY <1>1, <1>2, <1>3, <1>4, <1>5, <1>6, <1>7, NextSplit

LEMMA NextTypeInv ==
    ASSUME IsFiniteSet(Callers)
    PROVE  TypeInv /\ [Next]_vars => TypeInv'
<1> SUFFICES ASSUME TypeInv, [Next]_vars PROVE TypeInv'
  OBVIOUS
<1>1. CallerTypes' /\ PoolTypes' /\ ConnTypes' /\ NetTypes'
  BY NextCallerTypes, NextPoolTypes, NextConnTypes, NextNetTypes
<1>2. PoolKnown' /\ InCall' /\ ConnsBounded'
  BY NextPoolKnown, NextInCall, NextConnsBounded
<1> QED
  BY <1>1, <1>2 DEF TypeInv

\* Types hold with every fault and in both copies: whole requests and responses
\* on the connections, locals of getClient that name pools and connections that
\* were made, and no more connections than calls.
THEOREM TypeCorrect ==
    ASSUME IsFiniteSet(Callers)
    PROVE  Spec => []TypeOK
<1>1. Init => TypeInv
  BY InitTypeInv
<1>2. TypeInv => TypeOK
  BY TypesSplit DEF TypeInv
<1> QED
  BY <1>1, <1>2, NextTypeInv, PTL DEF Spec

-----------------------------------------------------------------------------
(* Answers                                                                 *)

\* A response under way carries what its request's method returned.
ValuesRight ==
    \A k \in Conns : \A i \in 1..Len(toClient[k]) :
        toClient[k][i].value = Invoked(toClient[k][i].id)

LEMMA NextValuesRight ==
    ASSUME TypeInv, ValuesRight, [Next]_vars
    PROVE  ValuesRight'
<1> USE DEF ValuesRight, NetTypes
<1> NetTypes
  BY DEF TypeInv
<1>1. CASE UNCHANGED toClient
  BY <1>1
<1>2. ASSUME NEW k \in Conns, ServerRun(k) PROVE ValuesRight'
  <2> DEFINE new == Reply(Head(tasks[k]))
  <2>1. \/ toClient' = toClient
        \/ toClient' = [toClient EXCEPT ![k] = Append(@, new)]
    BY <1>2 DEF ServerRun
  <2>2. new.value = Invoked(new.id)
    BY DEF Reply
  <2>3. Head(tasks[k]) \in Requests
    BY <1>2, HeadsTyped DEF ServerRun
  <2>4. new \in Responses
    BY <2>3 DEF Reply, Invoked, Responses
  <2> HIDE DEF new
  <2>5. \A i \in 1..Len(Append(toClient[k], new)) :
           \/ i \in 1..Len(toClient[k]) /\ Append(toClient[k], new)[i] = toClient[k][i]
           \/ Append(toClient[k], new)[i] = new
    BY <2>4
  <2> SUFFICES ASSUME NEW l \in Conns, NEW i \in 1..Len(toClient'[l])
               PROVE  toClient'[l][i].value = Invoked(toClient'[l][i].id)
    BY DEF Invoked
  <2>6. CASE toClient'[l] = toClient[l]
    BY <2>6
  <2>7. CASE l = k /\ toClient'[l] = Append(toClient[k], new)
    BY <2>2, <2>5, <2>7
  <2> QED
    BY <2>1, <2>6, <2>7
<1>3. ASSUME NEW k \in Conns, Response(k) PROVE ValuesRight'
  <2>1. toClient' = [toClient EXCEPT ![k] = Tail(@)] /\ toClient[k] # <<>>
    BY <1>3 DEF Response
  <2>2. \A i \in 1..Len(Tail(toClient[k])) : /\ i + 1 \in 1..Len(toClient[k])
                                             /\ Tail(toClient[k])[i] = toClient[k][i + 1]
    BY <2>1
  <2> QED
    BY <2>1, <2>2
<1>4. ASSUME NEW k \in Conns, Close(k) PROVE ValuesRight'
  BY <1>4 DEF Close
<1>5. ASSUME NEW c \in Callers, CallerStep(c) PROVE UNCHANGED toClient
  BY <1>5 DEF CallerStep, Invoke, GetPool, NewPool, Pick, Lock, Create, Refused, Store, Return,
              AddCallBack, Write, GetInterrupted, netVars
<1>6. ASSUME NEW k \in Conns, ServerRead(k) PROVE UNCHANGED toClient
  BY <1>6 DEF ServerRead
<1>7. UNCHANGED vars => UNCHANGED toClient
  BY DEF vars
<1> QED
  BY <1>1, <1>2, <1>3, <1>4, <1>5, <1>6, <1>7, NextSplit

\* The answer caller d has is its own.
OwnAnswer(d) ==
    answer[d] # Failed => /\ answer[d].id.caller = d
                          /\ pc[d] = "idle" => answer[d].id = req[d]
                          /\ answer[d].value = Invoked(answer[d].id)

LEMMA NextRightAnswer ==
    ASSUME TypeInv, ValuesRight, RightAnswer, [Next]_vars
    PROVE  RightAnswer'
<1> SUFFICES ASSUME NEW d \in Callers PROVE OwnAnswer(d)'
  BY DEF RightAnswer, OwnAnswer
<1> OwnAnswer(d) /\ CallerTypes /\ NetTypes
  BY DEF TypeInv, RightAnswer, OwnAnswer
<1>1. CASE UNCHANGED vars
  BY <1>1 DEF vars, OwnAnswer
<1>2. ASSUME answer'[d] = answer[d], req'[d] = req[d], pc'[d] = "idle" => pc[d] = "idle"
      PROVE  OwnAnswer(d)'
  BY <1>2 DEF OwnAnswer, Invoked
<1>3. ASSUME answer'[d] = Failed PROVE OwnAnswer(d)'
  BY <1>3 DEF OwnAnswer
<1>4. ASSUME NEW c \in Callers, CallerStep(c), d # c PROVE OwnAnswer(d)'
  <2>1. answer'[d] = answer[d]
    <3>1. CASE Invoke(c)
      BY <1>4, <3>1, InvokeCalls DEF CallerTypes
    <3>2. CASE Refused(c) \/ Write(c) \/ GetInterrupted(c)
      BY <1>4, <3>2 DEF Refused, Write, GetInterrupted, Throw, CallerTypes
    <3>3. CASE GetPool(c) \/ NewPool(c) \/ Pick(c) \/ Lock(c) \/ Create(c) \/ Store(c)
                 \/ Return(c) \/ AddCallBack(c)
      BY <3>3 DEF GetPool, NewPool, Pick, Lock, Create, Store, Return, AddCallBack
    <3> QED
      BY <1>4, <3>1, <3>2, <3>3 DEF CallerStep
  <2> QED
    BY <1>2, <1>4, <2>1, OthersStay
<1>5. CASE Invoke(d)
  <2>1. PICK call \in Requests :
             /\ call.caller = d
             /\ req' = [req EXCEPT ![d] = call]
             /\ \/ /\ answer' = [answer EXCEPT ![d] = [id |-> call, value |-> "result"]]
                   /\ call.kind = "local"
                   /\ UNCHANGED pc
                \/ Go(d, "pool") /\ UNCHANGED answer
    BY <1>5, InvokeCalls
  <2>2. CASE Go(d, "pool") /\ UNCHANGED answer
    BY <2>2 DEF OwnAnswer, Go, CallerTypes, Invoked
  <2>3. CASE /\ answer' = [answer EXCEPT ![d] = [id |-> call, value |-> "result"]]
             /\ call.kind = "local"
    <3>1. answer'[d] = [id |-> call, value |-> "result"] /\ req'[d] = call
      BY <2>1, <2>3 DEF CallerTypes
    <3>2. Invoked(call) = "result"
      BY <2>3 DEF Invoked
    <3> QED
      BY <2>1, <3>1, <3>2 DEF OwnAnswer, Invoked
  <2> QED
    BY <2>1, <2>2, <2>3
<1>6. CASE Refused(d) \/ GetInterrupted(d)
  BY <1>3, <1>6 DEF Refused, GetInterrupted, Throw, CallerTypes
<1>7. CASE Write(d)
  <2>1. Throw(d) \/ (Go(d, "wait") /\ answer' = answer)
    BY <1>7 DEF Write
  <2>2. req' = req
    BY <1>7 DEF Write, callerVars
  <2>3. CASE Throw(d)
    BY <1>3, <2>3 DEF Throw, CallerTypes
  <2>4. CASE Go(d, "wait") /\ answer' = answer
    BY <1>2, <2>2, <2>4 DEF Go, CallerTypes
  <2> QED
    BY <2>1, <2>3, <2>4
<1>8. CASE GetPool(d) \/ NewPool(d) \/ Pick(d) \/ Lock(d) \/ Create(d) \/ Store(d) \/ Return(d)
             \/ AddCallBack(d)
  <2>1. answer' = answer /\ req' = req /\ pc'[d] # "idle"
    BY <1>8 DEF GetPool, NewPool, Pick, Lock, Create, Store, Return, AddCallBack, callerVars, Go,
                CallerTypes
  <2> QED
    BY <1>2, <2>1
<1>9. ASSUME NEW k \in Conns, ServerRead(k) \/ ServerRun(k) \/ Close(k) PROVE OwnAnswer(d)'
  BY <1>2, <1>9 DEF ServerRead, ServerRun, Close, callerVars
<1>10. ASSUME NEW k \in Conns, Response(k) PROVE OwnAnswer(d)'
  <2> DEFINE r == Head(toClient[k])
  <2>1. r \in Responses /\ r.value = Invoked(r.id) /\ r.id \in Requests
    <3>1. toClient[k] # <<>> /\ toClient[k] \in Seq(Responses)
      BY <1>10 DEF Response, NetTypes
    <3>2. 1 \in 1..Len(toClient[k]) /\ r = toClient[k][1]
      BY <3>1
    <3>3. r \in Responses
      BY <3>1
    <3>4. r.value = Invoked(r.id)
      BY <3>2 DEF ValuesRight, Invoked
    <3> QED
      BY <3>3, <3>4 DEF Responses
  <2>2. /\ req' = req
        /\ \/ UNCHANGED <<pc, answer>>
           \/ /\ req[r.id.caller] = r.id
              /\ answer' = [answer EXCEPT ![r.id.caller] = r]
              /\ Go(r.id.caller, "idle")
    BY <1>10 DEF Response, Callback, callerVars
  <2> HIDE DEF r
  <2>3. CASE UNCHANGED <<pc, answer>>
    BY <1>2, <2>2, <2>3
  <2>4. CASE /\ req[r.id.caller] = r.id
             /\ answer' = [answer EXCEPT ![r.id.caller] = r]
             /\ Go(r.id.caller, "idle")
    <3>1. CASE d = r.id.caller
      <4>1. answer'[d] = r /\ req'[d] = r.id
        BY <2>2, <2>4, <3>1 DEF CallerTypes
      <4> QED
        BY <2>1, <3>1, <4>1 DEF OwnAnswer, Invoked
    <3>2. CASE d # r.id.caller
      BY <1>2, <2>2, <2>4, <3>2 DEF Go, CallerTypes
    <3> QED
      BY <3>1, <3>2
  <2> QED
    BY <2>2, <2>3, <2>4
<1> QED
  BY <1>1, <1>4, <1>5, <1>6, <1>7, <1>8, <1>9, <1>10, NextSplit DEF CallerStep

\* With every fault and in both copies, a call that returns an answer returns the
\* result of its own request, in whatever order the responses arrive.
THEOREM AnswersRight ==
    ASSUME IsFiniteSet(Callers)
    PROVE  Spec => []RightAnswer
<1>1. Init => TypeInv /\ ValuesRight /\ RightAnswer
  BY InitTypeInv DEF Init, ValuesRight, RightAnswer
<1>2. TypeInv /\ ValuesRight /\ RightAnswer /\ [Next]_vars
        => (TypeInv /\ ValuesRight /\ RightAnswer)'
  BY NextTypeInv, NextValuesRight, NextRightAnswer
<1> QED
  BY <1>1, <1>2, PTL DEF Spec

-----------------------------------------------------------------------------
(* The slots of the pools, when no caller is interrupted                   *)

\* What a step of caller c does to the slots: Store fills the caller's own, and
\* the caller's own lock is taken free or given back.
LEMMA SlotsStep ==
    ASSUME TypeInv, NEW c \in Callers, CallerStep(c),
           NEW q \in 1..Len(pools), NEW j \in Slots
    PROVE  /\ q \in 1..Len(pools')
           /\ \/ pools'[q].clients[j] = pools[q].clients[j]
              \/ /\ Store(c) /\ q = pool[c] /\ j = slot[c]
                 /\ pools'[q].clients[j] = chan[c]
           /\ \/ pools'[q].lock[j] = pools[q].lock[j]
              \/ /\ Lock(c) /\ q = pool[c] /\ j = slot[c] /\ pc'[c] = "create"
                 /\ pools[q].lock[j] = None
              \/ /\ Store(c) \/ Refused(c)
                 /\ q = pool[c] /\ j = slot[c]
           /\ q = pool[c] /\ j = slot[c] =>
                /\ Lock(c) /\ pc'[c] = "create" => pools'[q].lock[j] = c
                /\ Store(c) => pools'[q].clients[j] = chan[c]
                /\ Store(c) \/ Refused(c) => pools'[q].lock[j] = None
<1> PoolTypes /\ CallerTypes /\ ConnTypes /\ PoolKnown
  BY DEF TypeInv
<1>1. pc[c] \in {"lock", "create", "store"} => pool[c] \in 1..Len(pools) /\ slot[c] \in Slots
  BY DEF PoolKnown, PoolTypes, Null
<1>2. CASE Store(c)
  <2> DEFINE stored == SetClient(pools, pool[c], slot[c], chan[c])
  <2>1. /\ pool[c] \in 1..Len(pools) /\ slot[c] \in Slots /\ chan[c] \in Conns \cup {Null}
        /\ pc[c] = "store"
    BY <1>1, <1>2 DEF Store, ConnTypes
  <2>2. pools' = SetLock(stored, pool[c], slot[c], None)
    BY <1>2 DEF Store, SetLock, SetClient
  <2>3. /\ stored \in Seq(Pools) /\ Len(stored) = Len(pools)
        /\ ClientChanged(stored, pools, pool[c], slot[c], chan[c])
    BY <2>1, SetClientSpec DEF PoolTypes
  <2> HIDE DEF stored
  <2>4. LockChanged(pools', stored, pool[c], slot[c], None)
    BY <2>1, <2>2, <2>3, SetLockSpec
  <2>5. ~Lock(c)
    BY <2>1 DEF Lock
  <2>6. /\ Len(pools') = Len(pools)
        /\ pools'[q].clients = stored[q].clients
        /\ pools'[q].lock[j] = IF q = pool[c] /\ j = slot[c] THEN None ELSE stored[q].lock[j]
    BY <2>3, <2>4 DEF LockChanged
  <2>7. /\ stored[q].lock = pools[q].lock
        /\ stored[q].clients[j] =
             IF q = pool[c] /\ j = slot[c] THEN chan[c] ELSE pools[q].clients[j]
    BY <2>3 DEF ClientChanged
  <2> QED
    BY <1>2, <2>5, <2>6, <2>7
<1>3. CASE Refused(c)
  <2>1. pool[c] \in 1..Len(pools) /\ slot[c] \in Slots /\ pc[c] = "create"
    BY <1>1, <1>3 DEF Refused
  <2>2. pools' = SetLock(pools, pool[c], slot[c], None)
    BY <1>3 DEF Refused, SetLock
  <2>3. LockChanged(pools', pools, pool[c], slot[c], None)
    BY <2>1, <2>2, SetLockSpec DEF PoolTypes
  <2>4. ~Lock(c) /\ ~Store(c)
    BY <2>1 DEF Lock, Store
  <2> QED
    BY <1>3, <2>3, <2>4 DEF LockChanged
<1>4. CASE Lock(c)
  <2>1. /\ pool[c] \in 1..Len(pools) /\ slot[c] \in Slots /\ pc[c] = "lock" /\ Owner(c) = None
        /\ ~Store(c) /\ ~Refused(c)
    BY <1>1, <1>4 DEF Lock, Store, Refused
  <2>2. CASE pc'[c] # "create"
    <3>1. pools' = pools
      BY <1>4, <2>2 DEF Lock, Go, CallerTypes
    <3> QED
      BY <2>1, <2>2, <3>1
  <2>3. CASE pc'[c] = "create"
    <3>1. pools' = SetLock(pools, pool[c], slot[c], c)
      BY <1>4, <2>3 DEF Lock, Go, CallerTypes, SetLock
    <3>2. LockChanged(pools', pools, pool[c], slot[c], c)
      BY <2>1, <3>1, SetLockSpec DEF PoolTypes
    <3> QED
      BY <1>4, <2>1, <2>3, <3>2 DEF Owner, LockChanged
  <2> QED
    BY <2>2, <2>3
<1>5. CASE NewPool(c)
  <2> DEFINE new == [clients |-> [i \in Slots |-> Null], lock |-> [i \in Slots |-> None]]
  <2>1. pools' = Append(pools, new) /\ ~Lock(c) /\ ~Store(c) /\ ~Refused(c)
    BY <1>5 DEF NewPool, Lock, Store, Refused
  <2> HIDE DEF new
  <2>2. Len(pools') = Len(pools) + 1 /\ pools'[q] = pools[q] /\ Len(pools) \in Nat
    BY <2>1 DEF PoolTypes
  <2> QED
    BY <2>1, <2>2
<1>6. CASE \/ Invoke(c) \/ GetPool(c) \/ Pick(c) \/ Create(c) \/ Return(c) \/ AddCallBack(c)
           \/ Write(c) \/ GetInterrupted(c)
  <2>1. pools' = pools /\ (pc[c] \notin {"lock", "store", "create"} \/ Create(c))
    BY <1>6 DEF Invoke, GetPool, Pick, Create, Return, AddCallBack, Write, GetInterrupted, poolVars
  <2>2. ~Lock(c) /\ ~Store(c) /\ ~Refused(c)
    BY <1>6, <2>1 DEF Create, Lock, Store, Refused, Go, Throw, TypeInv, CallerTypes
  <2> QED
    BY <2>1, <2>2
<1> QED
  BY <1>2, <1>3, <1>4, <1>5, <1>6 DEF CallerStep

\* Only NewPool changes the number of pools.
LEMMA PoolsCount ==
    ASSUME TypeInv, NEW c \in Callers, CallerStep(c), ~NewPool(c)
    PROVE  Len(pools') = Len(pools)
<1> PoolTypes /\ ConnTypes /\ PoolKnown
  BY DEF TypeInv
<1>1. pc[c] \in {"lock", "create", "store"} => pool[c] \in 1..Len(pools) /\ slot[c] \in Slots
  BY DEF PoolKnown, PoolTypes, Null
<1>2. CASE Lock(c) \/ Refused(c)
  <2>1. pool[c] \in 1..Len(pools) /\ slot[c] \in Slots
    BY <1>1, <1>2 DEF Lock, Refused
  <2>2. \/ pools' = pools
        \/ \E v \in Callers \cup {None} : pools' = SetLock(pools, pool[c], slot[c], v)
    BY <1>2 DEF Lock, Refused, SetLock
  <2> QED
    BY <2>1, <2>2, SetLockSpec DEF PoolTypes
<1>3. CASE Store(c)
  <2> DEFINE stored == SetClient(pools, pool[c], slot[c], chan[c])
  <2>1. pool[c] \in 1..Len(pools) /\ slot[c] \in Slots /\ chan[c] \in Conns \cup {Null}
    BY <1>1, <1>3 DEF Store, ConnTypes
  <2>2. pools' = SetLock(stored, pool[c], slot[c], None)
    BY <1>3 DEF Store, SetLock, SetClient
  <2>3. stored \in Seq(Pools) /\ Len(stored) = Len(pools)
    BY <2>1, SetClientSpec DEF PoolTypes
  <2> HIDE DEF stored
  <2> QED
    BY <2>1, <2>2, <2>3, SetLockSpec
<1>4. CASE \/ Invoke(c) \/ GetPool(c) \/ Pick(c) \/ Create(c) \/ Return(c) \/ AddCallBack(c)
           \/ Write(c) \/ GetInterrupted(c)
  BY <1>4 DEF Invoke, GetPool, Pick, Create, Return, AddCallBack, Write, GetInterrupted, poolVars
<1> QED
  BY <1>2, <1>3, <1>4 DEF CallerStep

\* The event loops touch no slot, and connections only break.
LEMMA LoopsStep ==
    ASSUME NEW k \in Conns, ServerRead(k) \/ ServerRun(k) \/ Response(k) \/ Close(k)
    PROVE  /\ UNCHANGED <<pools, outbox, pool, slot, monitor, chan, conns>>
           /\ open' \subseteq open
  BY DEF ServerRead, ServerRun, Response, Close, poolVars

\* A step of one caller leaves the locals of the others alone.
LEMMA LocalsStay ==
    ASSUME CallerTypes, PoolTypes, ConnTypes,
           NEW c \in Callers, CallerStep(c), NEW d \in Callers, d # c
    PROVE  pool'[d] = pool[d] /\ slot'[d] = slot[d] /\ chan'[d] = chan[d]
<1> USE DEF PoolTypes, ConnTypes
<1>1. CASE Invoke(c) \/ GetPool(c) \/ NewPool(c) \/ Pick(c) \/ Lock(c) \/ Create(c)
  BY <1>1 DEF Invoke, GetPool, NewPool, Pick, Lock, Create, poolVars
<1>2. CASE Refused(c) \/ Store(c) \/ Return(c) \/ AddCallBack(c) \/ Write(c) \/ GetInterrupted(c)
  BY <1>2 DEF Refused, Store, Return, AddCallBack, Write, GetInterrupted, poolVars
<1> QED
  BY <1>1, <1>2 DEF CallerStep

\* Connections in slots have been made; new ones have new numbers.
ClientsMade == \A p \in 1..Len(pools), i \in Slots : pools[p].clients[i] <= conns

LEMMA OpenStep ==
    ASSUME TypeInv, NEW c \in Callers, CallerStep(c)
    PROVE  \/ conns' = conns /\ open' = open
           \/ /\ Create(c) /\ conns' = conns + 1
              /\ open' \subseteq open \cup {conns + 1}
              /\ "interrupt" \notin Faults => chan'[c] = conns + 1
<1>1. CASE Create(c)
  BY <1>1 DEF Create, TypeInv, ConnTypes
<1>2. CASE ~Create(c)
  BY <1>2 DEF CallerStep, Invoke, GetPool, NewPool, Pick, Lock, Refused, Store, Return,
              AddCallBack, Write, GetInterrupted
<1> QED
  BY <1>1, <1>2

\* Who is between Lock and Store has the lock of its slot, and the connection the
\* slot still names is broken.
LockOwned ==
    \A c \in Callers : pc[c] \in {"create", "store"} => Owner(c) = c /\ Slot(c) \notin open

\* The connections at hand, of those that nobody was interrupted while making.
ChanKnown ==
    \A c \in Callers :
        /\ pc[c] = "store" => chan[c] = Null \/ chan[c] <= conns
        /\ "interrupt" \notin Faults =>
             /\ pc[c] \in {"store", "add", "write"} => chan[c] # Null
             /\ pc[c] = "return" => Slot(c) # Null

SlotInv == ClientsMade /\ LockOwned /\ ChanKnown /\ NoStrayConnection

\* The slot a caller works on, while it has one.
LEMMA SlotsInRange ==
    ASSUME TypeInv, NEW c \in Callers,
           pc[c] \in {"pick", "lock", "create", "store", "return"}
    PROVE  /\ pool[c] \in 1..Len(pools) /\ slot[c] \in Slots
           /\ Slot(c) \in Conns \cup {Null}
<1>1. pool[c] \in 1..Len(pools) /\ slot[c] \in Slots
  BY DEF TypeInv, PoolKnown, PoolTypes, Null
<1>2. pools[pool[c]] \in Pools
  BY <1>1 DEF TypeInv, PoolTypes
<1> QED
  BY <1>1, <1>2 DEF Slot, Pools

LEMMA NextClientsMade ==
    ASSUME IsFiniteSet(Callers), TypeInv, ClientsMade, ChanKnown, [Next]_vars
    PROVE  ClientsMade'
<1> PoolTypes /\ ConnTypes /\ Total \in Nat
  BY TotalIsNat DEF TypeInv
<1>1. CASE UNCHANGED vars
  BY <1>1 DEF vars, ClientsMade
<1>2. ASSUME NEW k \in Conns, ServerRead(k) \/ ServerRun(k) \/ Response(k) \/ Close(k)
      PROVE  ClientsMade'
  BY <1>2, LoopsStep DEF ClientsMade
<1>3. ASSUME NEW c \in Callers, CallerStep(c) PROVE ClientsMade'
  <2>1. conns' >= conns /\ conns' \in Nat /\ conns \in Nat
    BY <1>3, OpenStep DEF ConnTypes
  <2> SUFFICES ASSUME NEW q \in 1..Len(pools'), NEW j \in Slots
               PROVE  pools'[q].clients[j] <= conns'
    BY DEF ClientsMade
  <2>2. CASE q \in 1..Len(pools)
    <3>1. CASE pools'[q].clients[j] = pools[q].clients[j]
      <4>1. pools[q].clients[j] \in Nat /\ pools[q].clients[j] <= conns
        <5>1. pools[q] \in Pools
          BY <2>2 DEF PoolTypes
        <5> QED
          BY <2>2, <5>1 DEF ClientsMade, Pools, Conns, Null
      <4> QED
        BY <2>1, <3>1, <4>1
    <3>2. CASE Store(c) /\ pools'[q].clients[j] = chan[c]
      <4>1. chan[c] = Null \/ chan[c] <= conns
        BY <3>2 DEF Store, ChanKnown
      <4>2. chan[c] \in Nat
        BY DEF ConnTypes, Conns, Null
      <4> QED
        BY <2>1, <3>2, <4>1, <4>2 DEF Null
    <3> QED
      BY <1>3, <2>2, <3>1, <3>2, SlotsStep
  <2>3. CASE q \notin 1..Len(pools)
    <3>1. NewPool(c)
      BY <1>3, <2>3, PoolsCount
    <3> DEFINE new == [clients |-> [i \in Slots |-> Null], lock |-> [i \in Slots |-> None]]
    <3>2. pools' = Append(pools, new) /\ new.clients[j] = Null
      BY <3>1 DEF NewPool
    <3> HIDE DEF new
    <3>3. q = Len(pools) + 1 /\ pools'[q] = new
      BY <2>3, <3>2 DEF PoolTypes
    <3> QED
      BY <2>1, <3>2, <3>3 DEF Null
  <2> QED
    BY <2>2, <2>3
<1> QED
  BY <1>1, <1>2, <1>3, NextSplit

LEMMA NextLockOwned ==
    ASSUME IsFiniteSet(Callers), TypeInv, ClientsMade, LockOwned, [Next]_vars
    PROVE  LockOwned'
<1> SUFFICES ASSUME NEW d \in Callers, pc'[d] \in {"create", "store"}
             PROVE  Owner(d)' = d /\ Slot(d)' \notin open'
  BY DEF LockOwned
<1> CallerTypes /\ PoolTypes /\ ConnTypes /\ Total \in Nat
  BY TotalIsNat DEF TypeInv
<1>1. CASE UNCHANGED vars
  BY <1>1 DEF vars, LockOwned, Owner, Slot
<1>2. ASSUME NEW k \in Conns, ServerRead(k) \/ ServerRun(k) \/ Response(k) \/ Close(k)
      PROVE  Owner(d)' = d /\ Slot(d)' \notin open'
  <2>1. pc[d] \in {"create", "store"}
    BY <1>2, OthersStay
  <2> QED
    BY <1>2, <2>1, LoopsStep DEF LockOwned, Owner, Slot
\* A slot in use does not get the number of a connection made now.
<1>3. ASSUME NEW c \in Callers, CallerStep(c), pool[d] \in 1..Len(pools), slot[d] \in Slots,
             Slot(d) \notin open
      PROVE  Slot(d) \notin open'
  <2>1. pools[pool[d]] \in Pools
    BY <1>3 DEF PoolTypes
  <2>2. Slot(d) \in Nat /\ Slot(d) <= conns /\ conns \in Nat
    BY <1>3, <2>1 DEF ClientsMade, Slot, Pools, Conns, Null, ConnTypes
  <2> QED
    BY <1>3, <2>2, OpenStep
<1>4. ASSUME NEW c \in Callers, CallerStep(c), d # c
      PROVE  Owner(d)' = d /\ Slot(d)' \notin open'
  <2>1. /\ pc[d] \in {"create", "store"} /\ pool'[d] = pool[d] /\ slot'[d] = slot[d]
        /\ pool[d] \in 1..Len(pools) /\ slot[d] \in Slots
    BY <1>4, OthersStay, LocalsStay, SlotsInRange
  <2>2. Owner(d) = d /\ Slot(d) \notin open
    BY <2>1 DEF LockOwned
  <2>3. ASSUME Store(c) \/ Refused(c) PROVE ~(pool[d] = pool[c] /\ slot[d] = slot[c])
    <3>1. Owner(c) = c
      BY <2>3 DEF LockOwned, Store, Refused
    <3> QED
      BY <1>4, <2>2, <3>1 DEF Owner
  <2>4. pools'[pool[d]].clients[slot[d]] = Slot(d)
    BY <1>4, <2>1, <2>3, SlotsStep DEF Slot
  <2>5. pools'[pool[d]].lock[slot[d]] = d
    BY <1>4, <2>1, <2>2, <2>3, SlotsStep, CallersAssumption DEF Owner
  <2> QED
    BY <1>3, <1>4, <2>1, <2>2, <2>4, <2>5 DEF Owner, Slot
<1>5. CASE Lock(d)
  <2>1. /\ pool[d] \in 1..Len(pools) /\ slot[d] \in Slots
        /\ pool' = pool /\ slot' = slot /\ open' = open /\ CallerStep(d)
    BY <1>5, SlotsInRange DEF Lock, CallerStep
  <2>2. pc'[d] = "create" /\ Slot(d) \notin open
    BY <1>5 DEF Lock, Go, Recheck, CallerTypes
  <2>3. pools'[pool[d]].lock[slot[d]] = d
    BY <1>5, <2>1, <2>2, SlotsStep
  <2>4. pools'[pool[d]].clients[slot[d]] = Slot(d)
    <3>1. ~Store(d)
      BY <1>5 DEF Store, Lock
    <3> QED
      BY <2>1, <3>1, SlotsStep DEF Slot
  <2> QED
    BY <2>1, <2>2, <2>3, <2>4 DEF Owner, Slot
<1>6. CASE Create(d)
  <2>1. /\ UNCHANGED poolVars /\ pc[d] = "create" /\ CallerStep(d)
        /\ pool[d] \in 1..Len(pools) /\ slot[d] \in Slots
    BY <1>6, SlotsInRange DEF Create, CallerStep
  <2> QED
    BY <1>3, <2>1 DEF LockOwned, Owner, Slot, poolVars
<1>7. CASE \/ Invoke(d) \/ GetPool(d) \/ NewPool(d) \/ Pick(d) \/ Refused(d) \/ Store(d)
           \/ Return(d) \/ AddCallBack(d) \/ Write(d) \/ GetInterrupted(d)
  <2>1. pc'[d] \notin {"create", "store"}
    BY <1>7 DEF Invoke, GetPool, NewPool, Pick, Refused, Store, Return, AddCallBack, Write,
                GetInterrupted, Throw, Go, CallerTypes
  <2> QED
    BY <2>1
<1> QED
  BY <1>1, <1>2, <1>4, <1>5, <1>6, <1>7, NextSplit DEF CallerStep

LEMMA NextChanKnown ==
    ASSUME IsFiniteSet(Callers), TypeInv, ChanKnown, [Next]_vars
    PROVE  ChanKnown'
<1> DEFINE Known(d) ==
      /\ pc[d] = "store" => chan[d] = Null \/ chan[d] <= conns
      /\ "interrupt" \notin Faults =>
           /\ pc[d] \in {"store", "add", "write"} => chan[d] # Null
           /\ pc[d] = "return" => Slot(d) # Null
<1> SUFFICES ASSUME NEW d \in Callers PROVE Known(d)'
  BY DEF ChanKnown
<1> /\ CallerTypes /\ PoolTypes /\ ConnTypes /\ Total \in Nat
    /\ conns \in Nat /\ chan[d] \in Nat
  BY TotalIsNat DEF TypeInv, ConnTypes, Conns, Null
<1>0. Known(d)
  BY DEF ChanKnown
<1>1. CASE UNCHANGED vars
  BY <1>0, <1>1 DEF vars, Slot
<1>2. ASSUME NEW k \in Conns, ServerRead(k) \/ ServerRun(k) \/ Response(k) \/ Close(k)
      PROVE  Known(d)'
  BY <1>0, <1>2, OthersStay, LoopsStep DEF Slot
<1>3. ASSUME NEW c \in Callers, CallerStep(c), d # c PROVE Known(d)'
  <2>1. /\ pc'[d] = pc[d] /\ chan'[d] = chan[d] /\ pool'[d] = pool[d] /\ slot'[d] = slot[d]
        /\ conns' >= conns /\ conns' \in Nat
    BY <1>3, OthersStay, LocalsStay, OpenStep
  <2>2. ASSUME pc[d] = "return", "interrupt" \notin Faults PROVE Slot(d)' # Null
    <3>1. pool[d] \in 1..Len(pools) /\ slot[d] \in Slots /\ Slot(d) # Null
      BY <1>0, <2>2, SlotsInRange
    <3>2. ASSUME Store(c) PROVE chan[c] # Null
      BY <2>2, <3>2 DEF Store, ChanKnown
    <3> QED
      BY <1>3, <2>1, <3>1, <3>2, SlotsStep DEF Slot
  <2> QED
    BY <1>0, <2>1, <2>2
<1>4. CASE Pick(d)
  <2>1. PICK i \in Slots :
           /\ slot' = [slot EXCEPT ![d] = i]
           /\ Go(d, IF pools[pool[d]].clients[i] \in open THEN "return" ELSE "lock")
    BY <1>4 DEF Pick
  <2>2. /\ pc'[d] \in {"return", "lock"} /\ pools' = pools /\ pool' = pool /\ slot'[d] = i
        /\ pc'[d] = "return" => pools[pool[d]].clients[i] \in open
    BY <1>4, <2>1 DEF Pick, Go, CallerTypes, PoolTypes
  <2> QED
    BY <2>2 DEF Slot, ConnTypes, Null
<1>5. CASE Lock(d)
  <2>1. /\ pc'[d] \in {"return", "create"} /\ pool' = pool /\ slot' = slot
        /\ pc'[d] = "return" => pools' = pools /\ Slot(d) \in open
    BY <1>5 DEF Lock, Recheck, Go, CallerTypes
  <2> QED
    BY <2>1 DEF Slot, ConnTypes, Null
<1>6. CASE Create(d)
  <2>1. /\ pc'[d] = "store" /\ conns' = conns + 1
        /\ \/ chan'[d] = conns'
           \/ "interrupt" \in Faults /\ chan'[d] = Null
    BY <1>6 DEF Create, Go, CallerTypes, ConnTypes
  <2> QED
    BY <2>1 DEF Null
<1>7. CASE Store(d)
  <2>1. /\ pc[d] = "store" /\ pc'[d] = "return" /\ UNCHANGED <<pool, slot, chan>>
        /\ pool[d] \in 1..Len(pools) /\ slot[d] \in Slots /\ CallerStep(d)
    BY <1>7, SlotsInRange DEF Store, Go, CallerTypes, CallerStep
  <2>2. Slot(d)' = chan[d]
    BY <1>7, <2>1, SlotsStep DEF Slot
  <2> QED
    BY <1>0, <2>1, <2>2
<1>8. CASE Return(d)
  <2>1. pc[d] = "return" /\ pc'[d] = "add" /\ chan'[d] = Slot(d)
    BY <1>8 DEF Return, Go, CallerTypes, ConnTypes
  <2> QED
    BY <1>0, <2>1
<1>9. CASE AddCallBack(d)
  <2>1. pc[d] = "add" /\ pc'[d] = "write" /\ chan' = chan
    BY <1>9 DEF AddCallBack, Go, CallerTypes
  <2> QED
    BY <1>0, <2>1
<1>10. CASE Invoke(d) \/ GetPool(d) \/ NewPool(d) \/ Refused(d) \/ Write(d) \/ GetInterrupted(d)
  <2>1. pc'[d] \notin {"store", "add", "write", "return"}
    BY <1>10 DEF Invoke, GetPool, NewPool, Refused, Write, GetInterrupted, Throw, Go, CallerTypes
  <2> QED
    BY <2>1
<1> QED
  BY <1>1, <1>2, <1>3, <1>4, <1>5, <1>6, <1>7, <1>8, <1>9, <1>10, NextSplit DEF CallerStep

LEMMA NextNoStrayConnection ==
    ASSUME "interrupt" \notin Faults, TypeInv, LockOwned, NoStrayConnection, [Next]_vars
    PROVE  NoStrayConnection'
<1> SUFFICES ASSUME NEW k \in open'
             PROVE  \/ \E p \in 1..Len(pools'), i \in Slots : pools'[p].clients[i] = k
                    \/ \E c \in Callers : pc'[c] = "store" /\ chan'[c] = k
  BY DEF NoStrayConnection
<1> CallerTypes /\ PoolTypes /\ ConnTypes
  BY DEF TypeInv
<1>1. CASE UNCHANGED vars
  BY <1>1 DEF vars, NoStrayConnection
<1>2. ASSUME NEW l \in Conns, ServerRead(l) \/ ServerRun(l) \/ Response(l) \/ Close(l)
      PROVE  \/ \E p \in 1..Len(pools'), i \in Slots : pools'[p].clients[i] = k
             \/ \E c \in Callers : pc'[c] = "store" /\ chan'[c] = k
  <2>1. k \in open
    BY <1>2, LoopsStep
  <2> QED
    BY <1>2, <2>1, LoopsStep, OthersStay DEF NoStrayConnection
<1>3. ASSUME NEW c \in Callers, CallerStep(c)
      PROVE  \/ \E p \in 1..Len(pools'), i \in Slots : pools'[p].clients[i] = k
             \/ \E d \in Callers : pc'[d] = "store" /\ chan'[d] = k
  <2>1. CASE k \notin open
    <3>1. Create(c) /\ chan'[c] = k
      BY <1>3, <2>1, OpenStep
    <3> QED
      BY <3>1 DEF Create, Go, CallerTypes
  <2>2. ASSUME k \in open, NEW p \in 1..Len(pools), NEW i \in Slots, pools[p].clients[i] = k
        PROVE  p \in 1..Len(pools') /\ pools'[p].clients[i] = k
    <3>1. ASSUME Store(c) PROVE ~(p = pool[c] /\ i = slot[c])
      BY <2>2, <3>1 DEF LockOwned, Store, Slot
    <3> QED
      BY <1>3, <2>2, <3>1, SlotsStep
  <2>3. ASSUME k \in open, NEW d \in Callers, pc[d] = "store", chan[d] = k, d # c
        PROVE  pc'[d] = "store" /\ chan'[d] = k
    BY <1>3, <2>3, OthersStay, LocalsStay
  <2>4. ASSUME k \in open, pc[c] = "store", chan[c] = k
        PROVE  \E p \in 1..Len(pools'), i \in Slots : pools'[p].clients[i] = k
    <3>1. Store(c) /\ pool[c] \in 1..Len(pools) /\ slot[c] \in Slots
      BY <1>3, <2>4, SlotsInRange DEF CallerStep, Invoke, GetPool, NewPool, Pick, Lock, Create,
            Refused, Return, AddCallBack, Write, GetInterrupted
    <3>2. pool[c] \in 1..Len(pools') /\ pools'[pool[c]].clients[slot[c]] = k
      BY <1>3, <2>4, <3>1, SlotsStep
    <3> QED
      BY <3>1, <3>2
  <2> QED
    BY <2>1, <2>2, <2>3, <2>4 DEF NoStrayConnection
<1> QED
  BY <1>1, <1>2, <1>3, NextSplit

LEMMA InitSlotInv == ASSUME Init PROVE SlotInv
  BY DEF Init, SlotInv, ClientsMade, LockOwned, ChanKnown, NoStrayConnection

LEMMA NextSlotInv ==
    ASSUME IsFiniteSet(Callers), "interrupt" \notin Faults
    PROVE  TypeInv /\ SlotInv /\ [Next]_vars => (TypeInv /\ SlotInv)'
<1> SUFFICES ASSUME TypeInv, SlotInv, [Next]_vars PROVE TypeInv' /\ SlotInv'
  OBVIOUS
<1>1. TypeInv'
  BY NextTypeInv
<1>2. ClientsMade' /\ LockOwned' /\ ChanKnown'
  BY NextClientsMade, NextLockOwned, NextChanKnown DEF SlotInv
<1>3. NoStrayConnection'
  BY NextNoStrayConnection DEF SlotInv
<1> QED
  BY <1>1, <1>2, <1>3 DEF SlotInv

\* With one lock per slot, two callers that find the same slot empty do not both
\* leave a connection behind, whatever breaks or is refused; an interrupted
\* caller may.
THEOREM ConnectionsKept ==
    ASSUME IsFiniteSet(Callers), "interrupt" \notin Faults
    PROVE  Spec => []NoStrayConnection
<1>1. Init => TypeInv /\ SlotInv
  BY InitTypeInv, InitSlotInv
<1>2. SlotInv => NoStrayConnection
  BY DEF SlotInv
<1> QED
  BY <1>1, <1>2, NextSlotInv, PTL DEF Spec

-----------------------------------------------------------------------------
(* Callbacks, when no caller is interrupted                                *)

LEMMA NextCallbacksRemoved ==
    ASSUME "interrupt" \notin Faults, TypeInv, ChanKnown, CallbacksRemoved, [Next]_vars
    PROVE  CallbacksRemoved'
<1> SUFFICES ASSUME copy' = "rpcdemo", NEW f \in mapping'
             PROVE  req'[f.caller] = f /\ pc'[f.caller] \in {"write", "wait"}
  BY DEF CallbacksRemoved
<1> CallerTypes /\ NetTypes /\ InCall
  BY DEF TypeInv
<1>0. f \in mapping => /\ copy = "rpcdemo" => req[f.caller] = f
                       /\ copy = "rpcdemo" => pc[f.caller] \in {"write", "wait"}
                       /\ f.caller \in Callers
  BY DEF CallbacksRemoved, NetTypes, Requests
<1>1. CASE UNCHANGED vars
  BY <1>0, <1>1 DEF vars
<1>2. ASSUME NEW c \in Callers, Invoke(c) \/ GetPool(c) \/ NewPool(c) \/ Pick(c) \/ Lock(c)
               \/ Create(c) \/ Refused(c) \/ Store(c) \/ Return(c)
      PROVE  req'[f.caller] = f /\ pc'[f.caller] \in {"write", "wait"}
  <2>1. mapping' = mapping /\ copy' = copy /\ pc[c] \notin {"write", "wait"} /\ CallerStep(c)
    BY <1>2 DEF Invoke, GetPool, NewPool, Pick, Lock, Create, Refused, Store, Return, CallerStep,
                callerVars
  <2>2. f.caller # c
    BY <1>0, <2>1
  <2> QED
    BY <1>0, <2>1, <2>2, OthersStay
<1>3. ASSUME NEW c \in Callers, AddCallBack(c)
      PROVE  req'[f.caller] = f /\ pc'[f.caller] \in {"write", "wait"}
  <2>1. /\ mapping' = mapping \cup {req[c]} /\ req' = req /\ copy' = copy
        /\ pc' = [pc EXCEPT ![c] = "write"] /\ pc[c] = "add"
    BY <1>3 DEF AddCallBack, Go, callerVars
  <2>2. CASE f \in mapping
    BY <1>0, <2>1, <2>2 DEF CallerTypes
  <2>3. CASE f = req[c]
    <3>1. f.caller = c
      BY <2>1, <2>3 DEF InCall
    <3> QED
      BY <2>1, <2>3, <3>1 DEF CallerTypes
  <2> QED
    BY <2>1, <2>2, <2>3
<1>4. ASSUME NEW c \in Callers, Write(c)
      PROVE  req'[f.caller] = f /\ pc'[f.caller] \in {"write", "wait"}
  <2>1. /\ mapping' = mapping /\ req' = req /\ copy' = copy /\ pc[c] = "write"
        /\ chan[c] # Null
    BY <1>4 DEF Write, ChanKnown, callerVars
  <2>2. pc' = [pc EXCEPT ![c] = "wait"]
    BY <1>4, <2>1 DEF Write, Go, Multiplex
  <2> QED
    BY <1>0, <2>1, <2>2 DEF CallerTypes
<1>5. ASSUME NEW k \in Conns, ServerRead(k) \/ ServerRun(k) \/ Close(k)
      PROVE  req'[f.caller] = f /\ pc'[f.caller] \in {"write", "wait"}
  <2>1. UNCHANGED <<pc, copy, req, mapping>>
    BY <1>5 DEF ServerRead, ServerRun, Close, callerVars
  <2> QED
    BY <1>0, <2>1
<1>6. ASSUME NEW k \in Conns, Response(k)
      PROVE  req'[f.caller] = f /\ pc'[f.caller] \in {"write", "wait"}
  <2> DEFINE id == Head(toClient[k]).id
  <2>1. /\ req' = req /\ copy' = copy
        /\ \/ UNCHANGED <<pc, mapping>>
           \/ /\ mapping' = mapping \ {id} /\ id \in mapping
              /\ pc' = pc \/ pc' = [pc EXCEPT ![id.caller] = "idle"]
    BY <1>6 DEF Response, Callback, Removed, Go, callerVars
  <2> HIDE DEF id
  <2>2. CASE UNCHANGED <<pc, mapping>>
    BY <1>0, <2>1, <2>2
  <2>3. CASE /\ mapping' = mapping \ {id} /\ id \in mapping
             /\ pc' = pc \/ pc' = [pc EXCEPT ![id.caller] = "idle"]
    <3>1. id # f /\ req[id.caller] = id
      BY <2>1, <2>3 DEF CallbacksRemoved
    <3>2. id.caller # f.caller
      BY <1>0, <2>1, <2>3, <3>1
    <3> QED
      BY <1>0, <2>1, <2>3, <3>2 DEF CallerTypes
  <2> QED
    BY <2>1, <2>2, <2>3
<1>7. ASSUME NEW c \in Callers PROVE ~GetInterrupted(c)
  BY DEF GetInterrupted
<1> QED
  BY <1>1, <1>2, <1>3, <1>4, <1>5, <1>6, <1>7, NextSplit DEF CallerStep

\* In rpcdemo, only calls that wait are remembered, when no caller is interrupted:
\* the map of callbacks does not grow with the calls made, whatever breaks.
THEOREM CallbacksForgotten ==
    ASSUME IsFiniteSet(Callers), "interrupt" \notin Faults
    PROVE  Spec => []CallbacksRemoved
<1>1. Init => TypeInv /\ SlotInv /\ CallbacksRemoved
  BY InitTypeInv, InitSlotInv DEF Init, CallbacksRemoved
<1>2. TypeInv /\ SlotInv /\ CallbacksRemoved /\ [Next]_vars
        => (TypeInv /\ SlotInv /\ CallbacksRemoved)'
  BY NextSlotInv, NextCallbacksRemoved DEF SlotInv
<1> QED
  BY <1>1, <1>2, PTL DEF Spec

-----------------------------------------------------------------------------
(* The pool of the older copy                                              *)

\* getClient is synchronized, so one caller makes the one pool.
OnePool ==
    copy = "multiplex" =>
        /\ \A c \in Callers : pc[c] \in InGetClient => monitor = c
        /\ outbox = Len(pools) /\ outbox \in {0, 1}
        /\ \A c \in Callers : pc[c] = "newpool" => outbox = Null

LEMMA NextOnePool ==
    ASSUME TypeInv, OnePool, [Next]_vars
    PROVE  OnePool'
<1> SUFFICES ASSUME copy' = "multiplex" PROVE OnePool'
  BY DEF OnePool
<1> /\ CallerTypes /\ PoolTypes
  BY DEF TypeInv
<1>1. CASE UNCHANGED vars
  BY <1>1 DEF vars, OnePool
<1>2. ASSUME NEW k \in Conns, ServerRead(k) \/ ServerRun(k) \/ Response(k) \/ Close(k)
      PROVE  OnePool'
  <2>1. copy' = copy
    BY <1>2 DEF ServerRead, ServerRun, Response, Close, callerVars
  <2> QED
    BY <1>2, <2>1, LoopsStep, OthersStay DEF OnePool, InGetClient
<1>3. ASSUME NEW c \in Callers, CallerStep(c) PROVE OnePool'
  <2>1. copy' = copy
    BY <1>3 DEF CallerStep, Invoke, GetPool, NewPool, Pick, Lock, Create, Refused, Store, Return,
                AddCallBack, Write, GetInterrupted, callerVars
  <2>2. \A d \in Callers \ {c} : pc'[d] = pc[d]
    BY <1>3, OthersStay
  <2>3. CASE GetPool(c)
    <3>1. /\ monitor = None /\ monitor' = c /\ UNCHANGED <<pools, outbox>>
          /\ pc'[c] = "newpool" => outbox = Null
      BY <2>1, <2>3 DEF GetPool, Enter, Multiplex, Go, CallerTypes
    <3>2. \A d \in Callers \ {c} : pc'[d] \notin InGetClient
      BY <2>1, <2>2, <3>1, CallersAssumption DEF OnePool
    <3> QED
      BY <2>1, <3>1, <3>2 DEF OnePool, InGetClient
  <2>4. CASE NewPool(c)
    <3>1. /\ outbox' = Len(pools') /\ monitor' = monitor /\ pc[c] = "newpool"
          /\ pc'[c] = "pick"
      BY <2>4 DEF NewPool, Go, CallerTypes
    <3>2. Len(pools) = 0 /\ Len(pools') = 1
      BY <2>1, <2>4, <3>1 DEF NewPool, OnePool, PoolTypes, Null
    <3>3. \A d \in Callers \ {c} : pc'[d] \notin InGetClient
      BY <2>1, <2>2, <3>1 DEF OnePool, InGetClient
    <3> QED
      BY <2>1, <3>1, <3>2, <3>3 DEF OnePool, InGetClient
  <2>5. CASE Pick(c) \/ Lock(c) \/ Create(c) \/ Store(c)
    <3>1. /\ UNCHANGED <<outbox, monitor>> /\ Len(pools') = Len(pools)
          /\ pc[c] \in InGetClient /\ pc'[c] # "newpool"
      <4>1. ~NewPool(c)
        BY <2>5 DEF Pick, Lock, Create, Store, NewPool
      <4>2. Len(pools') = Len(pools)
        BY <1>3, <4>1, PoolsCount
      <4> QED
        BY <2>5, <4>2 DEF Pick, Lock, Create, Store, InGetClient, poolVars, Go, CallerTypes
    <3> QED
      BY <2>1, <2>2, <3>1 DEF OnePool
  <2>6. CASE Refused(c) \/ Return(c)
    <3>1. /\ outbox' = outbox /\ Len(pools') = Len(pools)
          /\ pc[c] \in InGetClient /\ pc'[c] \notin InGetClient
      <4>1. ~NewPool(c)
        BY <2>6 DEF Refused, Return, NewPool
      <4>2. Len(pools') = Len(pools)
        BY <1>3, <4>1, PoolsCount
      <4> QED
        BY <2>6, <4>2 DEF Refused, Return, InGetClient, Throw, Go, CallerTypes
    <3>2. \A d \in Callers \ {c} : pc'[d] \notin InGetClient
      BY <2>1, <2>2, <3>1 DEF OnePool
    <3> QED
      BY <2>1, <3>1, <3>2 DEF OnePool, InGetClient
  <2>7. CASE Invoke(c) \/ AddCallBack(c) \/ Write(c) \/ GetInterrupted(c)
    <3>1. UNCHANGED poolVars /\ pc'[c] \notin InGetClient
      BY <2>7 DEF Invoke, AddCallBack, Write, GetInterrupted, Throw, Go, CallerTypes, InGetClient
    <3> QED
      BY <2>1, <2>2, <3>1 DEF OnePool, poolVars, InGetClient
  <2> QED
    BY <1>3, <2>3, <2>4, <2>5, <2>6, <2>7 DEF CallerStep
<1> QED
  BY <1>1, <1>2, <1>3, NextSplit

\* Every open connection has a slot of the one pool to itself: the one it is in,
\* or the one it is about to be stored in.
LEMMA SlotsSuffice ==
    ASSUME TypeInv, SlotInv, OnePool
    PROVE  PoolBounded
<1> SUFFICES ASSUME copy = "multiplex" PROVE Cardinality(open) <= PoolSize
  BY DEF PoolBounded
<1> DEFINE Has(k, i) ==
      \/ 1 \in 1..Len(pools) /\ pools[1].clients[i] = k
      \/ \E c \in Callers : pc[c] = "store" /\ chan[c] = k /\ slot[c] = i
           g == [k \in open |-> CHOOSE i \in Slots : Has(k, i)]
<1>1. Len(pools) \in {0, 1} /\ \A c \in Callers : pool[c] \in {0, 1}
  BY DEF OnePool, TypeInv, PoolTypes
<1>2. ASSUME NEW k \in open PROVE \E i \in Slots : Has(k, i)
  <2>1. CASE \E p \in 1..Len(pools), i \in Slots : pools[p].clients[i] = k
    BY <1>1, <2>1
  <2>2. CASE \E c \in Callers : pc[c] = "store" /\ chan[c] = k
    BY <2>2 DEF TypeInv, PoolTypes
  <2> QED
    BY <2>1, <2>2 DEF SlotInv, NoStrayConnection
<1>3. ASSUME NEW k \in open, NEW l \in open, NEW i \in Slots, Has(k, i), Has(l, i)
      PROVE  k = l
  <2>1. ASSUME NEW c \in Callers, pc[c] = "store", slot[c] = i
        PROVE  pools[1].clients[i] \notin open
    <3>1. pool[c] = 1
      BY <1>1, <2>1, SlotsInRange
    <3> QED
      BY <2>1, <3>1 DEF SlotInv, LockOwned, Slot
  <2>2. ASSUME NEW c \in Callers, NEW d \in Callers, pc[c] = "store", pc[d] = "store"
        PROVE  c = d
    BY <2>2 DEF OnePool, InGetClient
  <2> QED
    BY <1>3, <2>1, <2>2
<1> HIDE DEF Has
<1>4. \A k \in open : g[k] \in Slots /\ Has(k, g[k])
  BY <1>2
<1>5. g \in [open -> Slots]
  BY <1>4
<1> HIDE DEF g
<1>6. \A k, l \in open : g[k] = g[l] => k = l
  BY <1>3, <1>4
<1>7. g \in Injection(open, Slots)
  BY <1>5, <1>6, Fun_IsInj
<1>8. IsFiniteSet(Slots) /\ Cardinality(Slots) = PoolSize
  BY FS_Interval, CallersAssumption DEF Slots
<1> QED
  BY <1>7, <1>8, FS_Injection

\* With the synchronized getClient of the older copy there are never more
\* connections than slots, when no caller is interrupted.
THEOREM PoolHolds ==
    ASSUME IsFiniteSet(Callers), "interrupt" \notin Faults
    PROVE  Spec => []PoolBounded
<1>1. Init => TypeInv /\ SlotInv /\ OnePool
  BY InitTypeInv, InitSlotInv DEF Init, OnePool, Null, InGetClient
<1>2. TypeInv /\ SlotInv /\ OnePool /\ [Next]_vars => (TypeInv /\ SlotInv /\ OnePool)'
  BY NextSlotInv, NextOnePool
<1>3. TypeInv /\ SlotInv /\ OnePool => PoolBounded
  BY SlotsSuffice
<1> QED
  BY <1>1, <1>2, <1>3, PTL DEF Spec

-----------------------------------------------------------------------------
(* Requests under way                                                      *)

\* Request r is the i-th on connection k: as a request, a task or a response.
Ways == {"toServer", "tasks", "toClient"}
At(q, k, i, r) ==
    \/ q = "toServer" /\ i \in 1..Len(toServer[k]) /\ toServer[k][i] = r
    \/ q = "tasks" /\ i \in 1..Len(tasks[k]) /\ tasks[k][i] = r
    \/ q = "toClient" /\ i \in 1..Len(toClient[k]) /\ toClient[k][i].id = r

\* A request is in one place at a time.
Once ==
    \A q, p \in Ways, k, l \in Conns, i, j \in Nat, r \in Requests :
        At(q, k, i, r) /\ At(p, l, j, r) => q = p /\ k = l /\ i = j

OnItsWay(r) == \E q \in Ways, k \in Conns, i \in Nat : At(q, k, i, r)

\* It belongs to a call already made; the call its caller is in has been written.
Sent ==
    \A r \in Requests : OnItsWay(r) =>
        /\ r.n > left[r.caller]
        /\ req[r.caller] = r => pc[r.caller] \in {"wait", "idle"}

\* It has its callback, and so does a request about to be written.
Expected ==
    /\ \A r \in Requests : OnItsWay(r) => r \in mapping
    /\ \A c \in Callers : pc[c] = "write" => req[c] \in mapping

UnderWay == Once /\ Sent /\ Expected

LEMMA UnderIsAt ==
    ASSUME NetTypes, Expected
    PROVE  AnswersExpected
<1> SUFFICES ASSUME NEW k \in Conns, NEW r \in Under(k) PROVE r \in mapping
  BY DEF AnswersExpected
<1>1. CASE \E i \in 1..Len(toServer[k]) : r = toServer[k][i]
  <2>1. PICK i \in 1..Len(toServer[k]) : r = toServer[k][i]
    BY <1>1
  <2>2. toServer[k] \in Seq(Requests)
    BY DEF NetTypes
  <2>3. r \in Requests /\ i \in Nat
    BY <2>1, <2>2
  <2> QED
    BY <2>1, <2>3 DEF Expected, OnItsWay, At, Ways
<1>2. CASE \E i \in 1..Len(tasks[k]) : r = tasks[k][i]
  <2>1. PICK i \in 1..Len(tasks[k]) : r = tasks[k][i]
    BY <1>2
  <2>2. tasks[k] \in Seq(Requests)
    BY DEF NetTypes
  <2>3. r \in Requests /\ i \in Nat
    BY <2>1, <2>2
  <2> QED
    BY <2>1, <2>3 DEF Expected, OnItsWay, At, Ways
<1>3. CASE \E i \in 1..Len(toClient[k]) : r = toClient[k][i].id
  <2>1. PICK i \in 1..Len(toClient[k]) : r = toClient[k][i].id
    BY <1>3
  <2>2. toClient[k][i] \in Responses
    BY DEF NetTypes
  <2>3. r \in Requests
    BY <2>1, <2>2 DEF Responses
  <2> QED
    BY <2>1, <2>3 DEF Expected, OnItsWay, At, Ways
<1> QED
  BY <1>1, <1>2, <1>3 DEF Under

\* A step takes the first of way p of connection k, if p is a way, and adds e to
\* way u; it may also drop some of what is under way.
Moves(p, k, u, e) ==
    \E n \in Nat : \A q \in Ways, l \in Conns, i \in Nat, r \in Requests :
        At(q, l, i, r)' =>
          \/ q = u /\ l = k /\ i = n /\ r = e
          \/ At(q, l, IF q = p /\ l = k THEN i + 1 ELSE i, r)

LEMMA AtPositive ==
    ASSUME NEW q, NEW k, NEW i \in Nat, NEW r, At(q, k, i, r)'
    PROVE  i > 0
  BY DEF At

LEMMA OnceKept ==
    ASSUME Once, NEW p, NEW k \in Conns, NEW u, NEW e, Moves(p, k, u, e),
           \A q \in Ways, l \in Conns, i \in Nat : At(q, l, i, e) => q = p /\ l = k /\ i = 1
    PROVE  Once'
<1> SUFFICES ASSUME NEW q \in Ways, NEW s \in Ways, NEW l \in Conns, NEW m \in Conns,
                    NEW i \in Nat, NEW j \in Nat, NEW r \in Requests,
                    At(q, l, i, r)', At(s, m, j, r)'
             PROVE  q = s /\ l = m /\ i = j
  BY DEF Once
<1>1. PICK n \in Nat : \A w \in Ways, x \in Conns, y \in Nat, z \in Requests :
        At(w, x, y, z)' =>
          \/ w = u /\ x = k /\ y = n /\ z = e
          \/ At(w, x, IF w = p /\ x = k THEN y + 1 ELSE y, z)
  BY DEF Moves
<1>2. i > 0 /\ j > 0
  BY AtPositive
<1>3. ASSUME NEW w \in Ways, NEW x \in Conns, NEW y \in Nat, y > 0,
             At(w, x, IF w = p /\ x = k THEN y + 1 ELSE y, r)
      PROVE  r # e
  BY <1>3
<1>4. CASE r = e
  BY <1>1, <1>2, <1>3, <1>4
<1>5. CASE r # e
  <2>1. /\ At(q, l, IF q = p /\ l = k THEN i + 1 ELSE i, r)
        /\ At(s, m, IF s = p /\ m = k THEN j + 1 ELSE j, r)
    BY <1>1, <1>5
  <2> QED
    BY <2>1 DEF Once
<1> QED
  BY <1>4, <1>5

\* The first of a sequence leaves it; one is added at its end.
LEMMA TailAt ==
    ASSUME NEW S, NEW s \in Seq(S), s # <<>>, NEW i \in Nat, i \in 1..Len(Tail(s))
    PROVE  i + 1 \in 1..Len(s) /\ Tail(s)[i] = s[i + 1]
  OBVIOUS

LEMMA AppendAt ==
    ASSUME NEW S, NEW s \in Seq(S), NEW e \in S, NEW i \in Nat, i \in 1..Len(Append(s, e))
    PROVE  \/ i \in 1..Len(s) /\ Append(s, e)[i] = s[i]
           \/ i = Len(s) + 1 /\ Append(s, e)[i] = e
  OBVIOUS

LEMMA WriteMoves ==
    ASSUME TypeInv, NEW c \in Callers, Write(c), toServer' # toServer
    PROVE  chan[c] \in Conns /\ Moves("none", chan[c], "toServer", req[c]) /\ pc'[c] = "wait"
<1>1. /\ toServer' = [toServer EXCEPT ![chan[c]] = Append(@, req[c])]
      /\ chan[c] \in open /\ Go(c, "wait") /\ UNCHANGED <<tasks, toClient>>
  BY DEF Write
<1>2. chan[c] \in Conns /\ req[c] \in Requests /\ toServer \in [Conns -> Seq(Requests)]
  <2>1. chan[c] # Null
    BY <1>1 DEF TypeInv, ConnTypes, Null
  <2> QED
    BY <2>1 DEF TypeInv, ConnTypes, NetTypes, InCall, Write
<1>3. \A i \in Nat : i \in 1..Len(Append(toServer[chan[c]], req[c])) =>
        \/ i \in 1..Len(toServer[chan[c]])
             /\ Append(toServer[chan[c]], req[c])[i] = toServer[chan[c]][i]
        \/ i = Len(toServer[chan[c]]) + 1 /\ Append(toServer[chan[c]], req[c])[i] = req[c]
  BY <1>2, AppendAt
<1>4. ASSUME NEW q \in Ways, NEW l \in Conns, NEW i \in Nat, NEW r \in Requests,
             At(q, l, i, r)'
      PROVE  \/ /\ q = "toServer" /\ l = chan[c] /\ i = Len(toServer[chan[c]]) + 1
                /\ r = req[c]
             \/ At(q, l, i, r)
  BY <1>1, <1>2, <1>3, <1>4 DEF At
<1>5. toServer[chan[c]] \in Seq(Requests)
  BY <1>2
<1>6. Len(toServer[chan[c]]) + 1 \in Nat
  BY <1>5
<1>7. Moves("none", chan[c], "toServer", req[c])
  <2> DEFINE n == Len(toServer[chan[c]]) + 1
  <2>1. \A q \in Ways : q # "none"
    BY DEF Ways
  <2>2. n \in Nat
    BY <1>6
  <2>3. \A q \in Ways, l \in Conns, i \in Nat, r \in Requests :
          At(q, l, i, r)' =>
            \/ q = "toServer" /\ l = chan[c] /\ i = n /\ r = req[c]
            \/ At(q, l, IF q = "none" /\ l = chan[c] THEN i + 1 ELSE i, r)
    BY <1>4, <2>1
  <2> HIDE DEF n
  <2> QED
    BY <2>2, <2>3 DEF Moves
<1> QED
  BY <1>1, <1>2, <1>7 DEF TypeInv, CallerTypes, Go

LEMMA ServerReadMoves ==
    ASSUME TypeInv, NEW k \in Conns, ServerRead(k)
    PROVE  \E e \in Requests : At("toServer", k, 1, e) /\ Moves("toServer", k, "tasks", e)
<1> DEFINE e == Head(toServer[k])
           n == Len(tasks[k]) + 1
<1>1. /\ toServer' = [toServer EXCEPT ![k] = Tail(@)] /\ toServer[k] # <<>>
      /\ \/ tasks' = tasks
         \/ tasks' = [tasks EXCEPT ![k] = Append(@, e)]
      /\ toClient' = toClient
  BY DEF ServerRead
<1>2. /\ toServer[k] \in Seq(Requests) /\ tasks[k] \in Seq(Requests)
      /\ toServer \in [Conns -> Seq(Requests)] /\ tasks \in [Conns -> Seq(Requests)]
  BY DEF TypeInv, NetTypes
<1>3. e \in Requests /\ n \in Nat /\ 1 \in 1..Len(toServer[k]) /\ toServer[k][1] = e
  BY <1>1, <1>2
<1> HIDE DEF e
<1>4. \A i \in Nat : i \in 1..Len(Append(tasks[k], e)) =>
        \/ i \in 1..Len(tasks[k]) /\ Append(tasks[k], e)[i] = tasks[k][i]
        \/ i = n /\ Append(tasks[k], e)[i] = e
  BY <1>2, <1>3, AppendAt
<1>5. \A i \in Nat : i \in 1..Len(Tail(toServer[k])) =>
        i + 1 \in 1..Len(toServer[k]) /\ Tail(toServer[k])[i] = toServer[k][i + 1]
  BY <1>1, <1>2, TailAt
<1> HIDE DEF n
<1>6. ASSUME NEW q \in Ways, NEW l \in Conns, NEW i \in Nat, NEW r \in Requests, At(q, l, i, r)'
      PROVE  \/ q = "tasks" /\ l = k /\ i = n /\ r = e
             \/ At(q, l, IF q = "toServer" /\ l = k THEN i + 1 ELSE i, r)
  <2>1. CASE q = "toServer"
    BY <1>1, <1>2, <1>5, <1>6, <2>1 DEF At
  <2>2. CASE q = "tasks"
    <3>1. i \in 1..Len(tasks'[l]) /\ tasks'[l][i] = r
      BY <1>6, <2>2 DEF At
    <3>2. CASE tasks'[l] = tasks[l]
      BY <2>2, <3>1, <3>2 DEF At
    <3>3. CASE l = k /\ tasks'[l] = Append(tasks[k], e)
      BY <1>4, <2>2, <3>1, <3>3 DEF At
    <3> QED
      BY <1>1, <1>2, <3>2, <3>3
  <2>3. CASE q = "toClient"
    BY <1>1, <1>6, <2>3 DEF At
  <2> QED
    BY <2>1, <2>2, <2>3 DEF Ways
<1>7. Moves("toServer", k, "tasks", e)
  BY <1>3, <1>6 DEF Moves
<1>8. At("toServer", k, 1, e)
  BY <1>3 DEF At
<1> QED
  BY <1>3, <1>7, <1>8

LEMMA ServerRunMoves ==
    ASSUME TypeInv, NEW k \in Conns, ServerRun(k)
    PROVE  \E e \in Requests : At("tasks", k, 1, e) /\ Moves("tasks", k, "toClient", e)
<1> DEFINE e == Head(tasks[k])
           a == Reply(e)
           n == Len(toClient[k]) + 1
<1>1. /\ tasks' = [tasks EXCEPT ![k] = Tail(@)] /\ tasks[k] # <<>>
      /\ \/ toClient' = toClient
         \/ toClient' = [toClient EXCEPT ![k] = Append(@, a)]
      /\ toServer' = toServer
  BY DEF ServerRun
<1>2. /\ tasks[k] \in Seq(Requests) /\ toClient[k] \in Seq(Responses)
      /\ tasks \in [Conns -> Seq(Requests)] /\ toClient \in [Conns -> Seq(Responses)]
  BY DEF TypeInv, NetTypes
<1>3. e \in Requests /\ n \in Nat /\ 1 \in 1..Len(tasks[k]) /\ tasks[k][1] = e
  BY <1>1, <1>2
<1>4. a.id = e /\ a \in Responses
  BY <1>3 DEF Reply, Invoked, Responses
<1> HIDE DEF a, e
<1>5. \A i \in Nat : i \in 1..Len(Append(toClient[k], a)) =>
        \/ i \in 1..Len(toClient[k]) /\ Append(toClient[k], a)[i] = toClient[k][i]
        \/ i = n /\ Append(toClient[k], a)[i] = a
  BY <1>2, <1>4, AppendAt
<1>6. \A i \in Nat : i \in 1..Len(Tail(tasks[k])) =>
        i + 1 \in 1..Len(tasks[k]) /\ Tail(tasks[k])[i] = tasks[k][i + 1]
  BY <1>1, <1>2, TailAt
<1> HIDE DEF n
<1>7. ASSUME NEW q \in Ways, NEW l \in Conns, NEW i \in Nat, NEW r \in Requests, At(q, l, i, r)'
      PROVE  \/ q = "toClient" /\ l = k /\ i = n /\ r = e
             \/ At(q, l, IF q = "tasks" /\ l = k THEN i + 1 ELSE i, r)
  <2>1. CASE q = "tasks"
    BY <1>1, <1>2, <1>6, <1>7, <2>1 DEF At
  <2>2. CASE q = "toClient"
    <3>1. i \in 1..Len(toClient'[l]) /\ toClient'[l][i].id = r
      BY <1>7, <2>2 DEF At
    <3>2. CASE toClient'[l] = toClient[l]
      BY <2>2, <3>1, <3>2 DEF At
    <3>3. CASE l = k /\ toClient'[l] = Append(toClient[k], a)
      BY <1>4, <1>5, <2>2, <3>1, <3>3 DEF At
    <3> QED
      BY <1>1, <1>2, <3>2, <3>3
  <2>3. CASE q = "toServer"
    BY <1>1, <1>7, <2>3 DEF At
  <2> QED
    BY <2>1, <2>2, <2>3 DEF Ways
<1>8. Moves("tasks", k, "toClient", e)
  BY <1>3, <1>7 DEF Moves
<1>9. At("tasks", k, 1, e)
  BY <1>3 DEF At
<1> QED
  BY <1>3, <1>8, <1>9

LEMMA ResponseMoves ==
    ASSUME TypeInv, NEW k \in Conns, Response(k)
    PROVE  \E e \in Requests :
             /\ At("toClient", k, 1, e) /\ Moves("toClient", k, "none", e)
             /\ mapping' \in {mapping, mapping \ {e}}
<1> DEFINE e == Head(toClient[k]).id
<1>1. /\ toClient' = [toClient EXCEPT ![k] = Tail(@)] /\ toClient[k] # <<>>
      /\ UNCHANGED <<toServer, tasks>>
      /\ mapping' \in {mapping, mapping \ {e}}
  BY DEF Response, Removed
<1>2. toClient[k] \in Seq(Responses) /\ toClient \in [Conns -> Seq(Responses)]
  BY DEF TypeInv, NetTypes
<1>3. Head(toClient[k]) \in Responses /\ 1 \in 1..Len(toClient[k]) /\ toClient[k][1].id = e
  BY <1>1, <1>2
<1>4. e \in Requests
  BY <1>3 DEF Responses
<1> HIDE DEF e
<1>5. \A i \in Nat : i \in 1..Len(Tail(toClient[k])) =>
        i + 1 \in 1..Len(toClient[k]) /\ Tail(toClient[k])[i] = toClient[k][i + 1]
  BY <1>1, <1>2, TailAt
<1>6. ASSUME NEW q \in Ways, NEW l \in Conns, NEW i \in Nat, NEW r \in Requests, At(q, l, i, r)'
      PROVE  At(q, l, IF q = "toClient" /\ l = k THEN i + 1 ELSE i, r)
  <2>1. CASE q = "toClient"
    BY <1>1, <1>2, <1>5, <1>6, <2>1 DEF At
  <2>2. CASE q # "toClient"
    BY <1>1, <1>6, <2>2 DEF At
  <2> QED
    BY <2>1, <2>2
<1>7. Moves("toClient", k, "none", e)
  <2>1. 0 \in Nat
    OBVIOUS
  <2> QED
    BY <1>6, <2>1 DEF Moves
<1>8. At("toClient", k, 1, e)
  BY <1>3 DEF At
<1> QED
  BY <1>1, <1>4, <1>7, <1>8

\* Every other step leaves each request where it is, or loses it.
LEMMA OtherStepsKeep ==
    ASSUME TypeInv, [Next]_vars,
           \A c \in Callers : Write(c) => toServer' = toServer,
           \A k \in Conns : ~ServerRead(k) /\ ~ServerRun(k) /\ ~Response(k),
           NEW q \in Ways, NEW l \in Conns, NEW i \in Nat, NEW r \in Requests, At(q, l, i, r)'
    PROVE  At(q, l, i, r)
<1>1. CASE UNCHANGED vars
  BY <1>1 DEF vars, At
<1>2. ASSUME NEW c \in Callers, CallerStep(c) PROVE At(q, l, i, r)
  <2>1. UNCHANGED <<toServer, tasks, toClient>>
    BY <1>2 DEF CallerStep, Invoke, GetPool, NewPool, Pick, Lock, Create, Refused, Store, Return,
                AddCallBack, Write, GetInterrupted, netVars
  <2> QED
    BY <2>1 DEF At
<1>3. ASSUME NEW k \in Conns, Close(k) PROVE At(q, l, i, r)
  <2>1. /\ toServer' = [toServer EXCEPT ![k] = <<>>]
        /\ toClient' = [toClient EXCEPT ![k] = <<>>]
        /\ tasks' = tasks
    BY <1>3 DEF Close
  <2>2. toServer \in [Conns -> Seq(Requests)] /\ toClient \in [Conns -> Seq(Responses)]
    BY DEF TypeInv, NetTypes
  <2>3. CASE l = k
    <3>1. toServer'[l] = <<>> /\ toClient'[l] = <<>>
      BY <2>1, <2>2, <2>3
    <3>2. q = "tasks"
      BY <3>1 DEF At
    <3> QED
      BY <2>1, <3>2 DEF At
  <2>4. CASE l # k
    BY <2>1, <2>2, <2>4 DEF At
  <2> QED
    BY <2>3, <2>4
<1> QED
  BY <1>1, <1>2, <1>3, NextSplit

\* What the steps do to the requests under way, all together.
LEMMA NextOnce ==
    ASSUME TypeInv, UnderWay, [Next]_vars
    PROVE  /\ Once'
           /\ \A r \in Requests : OnItsWay(r)' =>
                \/ OnItsWay(r)
                \/ \E c \in Callers : Write(c) /\ r = req[c] /\ pc'[c] = "wait"
<1>1. ASSUME NEW p \in Ways, NEW k \in Conns, NEW u, NEW e \in Requests,
             At(p, k, 1, e), Moves(p, k, u, e)
      PROVE  Once' /\ \A r \in Requests : OnItsWay(r)' => OnItsWay(r)
  <2>1. \A q \in Ways, l \in Conns, i \in Nat : At(q, l, i, e) => q = p /\ l = k /\ i = 1
    BY <1>1 DEF UnderWay, Once
  <2>2. Once'
    BY <1>1, <2>1, OnceKept DEF UnderWay
  <2>3. OnItsWay(e)
    BY <1>1 DEF OnItsWay
  <2>4. ASSUME NEW r \in Requests, OnItsWay(r)', r # e PROVE OnItsWay(r)
    <3>1. PICK q \in Ways, l \in Conns, i \in Nat : At(q, l, i, r)'
      BY <2>4 DEF OnItsWay
    <3>2. At(q, l, IF q = p /\ l = k THEN i + 1 ELSE i, r)
      BY <1>1, <2>4, <3>1 DEF Moves
    <3> QED
      BY <3>2 DEF OnItsWay
  <2> QED
    BY <2>2, <2>3, <2>4
<1>2. ASSUME NEW c \in Callers, Write(c), toServer' # toServer
      PROVE  /\ Once'
             /\ \A r \in Requests : OnItsWay(r)' =>
                  OnItsWay(r) \/ (Write(c) /\ r = req[c] /\ pc'[c] = "wait")
  <2>1. chan[c] \in Conns /\ Moves("none", chan[c], "toServer", req[c]) /\ pc'[c] = "wait"
    BY <1>2, WriteMoves
  <2>2. req[c] \in Requests /\ req[c].caller = c /\ pc[c] = "write"
    BY <1>2 DEF Write, TypeInv, InCall
  <2>3. ~OnItsWay(req[c])
    BY <2>2 DEF UnderWay, Sent
  <2>4. \A q \in Ways, l \in Conns, i \in Nat : ~At(q, l, i, req[c])
    BY <2>3 DEF OnItsWay
  <2>5. Once'
    BY <2>1, <2>4, OnceKept DEF UnderWay
  <2>6. ASSUME NEW r \in Requests, OnItsWay(r)', r # req[c] PROVE OnItsWay(r)
    <3>1. PICK q \in Ways, l \in Conns, i \in Nat : At(q, l, i, r)'
      BY <2>6 DEF OnItsWay
    <3>2. At(q, l, IF q = "none" /\ l = chan[c] THEN i + 1 ELSE i, r)
      BY <2>1, <2>6, <3>1 DEF Moves
    <3> QED
      BY <3>2 DEF OnItsWay
  <2> QED
    BY <1>2, <2>1, <2>5, <2>6
<1>3. ASSUME NEW k \in Conns, ServerRead(k) \/ ServerRun(k) \/ Response(k)
      PROVE  Once' /\ \A r \in Requests : OnItsWay(r)' => OnItsWay(r)
  <2>1. \E p \in Ways, u \in Ways \cup {"none"}, e \in Requests :
          At(p, k, 1, e) /\ Moves(p, k, u, e)
    BY <1>3, ServerReadMoves, ServerRunMoves, ResponseMoves DEF Ways
  <2> QED
    BY <1>1, <2>1
<1>4. ASSUME \A c \in Callers : Write(c) => toServer' = toServer,
             \A k \in Conns : ~ServerRead(k) /\ ~ServerRun(k) /\ ~Response(k)
      PROVE  Once' /\ \A r \in Requests : OnItsWay(r)' => OnItsWay(r)
  <2>1. \A q \in Ways, l \in Conns, i \in Nat, r \in Requests : At(q, l, i, r)' => At(q, l, i, r)
    BY <1>4, OtherStepsKeep
  <2> QED
    BY <2>1 DEF UnderWay, Once, OnItsWay
<1> QED
  BY <1>2, <1>3, <1>4

LEMMA NextSent ==
    ASSUME TypeInv, UnderWay, [Next]_vars
    PROVE  Sent'
<1> SUFFICES ASSUME NEW r \in Requests, OnItsWay(r)'
             PROVE  /\ r.n > left'[r.caller]
                    /\ req'[r.caller] = r => pc'[r.caller] \in {"wait", "idle"}
  BY DEF Sent
<1> DEFINE d == r.caller
<1>1. CallerTypes /\ d \in Callers /\ r.n \in Nat
  BY DEF TypeInv, Requests
<1>2. CASE OnItsWay(r)
  <2>1. r.n > left[d] /\ (req[d] = r => pc[d] \in {"wait", "idle"})
    BY <1>2 DEF UnderWay, Sent
  <2>2. CASE UNCHANGED vars
    BY <2>1, <2>2 DEF vars
  <2>3. ASSUME NEW c \in Callers, CallerStep(c), c # d
        PROVE  /\ r.n > left'[d]
               /\ req'[d] = r => pc'[d] \in {"wait", "idle"}
    BY <1>1, <2>1, <2>3, OthersStay
  <2>4. ASSUME NEW k \in Conns, ServerRead(k) \/ ServerRun(k) \/ Response(k) \/ Close(k)
        PROVE  /\ r.n > left'[d]
               /\ req'[d] = r => pc'[d] \in {"wait", "idle"}
    BY <1>1, <2>1, <2>4, OthersStay
  <2>5. CASE Invoke(d)
    <3>1. PICK call \in Requests : call.n = left[d] /\ req' = [req EXCEPT ![d] = call]
      BY <1>1, <2>5, InvokeCalls
    <3>2. left'[d] = left[d] - 1 /\ left[d] \in Nat /\ req'[d] = call
      BY <1>1, <2>5, <3>1 DEF Invoke, CallerTypes
    <3> QED
      BY <1>1, <2>1, <3>1, <3>2
  <2>6. CASE CallerStep(d) /\ ~Invoke(d)
    <3>1. left' = left /\ req' = req
      BY <1>1, <2>6, NextPlace
    <3>2. CASE Write(d) \/ GetInterrupted(d)
      <4>1. pc'[d] \in {"wait", "idle"}
        BY <1>1, <3>2 DEF Write, GetInterrupted, Throw, Go, CallerTypes
      <4> QED
        BY <2>1, <3>1, <4>1
    <3>3. CASE ~(Write(d) \/ GetInterrupted(d))
      <4>1. pc[d] \notin {"wait", "idle"}
        BY <2>6, <3>3 DEF CallerStep, GetPool, NewPool, Pick, Lock, Create, Refused, Store,
                          Return, AddCallBack
      <4> QED
        BY <2>1, <3>1, <4>1
    <3> QED
      BY <3>2, <3>3
  <2> QED
    BY <1>1, <2>2, <2>3, <2>4, <2>5, <2>6, NextSplit
<1>3. ASSUME NEW c \in Callers, Write(c), r = req[c], pc'[c] = "wait"
      PROVE  /\ r.n > left'[d]
             /\ req'[d] = r => pc'[d] \in {"wait", "idle"}
  <2>1. d = c /\ r.n = left[c] + 1 /\ left' = left /\ left[c] \in Nat
    BY <1>1, <1>3 DEF Write, TypeInv, InCall, callerVars, CallerTypes
  <2> QED
    BY <1>3, <2>1
<1> HIDE DEF d
<1> QED
  BY <1>2, <1>3, NextOnce DEF d

LEMMA NextExpected ==
    ASSUME TypeInv, UnderWay, [Next]_vars
    PROVE  Expected'
<1> CallerTypes /\ InCall
  BY DEF TypeInv
<1>1. ASSUME NEW r \in Requests, OnItsWay(r) \/ \E c \in Callers : Write(c) /\ r = req[c]
      PROVE  r \in mapping
  BY <1>1 DEF UnderWay, Expected, Write
\* A response takes away the callback of its own request only, which is nowhere else
\* and not about to be written.
<1>2. ASSUME NEW k \in Conns, Response(k) PROVE Expected'
  <2>1. PICK e \in Requests : /\ At("toClient", k, 1, e) /\ Moves("toClient", k, "none", e)
                              /\ mapping' \in {mapping, mapping \ {e}}
    BY <1>2, ResponseMoves
  <2>2. ASSUME NEW r \in Requests, OnItsWay(r)' PROVE r # e
    <3>1. PICK q \in Ways, l \in Conns, i \in Nat : At(q, l, i, r)'
      BY <2>2 DEF OnItsWay
    <3>2. \E n \in Nat : \/ q = "none" /\ l = k /\ i = n /\ r = e
                         \/ At(q, l, IF q = "toClient" /\ l = k THEN i + 1 ELSE i, r)
      BY <2>1, <3>1 DEF Moves
    <3>3. At(q, l, IF q = "toClient" /\ l = k THEN i + 1 ELSE i, r)
      BY <3>2 DEF Ways
    <3>4. ASSUME r = e PROVE FALSE
      <4>1. q = "toClient" /\ l = k /\ (IF q = "toClient" /\ l = k THEN i + 1 ELSE i) = 1
        BY <2>1, <3>3, <3>4 DEF UnderWay, Once, Ways
      <4> QED
        BY <3>1, <4>1, AtPositive
    <3> QED
      BY <3>4
  <2>3. ASSUME NEW c \in Callers, pc'[c] = "write" PROVE req'[c] \in mapping'
    <3>1. pc[c] = "write" /\ req'[c] = req[c]
      BY <1>2, <2>3, OthersStay
    <3>2. OnItsWay(e)
      BY <2>1 DEF OnItsWay, Ways
    <3>3. req[c] # e
      BY <3>1, <3>2 DEF UnderWay, Sent, InCall
    <3>4. req[c] \in mapping
      BY <3>1 DEF UnderWay, Expected
    <3> QED
      BY <2>1, <3>1, <3>3, <3>4
  <2>4. ASSUME NEW r \in Requests, OnItsWay(r)' PROVE r \in mapping'
    <3>1. \A c \in Callers : ~(Write(c) /\ pc'[c] = "wait")
      <4>1. ASSUME NEW c \in Callers, Write(c), pc'[c] = "wait" PROVE FALSE
        <5>1. pc[c] = "write" /\ pc'[c] \in {pc[c], "idle"}
          BY <1>2, <4>1, OthersStay DEF Write
        <5> QED
          BY <4>1, <5>1
      <4> QED
        BY <4>1
    <3>2. OnItsWay(r)
      BY <2>4, <3>1, NextOnce
    <3> QED
      BY <1>1, <2>1, <2>2, <2>4, <3>2
  <2> QED
    BY <2>3, <2>4 DEF Expected
<1>3. CASE mapping \subseteq mapping'
  <2>1. ASSUME NEW r \in Requests, OnItsWay(r)' PROVE r \in mapping'
    BY <1>1, <1>3, <2>1, NextOnce
  <2>2. ASSUME NEW c \in Callers, pc'[c] = "write" PROVE req'[c] \in mapping'
    <3>1. CASE pc[c] = "write" /\ req'[c] = req[c]
      BY <1>3, <3>1 DEF UnderWay, Expected
    <3>2. CASE CallerStep(c)
      <4>1. AddCallBack(c)
        BY <2>2, <3>2 DEF CallerStep, Invoke, GetPool, NewPool, Pick, Lock, Create, Refused,
              Store, Return, Write, GetInterrupted, Throw, Go, CallerTypes
      <4> QED
        BY <4>1 DEF AddCallBack, callerVars
    <3>3. CASE UNCHANGED vars
      BY <2>2, <3>1, <3>3 DEF vars
    <3> QED
      BY <2>2, <3>1, <3>2, <3>3, NextSplit, OthersStay
  <2> QED
    BY <2>1, <2>2 DEF Expected
<1>4. ASSUME NEW c \in Callers, CallerStep(c) PROVE mapping \subseteq mapping'
  BY <1>4 DEF CallerStep, Invoke, GetPool, NewPool, Pick, Lock, Create, Refused, Store, Return,
              AddCallBack, Write, GetInterrupted
<1>5. ASSUME NEW k \in Conns, ServerRead(k) \/ ServerRun(k) \/ Close(k)
      PROVE  mapping \subseteq mapping'
  BY <1>5 DEF ServerRead, ServerRun, Close
<1>6. UNCHANGED vars => mapping \subseteq mapping'
  BY DEF vars
<1> QED
  BY <1>2, <1>3, <1>4, <1>5, <1>6, NextSplit

LEMMA InitUnderWay ==
    ASSUME IsFiniteSet(Callers), Init
    PROVE  TypeInv /\ UnderWay
<1>1. \A q \in Ways, k \in Conns, i \in Nat, r \in Requests : ~At(q, k, i, r)
  BY DEF Init, At
<1> QED
  BY <1>1, InitTypeInv DEF Init, UnderWay, Once, Sent, Expected, OnItsWay

\* With every fault and in both copies, the callback of a request is registered
\* for as long as the request, its task or its response is under way, so that
\* runCallRack finds it.
THEOREM ResponsesExpected ==
    ASSUME IsFiniteSet(Callers)
    PROVE  Spec => []AnswersExpected
<1>1. Init => TypeInv /\ UnderWay
  BY InitUnderWay
<1>2. TypeInv /\ UnderWay /\ [Next]_vars => (TypeInv /\ UnderWay)'
  BY NextTypeInv, NextOnce, NextSent, NextExpected DEF UnderWay
<1>3. TypeInv /\ UnderWay => AnswersExpected
  BY UnderIsAt DEF TypeInv, UnderWay
<1> QED
  BY <1>1, <1>2, <1>3, PTL DEF Spec
-----------------------------------------------------------------------------
(* RpcClient implements RemoteCalls                                        *)

LEMMA ItemsTail ==
    ASSUME NEW S, NEW s \in Seq(S), s # <<>>
    PROVE  Items(s) = {Head(s)} \cup Items(Tail(s))
<1>1. 1 \in 1..Len(s) /\ s[1] = Head(s) /\ Len(s) \in Nat
  OBVIOUS
<1>2. Items(s) \subseteq {Head(s)} \cup Items(Tail(s))
  <2> SUFFICES ASSUME NEW i \in 1..Len(s), i # 1 PROVE s[i] \in Items(Tail(s))
    BY <1>1 DEF Items
  <2>1. i - 1 \in 1..Len(Tail(s)) /\ Tail(s)[i - 1] = s[i]
    BY <1>1
  <2> QED
    BY <2>1 DEF Items
<1>3. Items(Tail(s)) \subseteq Items(s)
  <2> SUFFICES ASSUME NEW i \in 1..Len(Tail(s)) PROVE Tail(s)[i] \in Items(s)
    BY DEF Items
  <2>1. i + 1 \in 1..Len(s) /\ Tail(s)[i] = s[i + 1]
    BY TailAt
  <2> QED
    BY <2>1 DEF Items
<1>4. Head(s) \in Items(s)
  BY <1>1 DEF Items
<1> QED
  BY <1>2, <1>3, <1>4

LEMMA ItemsAppend ==
    ASSUME NEW S, NEW s \in Seq(S), NEW e \in S
    PROVE  Items(Append(s, e)) = Items(s) \cup {e}
<1>1. Len(Append(s, e)) = Len(s) + 1 /\ Len(s) \in Nat /\ Append(s, e)[Len(s) + 1] = e
  OBVIOUS
<1>2. \A i \in 1..Len(s) : Append(s, e)[i] = s[i]
  OBVIOUS
<1>3. 1..Len(s) + 1 = (1..Len(s)) \cup {Len(s) + 1}
  BY <1>1
<1> QED
  BY <1>1, <1>2, <1>3 DEF Items

\* Both in terms of the place of a request, for the facts about UnderWay.
LEMMA WhereRequested ==
    ASSUME NEW r
    PROVE  /\ r \in Requested =>
                \E q \in {"toServer", "tasks"}, k \in Conns, i \in Nat : At(q, k, i, r)
           /\ \A q \in {"toServer", "tasks"}, k \in Conns :
                \A i : At(q, k, i, r) => r \in Requested
<1>1. ASSUME r \in Requested
      PROVE  \E q \in {"toServer", "tasks"}, k \in Conns, i \in Nat : At(q, k, i, r)
  <2>1. PICK k \in Conns : r \in Items(toServer[k]) \/ r \in Items(tasks[k])
    BY <1>1 DEF Requested
  <2>2. \/ \E i \in 1..Len(toServer[k]) : toServer[k][i] = r
        \/ \E i \in 1..Len(tasks[k]) : tasks[k][i] = r
    BY <2>1 DEF Items
  <2> QED
    BY <2>2 DEF At
<1>2. ASSUME NEW k \in Conns, NEW i, At("toServer", k, i, r) \/ At("tasks", k, i, r)
      PROVE  r \in Requested
  <2>1. r \in Items(toServer[k]) \/ r \in Items(tasks[k])
    BY <1>2 DEF At, Items
  <2> QED
    BY <2>1 DEF Requested
<1> QED
  BY <1>1, <1>2

\* A step that touches the queues of connection k only.
Touches(k) ==
    \A l \in Conns \ {k} :
        /\ toServer'[l] = toServer[l]
        /\ tasks'[l] = tasks[l]
        /\ toClient'[l] = toClient[l]

LEMMA RequestedBy ==
    ASSUME NEW k \in Conns, Touches(k)
    PROVE  /\ Requested' \subseteq Requested \cup Items(toServer'[k]) \cup Items(tasks'[k])
           /\ Requested \subseteq Requested' \cup Items(toServer[k]) \cup Items(tasks[k])
           /\ Items(toServer'[k]) \cup Items(tasks'[k]) \subseteq Requested'
           /\ Items(toServer[k]) \cup Items(tasks[k]) \subseteq Requested
<1>1. \A l \in Conns \ {k} : /\ Items(toServer'[l]) = Items(toServer[l])
                             /\ Items(tasks'[l]) = Items(tasks[l])
  BY DEF Touches
<1>2. Requested' = UNION {Items(toServer'[l]) \cup Items(tasks'[l]) : l \in Conns}
  BY DEF Requested, Items
<1> QED
  BY <1>1, <1>2 DEF Requested

LEMMA RespondedBy ==
    ASSUME NEW k \in Conns, Touches(k)
    PROVE  /\ Responded' \subseteq Responded \cup Items(toClient'[k])
           /\ Responded \subseteq Responded' \cup Items(toClient[k])
           /\ Items(toClient'[k]) \subseteq Responded'
           /\ Items(toClient[k]) \subseteq Responded
<1>1. \A l \in Conns \ {k} : Items(toClient'[l]) = Items(toClient[l])
  BY DEF Touches
<1>2. Responded' = UNION {Items(toClient'[l]) : l \in Conns}
  BY DEF Responded, Items
<1> QED
  BY <1>1, <1>2 DEF Responded

LEMMA QueuesKept ==
    ASSUME UNCHANGED netVars
    PROVE  Requested' = Requested /\ Responded' = Responded
  BY DEF netVars, Requested, Responded, Items

\* A write adds a request, or is lost with its connection.
LEMMA WriteSends ==
    ASSUME TypeInv, NEW c \in Callers, Write(c)
    PROVE  Requested' \in {Requested, Requested \cup {req[c]}} /\ Responded' = Responded
<1>1. CASE toServer' = toServer
  BY <1>1, QueuesKept DEF Write, netVars
<1>2. CASE toServer' # toServer
  <2> DEFINE k == chan[c]
  <2>1. /\ toServer' = [toServer EXCEPT ![k] = Append(@, req[c])]
        /\ UNCHANGED <<tasks, toClient>>
    BY <1>2 DEF Write
  <2>2. k \in Conns
    BY <1>2, WriteMoves
  <2>3. toServer \in [Conns -> Seq(Requests)] /\ req[c] \in Requests
    BY DEF TypeInv, NetTypes, InCall, Write
  <2> HIDE DEF k
  <2>4. Items(toServer'[k]) = Items(toServer[k]) \cup {req[c]}
    BY <2>1, <2>2, <2>3, ItemsAppend
  <2>5. Touches(k)
    BY <2>1, <2>2, <2>3 DEF Touches
  <2>6. Items(tasks'[k]) = Items(tasks[k]) /\ Items(toClient'[k]) = Items(toClient[k])
    BY <2>1
  <2>7. Requested' = Requested \cup {req[c]}
    BY <2>2, <2>4, <2>5, <2>6, RequestedBy
  <2>8. Responded' = Responded
    BY <2>2, <2>5, <2>6, RespondedBy
  <2> QED
    BY <2>7, <2>8
<1> QED
  BY <1>1, <1>2

\* The server reads a request that was sent; a connection that breaks loses what is on it.
LEMMA ReadAndCloseLose ==
    ASSUME TypeInv, NEW k \in Conns, ServerRead(k) \/ Close(k)
    PROVE  Requested' \subseteq Requested /\ Responded' \subseteq Responded
<1>1. /\ toServer \in [Conns -> Seq(Requests)] /\ tasks \in [Conns -> Seq(Requests)]
      /\ toClient \in [Conns -> Seq(Responses)]
  BY DEF TypeInv, NetTypes
<1>2. CASE ServerRead(k)
  <2> DEFINE e == Head(toServer[k])
  <2>1. /\ toServer[k] # <<>> /\ toServer' = [toServer EXCEPT ![k] = Tail(@)]
        /\ tasks' = tasks \/ tasks' = [tasks EXCEPT ![k] = Append(@, e)]
        /\ toClient' = toClient
    BY <1>2 DEF ServerRead
  <2>2. Touches(k)
    BY <1>1, <2>1 DEF Touches
  <2>3. e \in Requests /\ Items(toServer[k]) = {e} \cup Items(toServer'[k])
    BY <1>1, <2>1, ItemsTail
  <2> HIDE DEF e
  <2>4. Items(tasks'[k]) \subseteq Items(tasks[k]) \cup {e}
    <3>1. Items(Append(tasks[k], e)) = Items(tasks[k]) \cup {e}
      BY <1>1, <2>3, ItemsAppend
    <3> QED
      BY <1>1, <2>1, <3>1
  <2>5. Requested' \subseteq Requested
    BY <2>2, <2>3, <2>4, RequestedBy
  <2>6. Responded' \subseteq Responded
    BY <2>1, <2>2, RespondedBy
  <2> QED
    BY <2>5, <2>6
<1>3. CASE Close(k)
  <2>1. /\ toServer' = [toServer EXCEPT ![k] = <<>>]
        /\ toClient' = [toClient EXCEPT ![k] = <<>>] /\ tasks' = tasks
    BY <1>3 DEF Close
  <2>2. Touches(k)
    BY <1>1, <2>1 DEF Touches
  <2>3. Items(toServer'[k]) = {} /\ Items(toClient'[k]) = {}
    BY <1>1, <2>1 DEF Items
  <2> QED
    BY <2>1, <2>2, <2>3, RequestedBy, RespondedBy
<1> QED
  BY <1>2, <1>3

\* A task uses its request up: it is in no other place.
LEMMA RunExecutes ==
    ASSUME TypeInv, UnderWay, NEW k \in Conns, ServerRun(k)
    PROVE  \E e \in Requested :
             /\ Requested' = Requested \ {e}
             /\ Responded' \in {Responded, Responded \cup {Reply(e)}}
<1>1. PICK e \in Requests : At("tasks", k, 1, e) /\ Moves("tasks", k, "toClient", e)
  BY ServerRunMoves
<1>3. /\ toServer \in [Conns -> Seq(Requests)] /\ tasks \in [Conns -> Seq(Requests)]
      /\ toClient \in [Conns -> Seq(Responses)]
  BY DEF TypeInv, NetTypes
<1>2. /\ tasks[k] # <<>> /\ tasks' = [tasks EXCEPT ![k] = Tail(@)]
      /\ \/ toClient' = toClient
         \/ toClient' = [toClient EXCEPT ![k] = Append(@, Reply(e))]
      /\ toServer' = toServer
  <2>1. tasks[k] # <<>> /\ tasks[k] \in Seq(Requests) /\ tasks[k][1] = e
    BY <1>1, <1>3 DEF ServerRun, At
  <2>2. Head(tasks[k]) = e
    BY <2>1
  <2> QED
    BY <2>1, <2>2 DEF ServerRun
<1>4. Touches(k)
  BY <1>2, <1>3 DEF Touches
<1>5. e \in Requested
  BY <1>1, WhereRequested
<1>6. Items(tasks[k]) = {e} \cup Items(tasks'[k])
  <2>1. Head(tasks[k]) = e
    BY <1>1, <1>2, <1>3 DEF At
  <2>2. Items(tasks[k]) = {Head(tasks[k])} \cup Items(Tail(tasks[k]))
    BY <1>2, <1>3, ItemsTail
  <2> QED
    BY <1>2, <1>3, <2>1, <2>2
<1>7. Requested' \subseteq Requested /\ Requested \subseteq Requested' \cup {e}
  BY <1>2, <1>4, <1>6, RequestedBy
<1>8. e \notin Requested'
  <2> SUFFICES ASSUME e \in Requested' PROVE FALSE
    OBVIOUS
  <2>1. PICK l \in Conns : e \in Items(toServer'[l]) \/ e \in Items(tasks'[l])
    BY DEF Requested, Items
  <2>2. \E q \in {"toServer", "tasks"}, i \in Nat : At(q, l, i, e)'
    BY <2>1 DEF At, Items
  <2>3. PICK q \in {"toServer", "tasks"}, i \in Nat : At(q, l, i, e)'
    BY <2>2
  <2>4. At(q, l, IF q = "tasks" /\ l = k THEN i + 1 ELSE i, e)
    BY <1>1, <2>3 DEF Moves, Ways
  <2>5. q = "tasks" /\ l = k /\ i + 1 = 1
    BY <1>1, <2>3, <2>4 DEF UnderWay, Once, Ways
  <2> QED
    BY <2>3, <2>5, AtPositive
<1>9. Responded' \in {Responded, Responded \cup {Reply(e)}}
  <2>1. Reply(e) \in Responses
    BY DEF Reply, Invoked, Responses
  <2>2. CASE toClient' = toClient
    BY <1>4, <2>2, RespondedBy
  <2>3. CASE toClient' = [toClient EXCEPT ![k] = Append(@, Reply(e))]
    <3>1. Items(toClient'[k]) = Items(toClient[k]) \cup {Reply(e)}
      BY <1>3, <2>1, <2>3, ItemsAppend
    <3> QED
      BY <1>4, <3>1, RespondedBy
  <2> QED
    BY <1>2, <2>2, <2>3
<1> QED
  BY <1>5, <1>7, <1>8, <1>9

\* A response is used up by the event loop that reads it, and by it alone.
LEMMA ResponseUsed ==
    ASSUME TypeInv, UnderWay, NEW k \in Conns, Response(k)
    PROVE  /\ Head(toClient[k]) \in Responded
           /\ Responded' = Responded \ {Head(toClient[k])}
           /\ Requested' = Requested
<1> DEFINE r == Head(toClient[k])
<1>1. PICK e \in Requests : At("toClient", k, 1, e) /\ Moves("toClient", k, "none", e)
  BY ResponseMoves
<1>2. toClient[k] # <<>> /\ toClient' = [toClient EXCEPT ![k] = Tail(@)]
      /\ UNCHANGED <<toServer, tasks>>
  BY DEF Response
<1>3. toClient \in [Conns -> Seq(Responses)]
  BY DEF TypeInv, NetTypes
<1>4. r.id = e
  <2>1. toClient[k][1].id = e /\ toClient[k] \in Seq(Responses)
    BY <1>1, <1>3 DEF At
  <2> QED
    BY <1>2, <2>1
<1>5. Items(toClient[k]) = {r} \cup Items(toClient'[k])
  BY <1>2, <1>3, ItemsTail
<1>6. Touches(k)
  BY <1>2, <1>3 DEF Touches
<1> HIDE DEF r
<1>7. r \in Responded /\ Responded' \subseteq Responded /\ Responded \subseteq Responded' \cup {r}
  BY <1>5, <1>6, RespondedBy
<1>8. r \notin Responded'
  <2> SUFFICES ASSUME r \in Responded' PROVE FALSE
    OBVIOUS
  <2>1. PICK l \in Conns : r \in Items(toClient'[l])
    BY DEF Responded, Items
  <2>2. PICK i \in Nat : At("toClient", l, i, e)'
    BY <1>4, <2>1 DEF At, Items
  <2>3. At("toClient", l, IF l = k THEN i + 1 ELSE i, e)
    BY <1>1, <2>2 DEF Moves, Ways
  <2>4. l = k /\ i + 1 = 1
    BY <1>1, <2>2, <2>3 DEF UnderWay, Once, Ways
  <2> QED
    BY <2>2, <2>4, AtPositive
<1>9. Requested' = Requested
  BY <1>2 DEF Requested, Items
<1> QED
  BY <1>7, <1>8, <1>9 DEF r

\* A caller moves between the stages by itself or by a response.
LEMMA StageMoves ==
    ASSUME CallerTypes, NEW c \in Callers, NEW next \in Places, Go(c, next)
    PROVE  Stage' = [Stage EXCEPT ![c] = IF next = "idle" THEN "idle"
                                         ELSE IF next = "wait" THEN "waiting" ELSE "calling"]
  BY DEF CallerTypes, Go, Stage

LEMMA InvokeImplements ==
    ASSUME TypeInv, NEW c \in Callers, Invoke(c)
    PROVE  Remote!RNext
<1> USE DEF Remote!Begin
<1> CallerTypes
  BY DEF TypeInv
<1>1. /\ pc[c] = "idle" /\ left[c] > 0 /\ left' = [left EXCEPT ![c] = @ - 1]
      /\ UNCHANGED netVars
  BY DEF Invoke
<1>2. Stage[c] = "idle" /\ Requested' = Requested /\ Responded' = Responded
  BY <1>1, QueuesKept DEF Stage
<1>3. PICK kind \in Kinds :
         /\ req' = [req EXCEPT ![c] = [caller |-> c, n |-> left[c], kind |-> kind]]
         /\ \/ /\ kind = "local"
               /\ answer' = [answer EXCEPT ![c] =
                     [id |-> [caller |-> c, n |-> left[c], kind |-> kind], value |-> "result"]]
               /\ UNCHANGED pc
            \/ /\ Go(c, "pool")
               /\ UNCHANGED answer
  BY DEF Invoke
<1>4. CASE Go(c, "pool") /\ UNCHANGED answer
  <2>1. Stage' = [Stage EXCEPT ![c] = "calling"]
    BY <1>4, StageMoves DEF Places
  <2>2. Remote!CallRemote(c, kind)
    BY <1>1, <1>2, <1>3, <1>4, <2>1 DEF Remote!CallRemote
  <2> QED
    BY <2>2 DEF Remote!RNext
<1>5. CASE /\ kind = "local" /\ UNCHANGED pc
           /\ answer' = [answer EXCEPT ![c] =
                     [id |-> [caller |-> c, n |-> left[c], kind |-> kind], value |-> "result"]]
  <2>1. Stage' = Stage
    BY <1>5 DEF Stage
  <2>2. req'[c] = [caller |-> c, n |-> left[c], kind |-> "local"]
    BY <1>3, <1>5 DEF CallerTypes
  <2>3. Remote!Execution(req'[c]) = [id |-> [caller |-> c, n |-> left[c], kind |-> kind],
                                     value |-> "result"]
    BY <1>5, <2>2 DEF Remote!Execution
  <2>4. Remote!CallLocal(c)
    BY <1>1, <1>2, <1>3, <1>5, <2>1, <2>2, <2>3 DEF Remote!CallLocal
  <2> QED
    BY <2>4 DEF Remote!RNext
<1> QED
  BY <1>3, <1>4, <1>5

\* getClient and the registration of the callback are invisible.
LEMMA PreparingIsInvisible ==
    ASSUME TypeInv, NEW c \in Callers,
           \/ GetPool(c) \/ NewPool(c) \/ Pick(c) \/ Lock(c) \/ Create(c) \/ Store(c)
           \/ Return(c) \/ AddCallBack(c)
    PROVE  UNCHANGED Remote!rvars
<1> CallerTypes
  BY DEF TypeInv
<1>1. UNCHANGED <<left, req, answer, netVars>>
  BY DEF GetPool, NewPool, Pick, Lock, Create, Store, Return, AddCallBack, callerVars
<1>2. \E next \in Places \ {"idle", "wait"} : Go(c, next)
  BY DEF GetPool, NewPool, Pick, Lock, Create, Store, Return, AddCallBack, Places
<1>3. pc[c] \notin {"idle", "wait"}
  BY DEF GetPool, NewPool, Pick, Lock, Create, Store, Return, AddCallBack
<1>4. Stage' = Stage
  BY <1>2, <1>3 DEF CallerTypes, Go, Stage
<1> QED
  BY <1>1, <1>4, QueuesKept DEF Remote!rvars

\* An exception leaves the call at once.
LEMMA ThrowImplements ==
    ASSUME TypeInv, NEW c \in Callers, Throw(c), pc[c] # "idle",
           UNCHANGED <<left, req, netVars>>
    PROVE  Remote!RNext
<1>1. Stage[c] # "idle"
  BY DEF Stage
<1>2. Stage' = [Stage EXCEPT ![c] = "idle"]
  BY StageMoves DEF Throw, TypeInv, Places
<1>3. answer' = [answer EXCEPT ![c] = Remote!Exception]
  BY DEF Throw, Failed, NoCall, Remote!Exception, Remote!NoRequest
<1>4. Remote!ThrowException(c)
  BY <1>1, <1>2, <1>3, QueuesKept DEF Remote!ThrowException
<1> QED
  BY <1>4 DEF Remote!RNext

LEMMA WriteImplements ==
    ASSUME TypeInv, NEW c \in Callers, Write(c)
    PROVE  Remote!RNext
<1>1. pc[c] = "write" /\ UNCHANGED <<left, req, tasks, toClient>>
  BY DEF Write, callerVars
<1>2. CASE Throw(c) /\ toServer' = toServer
  BY <1>1, <1>2, ThrowImplements DEF netVars
<1>3. CASE Go(c, "wait") /\ answer' = answer
  <2>1. Stage[c] = "calling"
    BY <1>1 DEF Stage
  <2>2. Stage' = [Stage EXCEPT ![c] = "waiting"]
    BY <1>3, StageMoves DEF TypeInv, Places
  <2>3. Remote!Send(c)
    BY <1>1, <1>3, <2>1, <2>2, WriteSends DEF Remote!Send
  <2> QED
    BY <2>3 DEF Remote!RNext
<1> QED
  BY <1>2, <1>3 DEF Write

LEMMA ServerImplements ==
    ASSUME TypeInv, UnderWay, NEW k \in Conns, ServerRead(k) \/ ServerRun(k) \/ Close(k)
    PROVE  Remote!RNext
<1>1. UNCHANGED <<pc, left, req, answer>>
  BY DEF ServerRead, ServerRun, Close, callerVars
<1>2. Stage' = Stage
  BY <1>1 DEF Stage
<1>3. CASE ServerRead(k) \/ Close(k)
  <2>1. Remote!Lose
    BY <1>1, <1>2, <1>3, ReadAndCloseLose DEF Remote!Lose
  <2> QED
    BY <2>1 DEF Remote!RNext
<1>4. CASE ServerRun(k)
  <2>1. PICK e \in Requested :
             /\ Requested' = Requested \ {e}
             /\ Responded' \in {Responded, Responded \cup {Reply(e)}}
    BY <1>4, RunExecutes
  <2>2. Reply(e) = Remote!Execution(e)
    BY DEF Reply, Invoked, Remote!Execution
  <2>3. Remote!Execute(e)
    BY <1>1, <1>2, <2>1, <2>2 DEF Remote!Execute
  <2> QED
    BY <2>3 DEF Remote!RNext
<1> QED
  BY <1>3, <1>4

LEMMA ResponseImplements ==
    ASSUME TypeInv, UnderWay, NEW k \in Conns, Response(k)
    PROVE  Remote!RNext
<1> DEFINE r == Head(toClient[k])
<1>1. /\ r \in Responded /\ Responded' = Responded \ {r} /\ Requested' = Requested
      /\ UNCHANGED <<left, req>>
  BY ResponseUsed DEF Response, callerVars
<1>2. CASE UNCHANGED <<pc, answer>>
  <2>1. Stage' = Stage
    BY <1>2 DEF Stage
  <2>2. Remote!Lose
    BY <1>1, <1>2, <2>1 DEF Remote!Lose
  <2> QED
    BY <2>2 DEF Remote!RNext
<1>3. CASE \E f \in Callback(r.id) :
             /\ req[f.caller] = f /\ pc[f.caller] = "wait"
             /\ answer' = [answer EXCEPT ![f.caller] = r]
             /\ Go(f.caller, "idle")
  <2>1. PICK f \in mapping :
             /\ f = r.id /\ req[f.caller] = f /\ pc[f.caller] = "wait"
             /\ answer' = [answer EXCEPT ![f.caller] = r]
             /\ Go(f.caller, "idle")
    BY <1>3 DEF Callback
  <2>2. f.caller \in Callers
    BY <2>1 DEF TypeInv, NetTypes, Requests
  <2>3. Stage[f.caller] = "waiting" /\ Stage' = [Stage EXCEPT ![f.caller] = "idle"]
    BY <2>1, <2>2, StageMoves DEF Stage, TypeInv, Places
  <2> HIDE DEF r
  <2>4. Remote!ReturnResult(f.caller)
    BY <1>1, <2>1, <2>3 DEF Remote!ReturnResult
  <2> QED
    BY <2>2, <2>4 DEF Remote!RNext
<1> QED
  BY <1>2, <1>3 DEF Response

LEMMA StepImplementsRemoteCalls ==
    ASSUME TypeInv, UnderWay, [Next]_vars
    PROVE  [Remote!RNext]_(Remote!rvars)
<1>1. CASE UNCHANGED vars
  BY <1>1, QueuesKept DEF vars, netVars, Stage, Remote!rvars
<1>2. ASSUME NEW c \in Callers, CallerStep(c)
      PROVE  Remote!RNext \/ UNCHANGED Remote!rvars
  <2>1. CASE Refused(c) \/ GetInterrupted(c)
    BY <2>1, ThrowImplements DEF Refused, GetInterrupted, callerVars
  <2> QED
    BY <1>2, <2>1, InvokeImplements, PreparingIsInvisible, WriteImplements DEF CallerStep
<1> QED
  BY <1>1, <1>2, NextSplit, ServerImplements, ResponseImplements

\* For any number of callers and calls, in both copies and with every fault, the pool,
\* the callback map and the event loops implement RemoteCalls: each request is sent
\* and executed at most once, whatever breaks in between, and a call returns the
\* result of its own request or an exception.
THEOREM RefinesRemoteCalls ==
    ASSUME IsFiniteSet(Callers)
    PROVE  Spec => ImplementsRemoteCalls
<1>1. Init => TypeInv /\ UnderWay /\ Remote!RInit
  <2> SUFFICES ASSUME Init PROVE Remote!RInit
    BY InitUnderWay
  <2>1. Requested = {} /\ Responded = {}
    BY DEF Init, Requested, Responded, Items
  <2>2. Stage = [c \in Callers |-> "idle"]
    BY DEF Init, Stage
  <2> QED
    BY <2>1, <2>2 DEF Init, Failed, NoCall, Remote!RInit, Remote!NoRequest, Remote!Exception
<1>2. TypeInv /\ UnderWay /\ [Next]_vars => (TypeInv /\ UnderWay)'
  BY NextTypeInv, NextOnce, NextSent, NextExpected DEF UnderWay
<1>3. TypeInv /\ UnderWay /\ [Next]_vars => [Remote!RNext]_(Remote!rvars)
  BY StepImplementsRemoteCalls
<1> QED
  BY <1>1, <1>2, <1>3, PTL DEF Spec, ImplementsRemoteCalls, Remote!RSpec
-----------------------------------------------------------------------------
(* Nobody waits for ever: locks                                            *)

LEMMA LoopsPlaces ==
    ASSUME CallerTypes, NEW k \in Conns, ServerRead(k) \/ ServerRun(k) \/ Response(k) \/ Close(k),
           NEW c \in Callers
    PROVE  /\ copy' = copy
           /\ pc'[c] = pc[c] \/ (pc[c] = "wait" /\ pc'[c] = "idle")
<1>1. copy' = copy
  BY DEF ServerRead, ServerRun, Response, Close, callerVars
<1> QED
  BY <1>1, OthersStay

\* The owner of the lock of slot j of pool q works on that slot.
OwnerWorks(q, j) ==
    pools[q].lock[j] # None =>
        /\ pools[q].lock[j] \in Callers
        /\ pc[pools[q].lock[j]] \in {"create", "store"}
        /\ pool[pools[q].lock[j]] = q /\ slot[pools[q].lock[j]] = j

OwnersWork == \A q \in 1..Len(pools), j \in Slots : OwnerWorks(q, j)

LEMMA NextOwnersWork ==
    ASSUME TypeInv, OwnersWork, [Next]_vars
    PROVE  OwnersWork'
<1> CallerTypes /\ PoolTypes /\ ConnTypes
  BY DEF TypeInv
<1>1. CASE UNCHANGED vars
  BY <1>1 DEF vars, OwnersWork, OwnerWorks
<1>2. ASSUME NEW k \in Conns, ServerRead(k) \/ ServerRun(k) \/ Response(k) \/ Close(k)
      PROVE  OwnersWork'
  <2>1. UNCHANGED <<pools, pool, slot>>
    BY <1>2, LoopsStep
  <2> SUFFICES ASSUME NEW q \in 1..Len(pools), NEW j \in Slots, pools[q].lock[j] # None
               PROVE  OwnerWorks(q, j)'
    BY <2>1 DEF OwnersWork, OwnerWorks
  <2>2. OwnerWorks(q, j)
    BY DEF OwnersWork
  <2> DEFINE d == pools[q].lock[j]
  <2>3. d \in Callers /\ pc[d] \in {"create", "store"}
    BY <2>2 DEF OwnerWorks
  <2>4. pc'[d] = pc[d]
    BY <1>2, <2>3, LoopsPlaces
  <2> QED
    BY <2>1, <2>2, <2>4 DEF OwnerWorks
<1>3. ASSUME NEW c \in Callers, CallerStep(c) PROVE OwnersWork'
  <2> SUFFICES ASSUME NEW q \in 1..Len(pools'), NEW j \in Slots, pools'[q].lock[j] # None
               PROVE  OwnerWorks(q, j)'
    BY DEF OwnersWork, OwnerWorks
  <2>1. CASE q \notin 1..Len(pools)
    <3>1. NewPool(c)
      BY <1>3, <2>1, PoolsCount
    <3> DEFINE new == [clients |-> [i \in Slots |-> Null], lock |-> [i \in Slots |-> None]]
    <3>2. pools' = Append(pools, new) /\ new.lock[j] = None
      BY <3>1 DEF NewPool
    <3> HIDE DEF new
    <3>3. q = Len(pools) + 1 /\ pools'[q] = new
      BY <2>1, <3>2 DEF PoolTypes
    <3> QED
      BY <3>2, <3>3
  <2>2. CASE q \in 1..Len(pools) /\ pools'[q].lock[j] = pools[q].lock[j]
    <3> DEFINE d == pools[q].lock[j]
    <3>1. d \in Callers /\ pc[d] \in {"create", "store"} /\ pool[d] = q /\ slot[d] = j
      BY <2>2 DEF OwnersWork, OwnerWorks
    <3>2. CASE d # c
      BY <1>3, <2>2, <3>1, <3>2, OthersStay, LocalsStay DEF OwnerWorks
    <3>3. CASE d = c
      <4>1. Create(c) \/ Store(c) \/ Refused(c)
        BY <1>3, <3>1, <3>3 DEF CallerStep, Invoke, GetPool, NewPool, Pick, Lock, Return,
           AddCallBack, Write, GetInterrupted
      <4>2. ~(Store(c) \/ Refused(c))
        BY <1>3, <2>2, <3>1, <3>3, SlotsStep
      <4>3. pc'[c] = "store" /\ UNCHANGED <<pool, slot>>
        BY <4>1, <4>2 DEF Create, Go, CallerTypes, poolVars
      <4> QED
        BY <2>2, <3>1, <3>3, <4>3 DEF OwnerWorks
    <3> QED
      BY <3>2, <3>3
  <2>3. CASE q \in 1..Len(pools) /\ pools'[q].lock[j] # pools[q].lock[j]
    <3>1. q = pool[c] /\ j = slot[c] /\ ~(Store(c) \/ Refused(c)) /\ Lock(c) /\ pc'[c] = "create"
      BY <1>3, <2>3, SlotsStep
    <3>2. pools'[q].lock[j] = c
      BY <1>3, <2>3, <3>1, SlotsStep
    <3>3. UNCHANGED <<pool, slot>>
      BY <3>1 DEF Lock
    <3> QED
      BY <3>1, <3>2, <3>3 DEF OwnerWorks
  <2> QED
    BY <2>1, <2>2, <2>3
<1> QED
  BY <1>1, <1>2, <1>3, NextSplit

\* The synchronized getClient of the older copy: who is in it has the monitor, and who
\* has the monitor is in it.
MonitorHeld ==
    /\ Multiplex => \A c \in Callers : pc[c] \in InGetClient <=> monitor = c
    /\ ~Multiplex => monitor = None

LEMMA NextMonitorHeld ==
    ASSUME TypeInv, MonitorHeld, [Next]_vars
    PROVE  MonitorHeld'
<1> CallerTypes /\ PoolTypes
  BY DEF TypeInv
<1>1. CASE UNCHANGED vars
  BY <1>1 DEF vars, MonitorHeld, Multiplex
<1>2. ASSUME NEW k \in Conns, ServerRead(k) \/ ServerRun(k) \/ Response(k) \/ Close(k)
      PROVE  MonitorHeld'
  <2>1. copy' = copy /\ monitor' = monitor
    BY <1>2 DEF ServerRead, ServerRun, Response, Close, callerVars, poolVars
  <2>2. \A c \in Callers : pc'[c] \in InGetClient <=> pc[c] \in InGetClient
    BY <1>2, LoopsPlaces DEF InGetClient
  <2> QED
    BY <2>1, <2>2 DEF MonitorHeld, Multiplex
<1>3. ASSUME NEW c \in Callers, CallerStep(c) PROVE MonitorHeld'
  <2>1. copy' = copy
    BY <1>3 DEF CallerStep, Invoke, GetPool, NewPool, Pick, Lock, Create, Refused, Store, Return,
                AddCallBack, Write, GetInterrupted, callerVars
  <2>2. \A d \in Callers \ {c} : pc'[d] = pc[d]
    BY <1>3, OthersStay
  <2>3. CASE GetPool(c)
    <3>1. /\ pc[c] = "pool" /\ (Multiplex => monitor = None)
          /\ monitor' = (IF Multiplex THEN c ELSE monitor) /\ pc'[c] \in InGetClient
      BY <2>3 DEF GetPool, Enter, Go, CallerTypes, InGetClient
    <3> QED
      BY <2>1, <2>2, <3>1, CallersAssumption DEF MonitorHeld, Multiplex
  <2>4. CASE NewPool(c) \/ Pick(c) \/ Lock(c) \/ Create(c) \/ Store(c)
    <3>1. monitor' = monitor /\ pc[c] \in InGetClient /\ pc'[c] \in InGetClient
      BY <2>4 DEF NewPool, Pick, Lock, Create, Store, Go, CallerTypes, InGetClient, poolVars
    <3> QED
      BY <2>1, <2>2, <3>1 DEF MonitorHeld, Multiplex
  <2>5. CASE Refused(c) \/ Return(c)
    <3>1. /\ monitor' = (IF Multiplex THEN None ELSE monitor)
          /\ pc[c] \in InGetClient /\ pc'[c] \notin InGetClient
      BY <2>5 DEF Refused, Return, Exit, Throw, Go, CallerTypes, InGetClient
    <3> QED
      BY <2>1, <2>2, <3>1, CallersAssumption DEF MonitorHeld, Multiplex
  <2>6. CASE Invoke(c) \/ AddCallBack(c) \/ Write(c) \/ GetInterrupted(c)
    <3>1. monitor' = monitor /\ pc[c] \notin InGetClient /\ pc'[c] \notin InGetClient
      BY <2>6 DEF Invoke, AddCallBack, Write, GetInterrupted, Throw, Go, CallerTypes, InGetClient,
                  poolVars
    <3> QED
      BY <2>1, <2>2, <3>1 DEF MonitorHeld, Multiplex
  <2> QED
    BY <1>3, <2>3, <2>4, <2>5, <2>6 DEF CallerStep
<1> QED
  BY <1>1, <1>2, <1>3, NextSplit

LockInv == OwnersWork /\ MonitorHeld

\* With every fault and in both copies, no caller keeps a lock and waits for another one:
\* who has the lock of a slot is connecting or storing there, and the monitor of the
\* older copy is with the one caller in getClient, also after a refused connection.
THEOREM LockOwnersMove ==
    ASSUME IsFiniteSet(Callers)
    PROVE  Spec => []LocksMove
<1>1. Init => TypeInv /\ LockInv
  BY InitTypeInv, CallersAssumption DEF Init, LockInv, OwnersWork, MonitorHeld, InGetClient
<1>2. TypeInv /\ LockInv /\ [Next]_vars => (TypeInv /\ LockInv)'
  BY NextTypeInv, NextOwnersWork, NextMonitorHeld DEF LockInv
<1>3. LockInv => LocksMove
  BY DEF LockInv, OwnersWork, OwnerWorks, MonitorHeld, LocksMove
<1> QED
  BY <1>1, <1>2, <1>3, PTL DEF Spec

-----------------------------------------------------------------------------
(* Nobody waits for ever: answers                                          *)

\* What the runs of calls that must end assume: connections stay up, the server has the
\* services, and their methods have arguments. Calls may throw, callers be interrupted
\* and connections be refused.
Undisturbed == "close" \notin Faults /\ Kinds \subseteq {"local", "plain", "throws"}

\* Connections at hand are open, and so are those with requests or tasks.
Steady ==
    /\ \A c \in Callers : chan[c] \in open \cup {Null}
    /\ \A p \in 1..Len(pools), i \in Slots : pools[p].clients[i] \in open \cup {Null}
    /\ \A k \in Conns : toServer[k] # <<>> \/ tasks[k] # <<>> => k \in open

\* A request is on its way, or its response is.
Pending(r) == r \in Requested \/ \E s \in Responded : s.id = r
Coming == \A c \in Callers : pc[c] = "wait" => Pending(req[c])

LEMMA NextSteady ==
    ASSUME Undisturbed, TypeInv, Steady, [Next]_vars
    PROVE  Steady'
<1> CallerTypes /\ PoolTypes /\ ConnTypes /\ NetTypes
  BY DEF TypeInv
<1>1. CASE UNCHANGED vars
  BY <1>1 DEF vars, netVars, Steady
<1>2. ASSUME NEW k \in Conns, ServerRead(k) \/ ServerRun(k) \/ Response(k) \/ Close(k)
      PROVE  Steady'
  <2>1. UNCHANGED <<pools, chan, open>>
    BY <1>2, LoopsStep DEF ServerRead, ServerRun, Response, Close, Undisturbed
  <2>2. \A l \in Conns : toServer'[l] # <<>> \/ tasks'[l] # <<>> => toServer[l] # <<>> \/ tasks[l] # <<>>
    BY <1>2 DEF ServerRead, ServerRun, Response, Close, Undisturbed, NetTypes
  <2> QED
    BY <2>1, <2>2 DEF Steady
<1>3. ASSUME NEW c \in Callers, CallerStep(c) PROVE Steady'
  <2>1. open \subseteq open'
    BY <1>3 DEF CallerStep, Invoke, GetPool, NewPool, Pick, Lock, Create, Refused, Store,
                Return, AddCallBack, Write, GetInterrupted
  <2>2. ASSUME NEW d \in Callers PROVE chan'[d] \in open' \cup {Null}
    <3>1. CASE d # c
      BY <1>3, <2>1, <3>1, LocalsStay DEF Steady
    <3>2. CASE d = c /\ Create(c)
      BY <3>2 DEF Create, ConnTypes
    <3>3. CASE d = c /\ Return(c)
      <4>1. pool[c] \in 1..Len(pools) /\ slot[c] \in Slots
        BY <3>3, SlotsInRange DEF Return
      <4>2. chan'[c] = Slot(c)
        BY <3>3 DEF Return, ConnTypes
      <4> QED
        BY <2>1, <3>3, <4>1, <4>2 DEF Slot, Steady
    <3>4. CASE d = c /\ ~Create(c) /\ ~Return(c)
      <4>1. chan' = chan
        BY <1>3, <3>4 DEF CallerStep, Invoke, GetPool, NewPool, Pick, Lock, Refused, Store,
                          AddCallBack, Write, GetInterrupted
      <4> QED
        BY <2>1, <4>1 DEF Steady
    <3> QED
      BY <3>1, <3>2, <3>3, <3>4
  <2>3. ASSUME NEW q \in 1..Len(pools'), NEW j \in Slots
        PROVE  pools'[q].clients[j] \in open' \cup {Null}
    <3>1. CASE q \in 1..Len(pools)
      BY <1>3, <2>1, <3>1, SlotsStep DEF Steady
    <3>2. CASE q \notin 1..Len(pools)
      <4>1. NewPool(c)
        BY <1>3, <3>2, PoolsCount
      <4> DEFINE new == [clients |-> [i \in Slots |-> Null], lock |-> [i \in Slots |-> None]]
      <4>2. pools' = Append(pools, new) /\ new.clients[j] = Null
        BY <4>1 DEF NewPool
      <4> HIDE DEF new
      <4>3. q = Len(pools) + 1 /\ pools'[q] = new
        BY <3>2, <4>2 DEF PoolTypes
      <4> QED
        BY <4>2, <4>3
    <3> QED
      BY <3>1, <3>2
  <2>4. ASSUME NEW l \in Conns, toServer'[l] # <<>> \/ tasks'[l] # <<>>
        PROVE  l \in open'
    <3>1. CASE toServer' = toServer /\ tasks' = tasks
      BY <2>1, <2>4, <3>1 DEF Steady
    <3>2. CASE ~(toServer' = toServer /\ tasks' = tasks)
      <4>1. Write(c)
        BY <1>3, <3>2 DEF CallerStep, Invoke, GetPool, NewPool, Pick, Lock, Create, Refused,
                          Store, Return, AddCallBack, GetInterrupted, netVars
      <4>2. /\ toServer' = [toServer EXCEPT ![chan[c]] = Append(@, req[c])]
            /\ chan[c] \in open /\ tasks' = tasks
        BY <3>2, <4>1 DEF Write
      <4>3. CASE l = chan[c]
        BY <2>1, <4>2, <4>3
      <4>4. CASE l # chan[c]
        <5>1. toServer'[l] = toServer[l]
          BY <4>2, <4>4 DEF NetTypes
        <5> QED
          BY <2>1, <2>4, <4>2, <5>1 DEF Steady
      <4> QED
        BY <4>3, <4>4
    <3> QED
      BY <3>1, <3>2
  <2> QED
    BY <2>2, <2>3, <2>4 DEF Steady
<1> QED
  BY <1>1, <1>2, <1>3, NextSplit

\* The server keeps what it reads, and answers what it has read.
LEMMA ServerReadKeeps ==
    ASSUME Undisturbed, TypeInv, NEW k \in Conns, ServerRead(k)
    PROVE  Requested \subseteq Requested' /\ Responded' = Responded
<1> DEFINE e == Head(toServer[k])
<1>1. toServer \in [Conns -> Seq(Requests)] /\ tasks \in [Conns -> Seq(Requests)]
  BY DEF TypeInv, NetTypes
<1>2. e \in Requests
  BY <1>1 DEF ServerRead
<1>3. e.kind # "noargs"
  BY <1>2 DEF Requests, Undisturbed
<1>4. /\ toServer[k] # <<>> /\ toServer' = [toServer EXCEPT ![k] = Tail(@)]
      /\ tasks' = [tasks EXCEPT ![k] = Append(@, e)] /\ toClient' = toClient
  BY <1>3 DEF ServerRead
<1>5. Touches(k)
  BY <1>1, <1>4 DEF Touches
<1>6. Items(toServer[k]) = {e} \cup Items(toServer'[k])
  BY <1>1, <1>4, ItemsTail
<1> HIDE DEF e
<1>7. Items(tasks'[k]) = Items(tasks[k]) \cup {e}
  BY <1>1, <1>2, <1>4, ItemsAppend
<1>8. Requested \subseteq Requested'
  BY <1>5, <1>6, <1>7, RequestedBy
<1>9. Responded' = Responded
  BY <1>4, <1>5, RespondedBy
<1> QED
  BY <1>8, <1>9

LEMMA ServerRunKeeps ==
    ASSUME Undisturbed, TypeInv, UnderWay, Steady, NEW k \in Conns, ServerRun(k)
    PROVE  \E e \in Requested : /\ Requested' = Requested \ {e}
                                /\ Responded' = Responded \cup {Reply(e)}
<1> DEFINE e == Head(tasks[k])
<1>1. /\ tasks \in [Conns -> Seq(Requests)] /\ toClient \in [Conns -> Seq(Responses)]
      /\ toServer \in [Conns -> Seq(Requests)]
  BY DEF TypeInv, NetTypes
<1>2. tasks[k] # <<>> /\ e \in Requests /\ k \in open
  BY <1>1 DEF ServerRun, Steady
<1>3. e.kind # "unregistered"
  BY <1>2 DEF Requests, Undisturbed
<1>4. /\ tasks' = [tasks EXCEPT ![k] = Tail(@)] /\ toServer' = toServer
      /\ toClient' = [toClient EXCEPT ![k] = Append(@, Reply(e))]
  BY <1>2, <1>3 DEF ServerRun
<1>5. Touches(k)
  BY <1>1, <1>4 DEF Touches
<1>6. Reply(e) \in Responses
  BY <1>2 DEF Reply, Invoked, Responses
<1>7. Items(tasks[k]) = {e} \cup Items(tasks'[k])
  BY <1>1, <1>2, <1>4, ItemsTail
<1>8. PICK x \in Requested : /\ Requested' = Requested \ {x}
                             /\ Responded' \in {Responded, Responded \cup {Reply(x)}}
  BY RunExecutes
<1> HIDE DEF e
<1>9. Items(toClient'[k]) = Items(toClient[k]) \cup {Reply(e)}
  BY <1>1, <1>4, <1>6, ItemsAppend
<1>10. Responded' = Responded \cup {Reply(e)}
  BY <1>5, <1>9, RespondedBy
<1>11. Requested \subseteq Requested' \cup {e}
  BY <1>4, <1>5, <1>7, RequestedBy
<1>12. x = e
  BY <1>8, <1>11
<1> QED
  BY <1>8, <1>10, <1>12

LEMMA OpenInConns ==
    ASSUME IsFiniteSet(Callers), TypeInv, NEW k \in open
    PROVE  k \in Conns
<1>1. Total \in Nat /\ Conns = 1..Total
  BY TotalIsNat
<1>2. conns \in 0..Total /\ k \in 1..conns
  BY DEF TypeInv, ConnTypes
<1> QED
  BY <1>1, <1>2

LEMMA NextComing ==
    ASSUME IsFiniteSet(Callers), Undisturbed, TypeInv, UnderWay, Steady, Coming, [Next]_vars
    PROVE  Coming'
<1> SUFFICES ASSUME NEW c \in Callers, pc'[c] = "wait" PROVE Pending(req[c])'
  BY DEF Coming, Pending, Requested, Responded, Items
<1> CallerTypes /\ NetTypes /\ InCall
  BY DEF TypeInv
<1>0. ASSUME pc[c] = "wait", req'[c] = req[c], Requested \subseteq Requested', Responded \subseteq Responded'
      PROVE  Pending(req[c])'
  BY <1>0 DEF Coming, Pending
<1>1. CASE UNCHANGED vars
  BY <1>0, <1>1, QueuesKept DEF vars, netVars
<1>2. ASSUME NEW k \in Conns, ServerRead(k) \/ ServerRun(k) \/ Response(k) \/ Close(k)
      PROVE  Pending(req[c])'
  <2>1. pc[c] = "wait" /\ req' = req
    BY <1>2, OthersStay
  <2>2. CASE ServerRead(k)
    BY <1>0, <2>1, <2>2, ServerReadKeeps
  <2>3. CASE ServerRun(k)
    <3>1. PICK e \in Requested : /\ Requested' = Requested \ {e}
                                 /\ Responded' = Responded \cup {Reply(e)}
      BY <2>3, ServerRunKeeps
    <3>2. Reply(e).id = e
      BY DEF Reply
    <3>3. Pending(req[c])
      BY <2>1 DEF Coming
    <3> QED
      BY <2>1, <3>1, <3>2, <3>3 DEF Pending
  <2>4. CASE Response(k)
    <3> DEFINE r == Head(toClient[k])
    <3>1. r \in Responded /\ Responded' = Responded \ {r} /\ Requested' = Requested
      BY <2>4, ResponseUsed
    <3>2. ASSUME r.id = req[c] PROVE FALSE
      <4>1. r.id \in mapping
        <5>1. PICK e \in Requests : At("toClient", k, 1, e)
          BY <2>4, ResponseMoves
        <5>2. toClient[k] \in Seq(Responses) /\ toClient[k] # <<>> /\ toClient[k][1].id = e
          BY <2>4, <5>1 DEF At, Response, NetTypes
        <5>3. r.id = e
          BY <5>2
        <5>4. OnItsWay(e)
          BY <5>1 DEF OnItsWay, Ways
        <5> QED
          BY <5>1, <5>3, <5>4 DEF UnderWay, Expected
      <4>2. req[c].caller = c
        BY <2>1 DEF InCall
      <4>3. pc'[c] = "idle"
        BY <2>1, <2>4, <3>2, <4>1, <4>2 DEF Response, Callback, Go, CallerTypes
      <4> QED
        BY <4>3
    <3> HIDE DEF r
    <3>3. Pending(req[c])
      BY <2>1 DEF Coming
    <3> QED
      BY <2>1, <3>1, <3>2, <3>3 DEF Pending
  <2>5. ~Close(k)
    BY DEF Close, Undisturbed
  <2> QED
    BY <1>2, <2>2, <2>3, <2>4, <2>5
<1>3. ASSUME NEW d \in Callers, CallerStep(d) PROVE Pending(req[c])'
  <2>1. CASE Write(d)
    <3>1. Responded' = Responded /\ Requested \subseteq Requested' /\ req' = req
      BY <2>1, WriteSends DEF Write, callerVars
    <3>2. CASE d # c
      <4>1. pc'[c] = pc[c]
        BY <1>3, <3>2, OthersStay
      <4> QED
        BY <1>0, <3>1, <4>1
    <3>3. CASE d = c
      <4>1. chan[c] \in open \cup {Null}
        BY DEF Steady
      <4>2. pc'[c] # "idle"
        OBVIOUS
      <4>3. /\ chan[c] \in open /\ UNCHANGED <<tasks, toClient>>
            /\ toServer' = [toServer EXCEPT ![chan[c]] = Append(@, req[c])]
        BY <2>1, <3>3, <4>1, <4>2 DEF Write, Throw, Go, CallerTypes
      <4>4. chan[c] \in Conns /\ req[c] \in Requests
        BY <2>1, <3>3, <4>3, OpenInConns DEF Write, InCall
      <4>5. req[c] \in Items(toServer'[chan[c]])
        BY <4>3, <4>4, ItemsAppend DEF NetTypes
      <4>6. req[c] \in Requested'
        BY <4>4, <4>5 DEF Requested, Items
      <4> QED
        BY <3>1, <4>6 DEF Pending
    <3> QED
      BY <3>2, <3>3
  <2>2. CASE ~Write(d)
    <3>1. UNCHANGED netVars
      BY <1>3, <2>2 DEF CallerStep, Invoke, GetPool, NewPool, Pick, Lock, Create, Refused,
                        Store, Return, AddCallBack, GetInterrupted
    <3>2. d # c
      BY <1>3, <2>2 DEF CallerStep, Invoke, GetPool, NewPool, Pick, Lock, Create, Refused,
                        Store, Return, AddCallBack, GetInterrupted, Throw, Go, CallerTypes
    <3>3. pc'[c] = pc[c] /\ req'[c] = req[c]
      BY <1>3, <3>2, OthersStay
    <3> QED
      BY <1>0, <3>1, <3>3, QueuesKept
  <2> QED
    BY <2>1, <2>2
<1> QED
  BY <1>1, <1>2, <1>3, NextSplit

ComingInv == TypeInv /\ UnderWay /\ Steady /\ Coming

LEMMA ComingHolds ==
    ASSUME IsFiniteSet(Callers), Undisturbed
    PROVE  Spec => []ComingInv
<1>1. Init => ComingInv
  BY InitUnderWay DEF Init, ComingInv, Steady, Coming
<1>2. ComingInv /\ [Next]_vars => ComingInv'
  BY NextTypeInv, NextOnce, NextSent, NextExpected, NextSteady, NextComing DEF ComingInv, UnderWay
<1> QED
  BY <1>1, <1>2, PTL DEF Spec

LEMMA ComingSuffices ==
    ASSUME ComingInv
    PROVE  AnswersComing
<1> SUFFICES ASSUME NEW c \in Callers, pc[c] = "wait" PROVE \E k \in Conns : req[c] \in Under(k)
  BY DEF AnswersComing
<1>1. Pending(req[c])
  BY DEF ComingInv, Coming
<1>2. CASE req[c] \in Requested
  BY <1>2 DEF Requested, Items, Under
<1>3. CASE \E s \in Responded : s.id = req[c]
  BY <1>3 DEF Responded, Items, Under
<1> QED
  BY <1>1, <1>2, <1>3 DEF Pending

\* While connections stay up, nothing is lost on the way: whoever waits has its request,
\* its task or its response on some connection, for any calls in any order.
THEOREM WaitersAnswered ==
    ASSUME IsFiniteSet(Callers), Undisturbed
    PROVE  Spec => []AnswersComing
  BY ComingHolds, ComingSuffices, PTL

LEMMA LockMoves ==
    ASSUME TypeInv, LockInv, NEW c \in Callers, pc[c] = "lock"
    PROVE  \E d \in Callers : CanRun(d)
<1>1. pool[c] \in 1..Len(pools) /\ slot[c] \in Slots
  BY SlotsInRange
<1>2. CASE Owner(c) = None
  BY <1>2 DEF CanRun
<1>3. CASE Owner(c) # None
  BY <1>1, <1>3 DEF LockInv, OwnersWork, OwnerWorks, Owner, CanRun
<1> QED
  BY <1>2, <1>3

LEMMA StuckNever ==
    ASSUME TypeInv, LockInv, AnswersComing
    PROVE  NeverStuck
<1> SUFFICES ASSUME NEW c \in Callers, pc[c] # "idle"
             PROVE  (\E d \in Callers : CanRun(d)) \/ (\E k \in Conns : Busy(k))
  BY DEF NeverStuck
<1>1. CASE pc[c] \in {"newpool", "pick", "create", "store", "return", "add", "write"}
  BY <1>1 DEF CanRun
<1>2. CASE pc[c] = "lock"
  BY <1>2, LockMoves
<1>3. CASE pc[c] = "pool"
  <2>1. CASE Multiplex => monitor = None
    BY <1>3, <2>1 DEF CanRun
  <2>2. CASE Multiplex /\ monitor # None
    <3>1. monitor \in Callers /\ pc[monitor] \in InGetClient
      BY <2>2 DEF LockInv, MonitorHeld, TypeInv, PoolTypes
    <3>2. CASE pc[monitor] = "lock"
      BY <3>1, <3>2, LockMoves
    <3>3. CASE pc[monitor] # "lock"
      BY <3>1, <3>3 DEF CanRun, InGetClient
    <3> QED
      BY <3>2, <3>3
  <2> QED
    BY <2>1, <2>2
<1>4. CASE pc[c] = "wait"
  <2>1. PICK k \in Conns : req[c] \in Under(k)
    BY <1>4 DEF AnswersComing
  <2>2. \/ \E i \in 1..Len(toServer[k]) : req[c] = toServer[k][i]
        \/ \E i \in 1..Len(tasks[k]) : req[c] = tasks[k][i]
        \/ \E i \in 1..Len(toClient[k]) : req[c] = toClient[k][i].id
    BY <2>1 DEF Under
  <2>3. Busy(k)
    BY <2>2 DEF Busy
  <2> QED
    BY <2>3
<1> QED
  BY <1>1, <1>2, <1>3, <1>4 DEF TypeInv, CallerTypes, Places

\* No deadlock, for any number of callers, slots and calls: while somebody is in a call
\* some caller can take a step or some event loop has something to do. The monitor, the
\* locks of the slots and the futures never wait for each other in a circle.
THEOREM NoDeadlock ==
    ASSUME IsFiniteSet(Callers), Undisturbed
    PROVE  Spec => []NeverStuck
<1>1. Init => LockInv
  BY CallersAssumption DEF Init, LockInv, OwnersWork, MonitorHeld, InGetClient
<1>2. TypeInv /\ LockInv /\ [Next]_vars => LockInv'
  BY NextOwnersWork, NextMonitorHeld DEF LockInv
<1>3. ComingInv /\ LockInv => NeverStuck
  BY ComingSuffices, StuckNever DEF ComingInv
<1> QED
  BY <1>1, <1>2, <1>3, ComingHolds, PTL DEF Spec, ComingInv

=============================================================================
