------------------------------ MODULE RpcClient ------------------------------
(***************************************************************************)
(* A call of the RPC demo over its own protocol, from the proxy to the     *)
(* server and back: the local or remote choice, the pool of connections    *)
(* with one lock per slot, the map from request ids to futures, the server *)
(* event loop of each connection and the client event loop of each         *)
(* connection.  Messages are whole here; FrameDecoder says how they are    *)
(* cut out of the byte stream.  ClientFactory.transport of rpcdemo chooses *)
(* between this protocol and HTTP by a constant in the source; the older   *)
(* copy Multiplex04RPC has only this one.                                  *)
(***************************************************************************)
EXTENDS Naturals, Sequences, FiniteSets

CONSTANTS
    Callers,    \* threads calling a proxy
    None,       \* no thread
    Calls,      \* calls per thread
    PoolSize,   \* pollSize: 5 in rpcdemo, 10 in Multiplex04RPC
    Kinds,      \* the kinds of calls made: see KindsAssumption
    Copies,     \* the copies of the program looked at: see CopiesAssumption
    Faults      \* a subset of {"close", "refuse", "interrupt"}

\* "local": the service is in the caller's own Dispatcher.  The others are remote:
\* "plain" returns a result, "throws" has a method that throws, "unregistered" is
\* of a service the server does not have, "noargs" is of a method without arguments.
ASSUME KindsAssumption ==
    Kinds \subseteq {"local", "plain", "throws", "unregistered", "noargs"}
ASSUME CallersAssumption == None \notin Callers /\ Calls \in Nat /\ PoolSize \in Nat \ {0}
\* "rpcdemo" is the package of that name, "multiplex" the older Multiplex04RPC.
ASSUME CopiesAssumption == Copies # {} /\ Copies \subseteq {"rpcdemo", "multiplex"}
ASSUME FaultsAssumption == Faults \subseteq {"close", "refuse", "interrupt"}

Slots == 0..PoolSize - 1
Conns == 1..Cardinality(Callers) * Calls   \* one call makes one connection at most
Null == 0                                  \* no connection, no pool
NoCall == [caller |-> None, n |-> 0, kind |-> "local"]
Failed == [id |-> NoCall, value |-> "exception"]

VARIABLES
    copy,      \* the copy that runs; it never changes
    pc,        \* where each caller is
    left,      \* calls each caller has still to make
    req,       \* the call each caller is in; it stands for its request id
    answer,    \* what the last call of each caller returned
    pools,     \* every ClientPoll made: its connections and the owners of its locks
    outbox,    \* the pool outboxs has for the address
    pool,      \* clientPoll, the local variable of getClient
    slot,      \* i, the local variable of getClient
    chan,      \* the connection a caller has made or got
    monitor,   \* who is in the synchronized getClient (Multiplex only)
    conns,     \* how many connections have been made
    open,      \* the active ones
    mapping,   \* the futures registered with ResponseMappingCallback
    toServer,  \* requests under way, per connection
    tasks,     \* tasks of the server's event loop, per connection
    toClient   \* responses under way, per connection

callerVars == <<copy, left, req>>
poolVars == <<pools, outbox, pool, slot, monitor>>
netVars == <<toServer, tasks, toClient>>
vars == <<copy, pc, left, req, answer, pools, outbox, pool, slot, chan, monitor,
          conns, open, mapping, toServer, tasks, toClient>>

Init ==
    /\ copy \in Copies
    /\ pc = [c \in Callers |-> "idle"]
    /\ left = [c \in Callers |-> Calls]
    /\ req = [c \in Callers |-> NoCall]
    /\ answer = [c \in Callers |-> Failed]
    /\ pools = <<>>
    /\ outbox = Null
    /\ pool = [c \in Callers |-> Null]
    /\ slot = [c \in Callers |-> 0]
    /\ chan = [c \in Callers |-> Null]
    /\ monitor = None
    /\ conns = 0
    /\ open = {}
    /\ mapping = {}
    /\ toServer = [k \in Conns |-> <<>>]
    /\ tasks = [k \in Conns |-> <<>>]
    /\ toClient = [k \in Conns |-> <<>>]

Multiplex == copy = "multiplex"

Go(c, next) == pc' = [pc EXCEPT ![c] = next]
Throw(c) == Go(c, "idle") /\ answer' = [answer EXCEPT ![c] = Failed]

-----------------------------------------------------------------------------
(* InterfaceProxy.invoke: a registered service is called in place          *)

Invoke(c) ==
    /\ pc[c] = "idle"
    /\ left[c] > 0
    /\ left' = [left EXCEPT ![c] = @ - 1]
    /\ \E kind \in Kinds :
         LET call == [caller |-> c, n |-> left[c], kind |-> kind] IN
         /\ req' = [req EXCEPT ![c] = call]
         /\ \/ /\ kind = "local" /\ ~Multiplex
               /\ answer' = [answer EXCEPT ![c] = [id |-> call, value |-> "result"]]
               /\ UNCHANGED pc
            \/ /\ kind # "local"
               /\ Go(c, "pool")
               /\ UNCHANGED answer
    /\ UNCHANGED <<copy, poolVars, chan, conns, open, mapping, netVars>>

-----------------------------------------------------------------------------
(* ClientFactory.getClient                                                 *)

Slot(c) == pools[pool[c]].clients[slot[c]]
Owner(c) == pools[pool[c]].lock[slot[c]]
\* (Operators named Bad... are faulty forms of the one after them; no
\* specification uses them.  They are there to see the properties fail.)
BadEnter(c) == UNCHANGED monitor

Enter(c) == monitor' = IF Multiplex THEN c ELSE monitor
Exit(c) == monitor' = IF Multiplex THEN None ELSE monitor

GetPool(c) ==
    /\ pc[c] = "pool"
    /\ Multiplex => monitor = None
    /\ Enter(c)
    /\ pool' = [pool EXCEPT ![c] = outbox]
    /\ Go(c, IF outbox = Null THEN "newpool" ELSE "pick")
    /\ UNCHANGED <<callerVars, answer, pools, outbox, slot, chan, conns, open, mapping, netVars>>

\* The second test, in synchronized(outboxs), looks at the local variable again:
\* it is always true, whatever another thread has put in between.
NewPool(c) ==
    /\ pc[c] = "newpool"
    /\ pools' = Append(pools, [clients |-> [i \in Slots |-> Null],
                               lock |-> [i \in Slots |-> None]])
    /\ outbox' = Len(pools')
    /\ pool' = [pool EXCEPT ![c] = Len(pools')]
    /\ Go(c, "pick")
    /\ UNCHANGED <<callerVars, answer, slot, chan, monitor, conns, open, mapping, netVars>>

Pick(c) ==
    /\ pc[c] = "pick"
    /\ \E i \in Slots :
         /\ slot' = [slot EXCEPT ![c] = i]
         /\ Go(c, IF pools[pool[c]].clients[i] \in open THEN "return" ELSE "lock")
    /\ UNCHANGED <<callerVars, answer, pools, outbox, pool, chan, monitor, conns, open,
                   mapping, netVars>>

BadRecheck(c) == FALSE

Recheck(c) == Slot(c) \in open

Lock(c) ==
    /\ pc[c] = "lock"
    /\ Owner(c) = None
    /\ \/ /\ Recheck(c)
          /\ Go(c, "return")
          /\ UNCHANGED pools
       \/ /\ ~Recheck(c)
          /\ pools' = [pools EXCEPT ![pool[c]].lock[slot[c]] = c]
          /\ Go(c, "create")
    /\ UNCHANGED <<callerVars, answer, outbox, pool, slot, chan, monitor, conns, open,
                   mapping, netVars>>

\* create: connected; or the caller is interrupted while the event loop may yet
\* finish connecting, and gets null.
Create(c) ==
    /\ pc[c] = "create"
    /\ conns' = conns + 1
    /\ \/ /\ open' = open \cup {conns'}
          /\ chan' = [chan EXCEPT ![c] = conns']
       \/ /\ "interrupt" \in Faults
          /\ open' \in {open, open \cup {conns'}}
          /\ chan' = [chan EXCEPT ![c] = Null]
    /\ Go(c, "store")
    /\ UNCHANGED <<callerVars, answer, poolVars, mapping, netVars>>

\* create: sync() throws when the connection is refused, out of every lock.
Refused(c) ==
    /\ pc[c] = "create"
    /\ "refuse" \in Faults
    /\ pools' = [pools EXCEPT ![pool[c]].lock[slot[c]] = None]
    /\ Exit(c)
    /\ Throw(c)
    /\ UNCHANGED <<callerVars, outbox, pool, slot, chan, conns, open, mapping, netVars>>

Store(c) ==
    /\ pc[c] = "store"
    /\ pools' = [pools EXCEPT ![pool[c]].clients[slot[c]] = chan[c],
                              ![pool[c]].lock[slot[c]] = None]
    /\ Go(c, "return")
    /\ UNCHANGED <<callerVars, answer, outbox, pool, slot, chan, monitor, conns, open,
                   mapping, netVars>>

\* The array is read once more, outside the lock.
Return(c) ==
    /\ pc[c] = "return"
    /\ chan' = [chan EXCEPT ![c] = Slot(c)]
    /\ Exit(c)
    /\ Go(c, "add")
    /\ UNCHANGED <<callerVars, answer, pools, outbox, pool, slot, conns, open, mapping, netVars>>

-----------------------------------------------------------------------------
(* ClientFactory.rpcTransport                                              *)

BadAddCallBack(c) ==
    /\ pc[c] = "add"
    /\ Go(c, "write")
    /\ UNCHANGED <<callerVars, answer, poolVars, chan, conns, open, mapping, netVars>>

AddCallBack(c) ==
    /\ pc[c] = "add"
    /\ mapping' = mapping \cup {req[c]}
    /\ Go(c, "write")
    /\ UNCHANGED <<callerVars, answer, poolVars, chan, conns, open, netVars>>

\* writeAndFlush: a null connection is an exception; a closed one fails a write
\* whose future only the older copy looks at.
Write(c) ==
    /\ pc[c] = "write"
    /\ \/ /\ chan[c] \in open
          /\ toServer' = [toServer EXCEPT ![chan[c]] = Append(@, req[c])]
          /\ Go(c, "wait")
          /\ UNCHANGED answer
       \/ /\ chan[c] # Null /\ chan[c] \notin open /\ ~Multiplex
          /\ Go(c, "wait")
          /\ UNCHANGED <<answer, toServer>>
       \/ /\ chan[c] = Null \/ (chan[c] \notin open /\ Multiplex)
          /\ Throw(c)
          /\ UNCHANGED toServer
    /\ UNCHANGED <<callerVars, poolVars, chan, conns, open, mapping, tasks, toClient>>

\* completableFuture.get() without a time limit ends by an interrupt only.
GetInterrupted(c) ==
    /\ "interrupt" \in Faults
    /\ pc[c] = "wait"
    /\ Throw(c)
    /\ UNCHANGED <<callerVars, poolVars, chan, conns, open, mapping, netVars>>

-----------------------------------------------------------------------------
(* The event loops of connection k                                         *)

\* (A request handed over twice, as when its bytes stay in the buffer.)
BadServerRead(k) ==
    /\ toServer[k] # <<>>
    /\ tasks' = [tasks EXCEPT ![k] = Append(@, Head(toServer[k]))]
    /\ UNCHANGED <<pc, callerVars, answer, poolVars, chan, conns, open, mapping, toServer,
                   toClient>>

\* ServerRequestHandler.channelRead: getArgs()[0] throws without arguments.
ServerRead(k) ==
    /\ toServer[k] # <<>>
    /\ toServer' = [toServer EXCEPT ![k] = Tail(@)]
    /\ tasks' = IF Head(toServer[k]).kind = "noargs" THEN tasks
                ELSE [tasks EXCEPT ![k] = Append(@, Head(toServer[k]))]
    /\ UNCHANGED <<pc, callerVars, answer, poolVars, chan, conns, open, mapping, toClient>>

Invoked(r) == IF r.kind = "throws" THEN "null" ELSE "result"

BadReply(r) == [id |-> NoCall, value |-> Invoked(r)]

Reply(r) == [id |-> r, value |-> Invoked(r)]

\* The task: an unregistered service is a NullPointerException before the try, and
\* nothing is written; a method that throws is answered with null.
ServerRun(k) ==
    /\ tasks[k] # <<>>
    /\ tasks' = [tasks EXCEPT ![k] = Tail(@)]
    /\ toClient' = IF Head(tasks[k]).kind = "unregistered" \/ k \notin open THEN toClient
                   ELSE [toClient EXCEPT ![k] = Append(@, Reply(Head(tasks[k])))]
    /\ UNCHANGED <<pc, callerVars, answer, poolVars, chan, conns, open, mapping, toServer>>

Callback(id) == mapping \cap {id}

BadRemoved(id) == mapping

Removed(id) == mapping \ {id}

\* runCallRack: complete the future and forget it.  The future's caller returns
\* unless it has given up.
Response(k) ==
    /\ toClient[k] # <<>>
    /\ toClient' = [toClient EXCEPT ![k] = Tail(@)]
    /\ LET r == Head(toClient[k]) IN
         \/ /\ Callback(r.id) = {}
            /\ UNCHANGED <<pc, answer, mapping>>
         \/ \E f \in Callback(r.id) :
              /\ mapping' = Removed(r.id)
              /\ \/ /\ req[f.caller] = f /\ pc[f.caller] = "wait"
                    /\ answer' = [answer EXCEPT ![f.caller] = r]
                    /\ Go(f.caller, "idle")
                 \/ /\ ~(req[f.caller] = f /\ pc[f.caller] = "wait")
                    /\ UNCHANGED <<pc, answer>>
    /\ UNCHANGED <<callerVars, poolVars, chan, conns, open, toServer, tasks>>

\* The connection breaks; what was under way on it is lost.
Close(k) ==
    /\ "close" \in Faults
    /\ k \in open
    /\ open' = open \ {k}
    /\ toServer' = [toServer EXCEPT ![k] = <<>>]
    /\ toClient' = [toClient EXCEPT ![k] = <<>>]
    /\ UNCHANGED <<pc, callerVars, answer, poolVars, chan, conns, mapping, tasks>>

-----------------------------------------------------------------------------
GetClient(c) == GetPool(c) \/ NewPool(c) \/ Pick(c) \/ Lock(c) \/ Create(c) \/ Store(c) \/ Return(c)
Caller(c) == GetClient(c) \/ AddCallBack(c) \/ Write(c)
EventLoop(k) == ServerRead(k) \/ ServerRun(k) \/ Response(k)

Next ==
    \/ \E c \in Callers : Invoke(c) \/ Caller(c) \/ Refused(c) \/ GetInterrupted(c)
    \/ \E k \in Conns : EventLoop(k) \/ Close(k)

Spec == Init /\ [][Next]_vars

\* Threads and event loops run; nobody need call, break or interrupt anything.
FairSpec ==
    /\ Spec
    /\ \A c \in Callers : WF_vars(Caller(c))
    /\ \A k \in Conns : WF_vars(EventLoop(k))

-----------------------------------------------------------------------------
Requests == [caller : Callers, n : 1..Calls, kind : Kinds]
Responses == [id : Requests, value : {"result", "null"}]

\* Typing; in particular what a connection carries are whole requests and the
\* responses to them, and locals refer to pools and connections that were made.
TypeOK ==
    /\ copy \in Copies
    /\ pc \in [Callers -> {"idle", "pool", "newpool", "pick", "lock", "create", "store",
                           "return", "add", "write", "wait"}]
    /\ left \in [Callers -> 0..Calls]
    /\ req \in [Callers -> Requests \cup {NoCall}]
    /\ answer \in [Callers -> Responses \cup {Failed}]
    /\ pools \in Seq([clients : [Slots -> Conns \cup {Null}],
                      lock : [Slots -> Callers \cup {None}]])
    /\ outbox \in 0..Len(pools)
    /\ pool \in [Callers -> 0..Len(pools)]
    /\ slot \in [Callers -> Slots]
    /\ chan \in [Callers -> Conns \cup {Null}]
    /\ monitor \in Callers \cup {None}
    /\ conns \in 0..Cardinality(Callers) * Calls
    /\ open \subseteq 1..conns
    /\ mapping \subseteq Requests
    /\ toServer \in [Conns -> Seq(Requests)]
    /\ tasks \in [Conns -> Seq(Requests)]
    /\ toClient \in [Conns -> Seq(Responses)]

Under(k) == {toServer[k][i] : i \in 1..Len(toServer[k])}
              \cup {tasks[k][i] : i \in 1..Len(tasks[k])}
              \cup {toClient[k][i].id : i \in 1..Len(toClient[k])}

InGetClient == {"newpool", "pick", "lock", "create", "store", "return"}

\* A call returns the result of its own request, whatever the order in which the
\* responses of all the connections arrive.
RightAnswer ==
    \A c \in Callers :
        answer[c] # Failed =>
          /\ answer[c].id.caller = c
          /\ pc[c] = "idle" => answer[c].id = req[c]
          /\ answer[c].value = Invoked(answer[c].id)

\* runCallRack finds a future for every response: a request is on its way only
\* while its callback is registered, which rpcTransport does before it writes.
AnswersExpected == \A k \in Conns : Under(k) \subseteq mapping

\* Only calls that wait are remembered, unless their caller was interrupted: the
\* map does not grow with the calls made.
CallbacksRemoved ==
    copy = "rpcdemo" => \A f \in mapping : req[f.caller] = f /\ pc[f.caller] \in {"write", "wait"}

\* Every open connection is in a slot or about to be stored in one: two threads
\* that find the same slot empty do not both connect.
NoStrayConnection ==
    \A k \in open :
        \/ \E p \in 1..Len(pools), i \in Slots : pools[p].clients[i] = k
        \/ \E c \in Callers : pc[c] = "store" /\ chan[c] = k

\* In the older copy an address has one pool, so no more connections than slots.
\* (In rpcdemo two first callers may each make a pool.)
PoolBounded == copy = "multiplex" => Cardinality(open) <= PoolSize

\* Who holds a lock is not waiting for another: the owner of a slot's lock connects or
\* stores for that slot, whoever is in the synchronized getClient of the older copy is
\* in there, and there alone.
LocksMove ==
    /\ \A p \in 1..Len(pools), i \in Slots :
         LET c == pools[p].lock[i] IN
         c # None => pc[c] \in {"create", "store"} /\ pool[c] = p /\ slot[c] = i
    /\ Multiplex => \A c \in Callers : pc[c] \in InGetClient <=> monitor = c
    /\ ~Multiplex => monitor = None

\* While connections stay up and services are registered: a caller that waits has its
\* request, its task or its response under way.
AnswersComing == \A c \in Callers : pc[c] = "wait" => \E k \in Conns : req[c] \in Under(k)

\* Unless every caller is idle some caller or event loop has something to do.
CanRun(c) ==
    \/ pc[c] \in {"newpool", "pick", "create", "store", "return", "add", "write"}
    \/ pc[c] = "pool" /\ (Multiplex => monitor = None)
    \/ pc[c] = "lock" /\ Owner(c) = None
Busy(k) == toServer[k] # <<>> \/ tasks[k] # <<>> \/ toClient[k] # <<>>

NeverStuck ==
    (\E c \in Callers : pc[c] # "idle") => (\E c \in Callers : CanRun(c)) \/ (\E k \in Conns : Busy(k))

\* Every call returns.
CallsEnd == \A c \in Callers : pc[c] # "idle" ~> pc[c] = "idle"

-----------------------------------------------------------------------------
(* What the callers may rely on                                            *)

Items(q) == {q[i] : i \in 1..Len(q)}
Stage ==
    [c \in Callers |-> IF pc[c] = "idle" THEN "idle"
                       ELSE IF pc[c] = "wait" THEN "waiting" ELSE "calling"]
Requested == UNION {Items(toServer[k]) \cup Items(tasks[k]) : k \in Conns}
Responded == UNION {Items(toClient[k]) : k \in Conns}

Remote == INSTANCE RemoteCalls WITH stage <- Stage, sent <- Requested, results <- Responded

\* However connections are shared, broken and made again, a request is written at
\* most once and executed at most once, and a call returns the result of its own
\* request or throws: the pool and the callbacks implement RemoteCalls.
ImplementsRemoteCalls == Remote!RSpec
=============================================================================
