---------------------------- MODULE SelectorGroup ----------------------------
(***************************************************************************)
(* The boss/worker reactor of gtk-devops-study: selector threads in two    *)
(* groups, each with a queue of channels to register.  main binds the      *)
(* servers and hands them to boss threads; a boss thread accepts clients   *)
(* and hands them to worker threads.  A handover is queue, then wakeup of  *)
(* the other thread's selector; wakeups that nobody has consumed coalesce. *)
(***************************************************************************)
EXTENDS Integers, Sequences, FiniteSets, Functions

CONSTANTS
    BindOrder,   \* the server channels in the order main binds them
    Clients,     \* client channels
    NBoss,       \* threads of the boss group
    NWorker,     \* threads of the worker group
    MaxInt,      \* the largest value of xid (2^31 - 1 in the code)
    PeerFaults   \* a subset of {"close", "reset"}: what peers may do

Groups == {"boss", "worker"}
Size == [g \in Groups |-> IF g = "boss" THEN NBoss ELSE NWorker]
Threads == {t \in Groups \X (0..NBoss + NWorker) : t[2] < Size[t[1]]}
Servers == {BindOrder[i] : i \in 1..Len(BindOrder)}
Channels == Servers \cup Clients
Main == <<"main", 0>>   \* the main thread, in no group
NoThread == <<>>

ASSUME SizeAssumption == NBoss \in Nat \ {0} /\ NWorker \in Nat \ {0} /\ MaxInt \in Nat
ASSUME ChannelsAssumption ==
    /\ BindOrder \in Seq(Servers)
    /\ \A i, j \in 1..Len(BindOrder) : BindOrder[i] = BindOrder[j] => i = j
    /\ Servers \cap Clients = {}

VARIABLES
    main,      \* what the main thread does next
    bound,     \* how many servers main has bound
    target,    \* stg of each group: whose threads get the clients
    xid,       \* the counter of each group
    queue,     \* lbq of each thread
    reg,       \* the channels registered with each selector
    wake,      \* a wakeup of each selector is pending
    sel,       \* the selected keys the thread has still to handle
    pc,        \* where each thread is
    stg,       \* the group each thread hands accepted clients to
    client,    \* the client each thread is reading, if any
    to,        \* the thread to be woken up next by main and by each thread
    backlog,   \* connections waiting for accept, per server
    data       \* what a read of each client would find

mainVars == <<main, bound, target>>
ioVars == <<backlog, data>>
vars == <<main, bound, target, xid, queue, reg, wake, sel, pc, stg, client, to, backlog, data>>

Init ==
    /\ main = "group"
    /\ bound = 0
    /\ target = [g \in Groups |-> g]
    /\ xid = [g \in Groups |-> 0]
    /\ queue = [t \in Threads |-> <<>>]
    /\ reg = [t \in Threads |-> {}]
    /\ wake = [t \in Threads |-> FALSE]
    /\ sel = [t \in Threads |-> {}]
    /\ pc = [t \in Threads |-> "select"]
    /\ stg = [t \in Threads |-> t[1]]
    /\ client = [t \in Threads |-> {}]
    /\ to = [t \in Threads \cup {Main} |-> NoThread]
    /\ backlog = [s \in Servers |-> {}]
    /\ data = [c \in Clients |-> "absent"]

-----------------------------------------------------------------------------
(* Choosing a thread: xid.incrementAndGet() % length, in Java arithmetic   *)

Increment(n) == IF n = MaxInt THEN -MaxInt - 1 ELSE n + 1
Remainder(n, m) == IF n >= 0 THEN n % m ELSE -((-n) % m)
\* (Operators named Bad... are faulty forms of the one after them; no
\* specification uses them.  They are there to see the properties fail.)
BadNextIndex(g, h) ==
    Remainder(IF h = "worker" THEN Increment(Increment(xid[g])) ELSE Increment(xid[g]), Size[h])

NextIndex(g, h) == Remainder(Increment(xid[g]), Size[h])

\* Group g puts channel ch into the queue of the next thread of group h.
Enqueue(g, h, ch, from) ==
    LET t == <<h, NextIndex(g, h)>> IN
    /\ queue' = [queue EXCEPT ![t] = Append(@, ch)]
    /\ to' = [to EXCEPT ![from] = t]

BadWakeUp(from) == wake' = IF from = Main THEN [wake EXCEPT ![to[from]] = TRUE] ELSE wake

WakeUp(from) == wake' = [wake EXCEPT ![to[from]] = TRUE]

-----------------------------------------------------------------------------
(* main: boss.setWorker(worker), then four times bind                      *)

BadSetGroup ==
    /\ main = "group"
    /\ main' = "bind"
    /\ UNCHANGED <<bound, target, xid, queue, reg, wake, sel, pc, stg, client, to, ioVars>>

SetGroup ==
    /\ main = "group"
    /\ target' = [target EXCEPT !["boss"] = "worker"]
    /\ main' = "bind"
    /\ UNCHANGED <<bound, xid, queue, reg, wake, sel, pc, stg, client, to, ioVars>>

\* The server listens, and next() picks a boss thread; a negative index ends main.
Bind ==
    /\ main = "bind"
    /\ bound < Len(BindOrder)
    /\ bound' = bound + 1
    /\ xid' = [xid EXCEPT !["boss"] = Increment(@)]
    /\ \/ /\ NextIndex("boss", "boss") >= 0
          /\ Enqueue("boss", "boss", BindOrder[bound + 1], Main)
          /\ main' = "setworker"
       \/ /\ NextIndex("boss", "boss") < 0
          /\ main' = "dead"
          /\ UNCHANGED <<queue, to>>
    /\ UNCHANGED <<target, reg, wake, sel, pc, stg, client, ioVars>>

SetWorker ==
    /\ main = "setworker"
    /\ stg' = [stg EXCEPT ![to[Main]] = target["boss"]]
    /\ main' = "wakeup"
    /\ UNCHANGED <<bound, target, xid, queue, reg, wake, sel, pc, client, to, ioVars>>

WakeBoss ==
    /\ main = "wakeup"
    /\ WakeUp(Main)
    /\ main' = "bind"
    /\ UNCHANGED <<bound, target, xid, queue, reg, sel, pc, stg, client, to, ioVars>>

-----------------------------------------------------------------------------
(* SelectorThread.run                                                      *)

Goes(t, next) == pc' = [pc EXCEPT ![t] = next]

Acceptable(t) == {s \in reg[t] \cap Servers : backlog[s] # {}}

BadReadable(t) == {}

\* Clients are registered with OP_READ: it tells of bytes, of the end and of errors.
Readable(t) == {c \in reg[t] \cap Clients : data[c] \in {"some", "eof", "reset"}}

Ready(t) == Acceptable(t) \cup Readable(t)

Select(t) ==
    /\ pc[t] = "select"
    /\ wake[t] \/ Ready(t) # {}
    /\ sel' = [sel EXCEPT ![t] = Ready(t)]
    /\ wake' = [wake EXCEPT ![t] = FALSE]
    /\ Goes(t, "keys")
    /\ UNCHANGED <<mainVars, xid, queue, reg, stg, client, to, ioVars>>

\* acceptHandler: nextV3 of the group the thread refers to picks a thread of
\* that group's target.  A negative index is an exception run() does not catch.
Accept(t) ==
    /\ pc[t] = "keys"
    /\ \E s \in sel[t] \cap Servers, c \in Clients :
         /\ c \in backlog[s]
         /\ backlog' = [backlog EXCEPT ![s] = @ \ {c}]
         /\ sel' = [sel EXCEPT ![t] = @ \ {s}]
         /\ xid' = [xid EXCEPT ![stg[t]] = Increment(@)]
         /\ \/ /\ NextIndex(stg[t], target[stg[t]]) >= 0
               /\ Enqueue(stg[t], target[stg[t]], c, t)
               /\ Goes(t, "wakeup")
            \/ /\ NextIndex(stg[t], target[stg[t]]) < 0
               /\ Goes(t, "dead")
               /\ UNCHANGED <<queue, to>>
    /\ UNCHANGED <<mainVars, reg, wake, stg, client, data>>

WakeWorker(t) ==
    /\ pc[t] = "wakeup"
    /\ WakeUp(t)
    /\ Goes(t, "keys")
    /\ UNCHANGED <<mainVars, xid, queue, reg, sel, stg, client, to, ioVars>>

BadAfterRead(t, c) == reg[t] \ {c}

\* The key is cancelled at the end of the stream only.
AfterRead(t, c) == IF data[c] = "eof" THEN reg[t] \ {c} ELSE reg[t]

\* readHander: it is in its loop until a read finds nothing or the end.
BeginRead(t) ==
    /\ pc[t] = "keys"
    /\ \E c \in sel[t] \cap Clients :
         /\ sel' = [sel EXCEPT ![t] = @ \ {c}]
         /\ client' = [client EXCEPT ![t] = {c}]
    /\ Goes(t, "read")
    /\ UNCHANGED <<mainVars, xid, queue, reg, wake, stg, to, ioVars>>

Read(t) ==
    /\ pc[t] = "read"
    /\ \E c \in client[t] :
         /\ reg' = [reg EXCEPT ![t] = AfterRead(t, c)]
         /\ \/ /\ data[c] = "some"
               /\ data' = [data EXCEPT ![c] = "none"]
               /\ Goes(t, "write")
               /\ UNCHANGED client
            \/ /\ data[c] \in {"none", "eof"}
               /\ Goes(t, "keys")
               /\ client' = [client EXCEPT ![t] = {}]
               /\ UNCHANGED data
    /\ UNCHANGED <<mainVars, xid, queue, wake, sel, stg, to, backlog>>

\* What was read has been echoed, which takes a peer that reads, or the write has thrown.
Echo(t) ==
    /\ pc[t] = "write"
    /\ Goes(t, "read")
    /\ UNCHANGED <<mainVars, xid, queue, reg, wake, sel, stg, client, to, ioVars>>

\* A read of a reset connection throws inside the loop, and is tried again: it throws
\* for ever or, with a system that reports an error once, finds the end.
ReadThrows(t) ==
    /\ pc[t] = "read"
    /\ \E c \in client[t] :
         /\ data[c] = "reset"
         /\ data' = [data EXCEPT ![c] = "eof"]
    /\ UNCHANGED <<mainVars, xid, queue, reg, wake, sel, pc, stg, client, to, backlog>>

BadTake(t) == queue[t]

Take(t) == Tail(queue[t])

\* One channel at most is taken off the queue before the next select().
Register(t) ==
    /\ pc[t] = "keys"
    /\ sel[t] = {}
    /\ \/ /\ queue[t] # <<>>
          /\ reg' = [reg EXCEPT ![t] = @ \cup {Head(queue[t])}]
          /\ queue' = [queue EXCEPT ![t] = Take(t)]
       \/ queue[t] = <<>> /\ UNCHANGED <<reg, queue>>
    /\ Goes(t, "select")
    /\ UNCHANGED <<mainVars, xid, wake, sel, stg, client, to, ioVars>>

-----------------------------------------------------------------------------
(* The peers                                                               *)

Connect(c) ==
    /\ data[c] = "absent"
    /\ \E i \in 1..bound :
         backlog' = [backlog EXCEPT ![BindOrder[i]] = @ \cup {c}]
    /\ data' = [data EXCEPT ![c] = "none"]
    /\ UNCHANGED <<mainVars, xid, queue, reg, wake, sel, pc, stg, client, to>>

Send(c) ==
    /\ data[c] = "none"
    /\ data' = [data EXCEPT ![c] = "some"]
    /\ UNCHANGED <<mainVars, xid, queue, reg, wake, sel, pc, stg, client, to, backlog>>

Leave(c) ==
    /\ data[c] = "none"
    /\ \/ "close" \in PeerFaults /\ data' = [data EXCEPT ![c] = "eof"]
       \/ "reset" \in PeerFaults /\ data' = [data EXCEPT ![c] = "reset"]
    /\ UNCHANGED <<mainVars, xid, queue, reg, wake, sel, pc, stg, client, to, backlog>>

-----------------------------------------------------------------------------
MainStep == SetGroup \/ Bind \/ SetWorker \/ WakeBoss
ThreadStep(t) ==
    Select(t) \/ Accept(t) \/ WakeWorker(t) \/ BeginRead(t) \/ Read(t) \/ Register(t)

\* What keeps a thread in readHander.
LoopStep(t) == Echo(t) \/ ReadThrows(t)

Next ==
    \/ MainStep
    \/ \E t \in Threads : ThreadStep(t) \/ LoopStep(t)
    \/ \E c \in Clients : Connect(c) \/ Send(c) \/ Leave(c)

Spec == Init /\ [][Next]_vars

\* Threads run; peers may stay silent.
FairThreads == WF_vars(MainStep) /\ \A t \in Threads : WF_vars(ThreadStep(t))

QuietSpec == Spec /\ FairThreads

\* The same, and every connected peer keeps sending and reads what is echoed.
StreamSpec ==
    QuietSpec /\ (\A c \in Clients : WF_vars(Send(c))) /\ (\A t \in Threads : WF_vars(Echo(t)))

\* The client that thread t is reading has sent nothing new.
CaughtUp(t) == \A c \in client[t] : data[c] = "none"

\* The same, and no peer is for ever faster: now and then a thread finishes an echo, and
\* now and then it reads again, before the peer has sent more.
ChattySpec ==
    /\ StreamSpec
    /\ \A t \in Threads : SF_vars(CaughtUp(t) /\ Echo(t)) /\ SF_vars(CaughtUp(t) /\ Read(t))

-----------------------------------------------------------------------------
Queued(t) == {queue[t][i] : i \in 1..Len(queue[t])}
With(t) == reg[t] \cup Queued(t)
Accepted(c) == data[c] # "absent" /\ \A s \in Servers : c \notin backlog[s]

\* Typing; the counters stay in the range of a Java int, and a thread handles
\* keys of its own selector only.
TypeOK ==
    /\ main \in {"group", "bind", "setworker", "wakeup", "dead"}
    /\ bound \in 0..Len(BindOrder)
    /\ target \in [Groups -> Groups]
    /\ xid \in [Groups -> (-MaxInt - 1)..MaxInt]
    /\ queue \in [Threads -> Seq(Channels)]
    /\ reg \in [Threads -> SUBSET Channels]
    /\ wake \in [Threads -> BOOLEAN]
    /\ sel \in [Threads -> SUBSET Channels]
    /\ pc \in [Threads -> {"select", "keys", "wakeup", "read", "write", "dead"}]
    /\ stg \in [Threads -> Groups]
    /\ client \in [Threads -> SUBSET Clients]
    /\ to \in [Threads \cup {Main} -> Threads \cup {NoThread}]
    /\ backlog \in [Servers -> SUBSET Clients]
    /\ data \in [Clients -> {"absent", "none", "some", "eof", "reset"}]
    \* A handled key is registered with the thread's own selector, and handled once.
    /\ \A t \in Threads : sel[t] \subseteq reg[t] /\ client[t] \subseteq reg[t] \ sel[t]
    /\ \A t \in Threads : pc[t] \notin {"read", "write"} => client[t] = {}

\* A channel is with one thread at most, once, in its queue or in its selector:
\* "each client is bound to one of the selectors only".
OneSelector ==
    /\ \A t, u \in Threads : t # u => With(t) \cap With(u) = {}
    /\ \A t \in Threads : reg[t] \cap Queued(t) = {} /\ IsInjective(queue[t])

\* Servers belong to boss threads, clients to worker threads.
Home ==
    [ch \in Channels |-> {t \in Threads : t[1] = IF ch \in Servers THEN "boss" ELSE "worker"}]
Fresh == {BindOrder[i] : i \in bound + 1..Len(BindOrder)} \cup {c \in Clients : ~Accepted(c)}
Held == UNION {With(t) \X {t} : t \in Threads}

Shared == INSTANCE Handover WITH Closable <- Clients, fresh <- Fresh, held <- Held

\* "Each client is bound to one of the selectors only", for good: bound by main or
\* accepted by whichever thread, through its queue and its selector, a channel stays
\* with the one thread it was first given to until its peer closes it.
ImplementsHandover == Shared!HSpec

\* Servers stay with boss threads and clients with worker threads, although main
\* queues a server for a boss thread before it tells it about the worker group.
RolesSeparate ==
    \A t \in Threads : With(t) \subseteq IF t[1] = "boss" THEN Servers ELSE Clients

Dead == {t \in Threads : pc[t] = "dead"}

\* An accepted client is never dropped: it is queued or registered somewhere
\* unless its peer has closed it, or a counter overflow has ended the thread that
\* accepted it.
NoClientDropped ==
    Dead = {} =>
        \A c \in Clients :
            Accepted(c) /\ data[c] # "eof" => \E t \in Threads : c \in With(t)

\* A thread is chosen round robin and the index is one of the array until the counter
\* overflows: main survives its first MaxInt binds and no boss thread ends by the first
\* MaxInt accepts.  Binds and accepts do not use up each other's counter, because a boss
\* thread is woken up only after it has been told about the worker group.
IndexInRange ==
    /\ main = "dead" => bound > MaxInt
    /\ Dead # {} => Cardinality({c \in Clients : Accepted(c)}) > MaxInt

\* Every client that has been accepted gets registered with a selector, unless it is
\* closed first: one channel is taken off a queue per select(), and a queue longer than
\* one does not wait for ever while other clients keep the thread busy.
AcceptedGetRegistered ==
    \A c \in Clients :
        Accepted(c) ~> (data[c] = "eof" \/ \E t \in Threads : c \in reg[t])

\* What a registered client has sent is read, although its thread leaves it to read
\* others and to register new ones.
SentIsRead ==
    \A c \in Clients :
        (data[c] = "some" /\ \E t \in Threads : c \in reg[t]) ~> data[c] # "some"
=============================================================================
