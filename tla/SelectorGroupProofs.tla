------------------------ MODULE SelectorGroupProofs ------------------------
(* Proofs about SelectorGroup: where channels are, for any number of       *)
(* threads, servers and clients, with overflowing counters and peers that  *)
(* close and reset.                                                        *)
EXTENDS SelectorGroup, FiniteSetTheorems, TLAPS

-----------------------------------------------------------------------------
(* The choice of a thread                                                  *)

\* xid stays an int.
LEMMA IncrementInRange ==
    ASSUME NEW n \in (-MaxInt - 1)..MaxInt PROVE Increment(n) \in (-MaxInt - 1)..MaxInt
BY SizeAssumption DEF Increment

\* A remainder that is not negative is an index of an array of length m.
LEMMA RemainderIsIndex ==
    ASSUME NEW n \in Int, NEW m \in Nat \ {0}, Remainder(n, m) >= 0
    PROVE  Remainder(n, m) \in 0..m - 1
<1>1. CASE n >= 0
  BY <1>1 DEF Remainder
<1>2. CASE n < 0
  <2>1. (-n) % m \in 0..m - 1
    BY <1>2
  <2> QED
    BY <1>2, <2>1 DEF Remainder
<1> QED
  BY <1>1, <1>2

\* So the thread chosen is one of the group.
LEMMA ChosenIsThread ==
    ASSUME TypeOK, NEW g \in Groups, NEW h \in Groups, NextIndex(g, h) >= 0
    PROVE  <<h, NextIndex(g, h)>> \in Threads
<1>1. Increment(xid[g]) \in Int
  BY IncrementInRange, SizeAssumption DEF TypeOK
<1>2. Size[h] \in Nat \ {0} /\ Size[h] <= NBoss + NWorker
  BY SizeAssumption DEF Size, Groups
<1>3. NextIndex(g, h) \in 0..Size[h] - 1
  BY <1>1, <1>2, RemainderIsIndex DEF NextIndex
<1> DEFINE i == NextIndex(g, h)
<1>4. i \in 0..NBoss + NWorker /\ i < Size[h]
  BY <1>2, <1>3, SizeAssumption
<1> HIDE DEF i
<1>5. <<h, i>> \in Groups \X (0..NBoss + NWorker) /\ <<h, i>>[1] = h /\ <<h, i>>[2] = i
  BY <1>4
<1> QED
  BY <1>4, <1>5 DEF Threads, i

-----------------------------------------------------------------------------
(* Queues                                                                  *)

Elements(q) == {q[i] : i \in 1..Len(q)}

LEMMA AppendAdds ==
    ASSUME NEW S, NEW q \in Seq(S), NEW e \in S
    PROVE  /\ Append(q, e) \in Seq(S)
           /\ Elements(Append(q, e)) = Elements(q) \cup {e}
           /\ IsInjective(q) /\ e \notin Elements(q) => IsInjective(Append(q, e))
<1>1. /\ Append(q, e) \in Seq(S)
      /\ Len(Append(q, e)) = Len(q) + 1
      /\ Append(q, e)[Len(q) + 1] = e
      /\ \A i \in 1..Len(q) : Append(q, e)[i] = q[i]
      /\ Len(q) \in Nat
  OBVIOUS
<1>2. DOMAIN q = 1..Len(q) /\ DOMAIN Append(q, e) = 1..Len(q) + 1
  OBVIOUS
<1>3. Elements(Append(q, e)) = Elements(q) \cup {e}
  <2>1. 1..Len(q) + 1 = (1..Len(q)) \cup {Len(q) + 1}
    BY <1>1
  <2> QED
    BY <1>1, <2>1 DEF Elements
<1>4. ASSUME IsInjective(q), e \notin Elements(q) PROVE IsInjective(Append(q, e))
  <2>1. \A i \in 1..Len(q) : q[i] # e
    BY <1>4 DEF Elements
  <2>2. \A i, j \in 1..Len(q) : q[i] = q[j] => i = j
    BY <1>2, <1>4 DEF IsInjective
  <2>3. ASSUME NEW i \in 1..Len(q) + 1, NEW j \in 1..Len(q) + 1,
               Append(q, e)[i] = Append(q, e)[j]
        PROVE  i = j
    BY <1>1, <2>1, <2>2, <2>3
  <2> QED
    BY <1>2, <2>3 DEF IsInjective
<1> QED
  BY <1>1, <1>3, <1>4

LEMMA TailRemoves ==
    ASSUME NEW S, NEW q \in Seq(S), q # <<>>
    PROVE  /\ Tail(q) \in Seq(S)
           /\ Head(q) \in S
           /\ Elements(q) = Elements(Tail(q)) \cup {Head(q)}
           /\ IsInjective(q) => IsInjective(Tail(q)) /\ Head(q) \notin Elements(Tail(q))
<1>1. /\ Len(q) \in Nat \ {0}
      /\ Tail(q) \in Seq(S)
      /\ Len(Tail(q)) = Len(q) - 1
      /\ \A i \in 1..Len(q) - 1 : Tail(q)[i] = q[i + 1]
      /\ Head(q) = q[1] /\ Head(q) \in S
  OBVIOUS
<1>2. DOMAIN q = 1..Len(q) /\ DOMAIN Tail(q) = 1..Len(q) - 1
  BY <1>1
<1>3. Elements(Tail(q)) = {q[i] : i \in 2..Len(q)}
  <2>1. ASSUME NEW e \in Elements(Tail(q)) PROVE e \in {q[i] : i \in 2..Len(q)}
    <3>1. PICK i \in 1..Len(q) - 1 : e = Tail(q)[i]
      BY <1>1 DEF Elements
    <3>2. i + 1 \in 2..Len(q) /\ e = q[i + 1]
      BY <1>1, <3>1
    <3> QED
      BY <3>2
  <2>2. ASSUME NEW i \in 2..Len(q) PROVE q[i] \in Elements(Tail(q))
    <3>1. i - 1 \in 1..Len(q) - 1 /\ Tail(q)[i - 1] = q[i]
      BY <1>1
    <3> QED
      BY <1>1, <3>1 DEF Elements
  <2> QED
    BY <2>1, <2>2
<1>4. Elements(q) = Elements(Tail(q)) \cup {Head(q)}
  <2>1. 1..Len(q) = (2..Len(q)) \cup {1}
    BY <1>1
  <2> QED
    BY <1>1, <1>3, <2>1 DEF Elements
<1>5. ASSUME IsInjective(q) PROVE IsInjective(Tail(q)) /\ Head(q) \notin Elements(Tail(q))
  <2>1. \A i, j \in 1..Len(q) : q[i] = q[j] => i = j
    BY <1>2, <1>5 DEF IsInjective
  <2>2. ASSUME NEW i \in 1..Len(q) - 1, NEW j \in 1..Len(q) - 1, Tail(q)[i] = Tail(q)[j]
        PROVE  i = j
    <3>1. q[i + 1] = q[j + 1] /\ i + 1 \in 1..Len(q) /\ j + 1 \in 1..Len(q)
      BY <1>1, <2>2
    <3> QED
      BY <2>1, <3>1
  <2>3. \A i \in 2..Len(q) : q[i] # q[1]
    BY <1>1, <2>1
  <2> QED
    BY <1>1, <1>2, <1>3, <2>2, <2>3 DEF IsInjective
<1> QED
  BY <1>1, <1>4, <1>5

-----------------------------------------------------------------------------
(* Types                                                                   *)

LEMMA ServersAreChannels ==
    /\ Servers \subseteq Channels /\ Clients \subseteq Channels
    /\ \A i \in 1..Len(BindOrder) : BindOrder[i] \in Servers
BY DEF Channels, Servers

LEMMA EnqueueTypes ==
    ASSUME TypeOK, NEW g \in Groups, NEW h \in Groups, NEW ch \in Channels,
           NEW from \in Threads \cup {Main}, NextIndex(g, h) >= 0, Enqueue(g, h, ch, from)
    PROVE  /\ queue' \in [Threads -> Seq(Channels)]
           /\ to' \in [Threads \cup {Main} -> Threads \cup {NoThread}]
<1> DEFINE t == <<h, NextIndex(g, h)>>
<1>1. t \in Threads
  BY ChosenIsThread
<1>2. queue[t] \in Seq(Channels)
  BY <1>1 DEF TypeOK
<1>3. Append(queue[t], ch) \in Seq(Channels)
  BY <1>2, AppendAdds
<1>4. /\ queue' = [queue EXCEPT ![t] = Append(queue[t], ch)]
      /\ to' = [to EXCEPT ![from] = t]
  BY DEF Enqueue
<1> HIDE DEF t
<1> QED
  BY <1>1, <1>3, <1>4 DEF TypeOK

LEMMA InitTypeOK == Init => TypeOK
<1> SUFFICES ASSUME Init PROVE TypeOK
  OBVIOUS
<1>1. bound \in 0..Len(BindOrder) /\ xid \in [Groups -> (-MaxInt - 1)..MaxInt]
  BY SizeAssumption, ChannelsAssumption DEF Init
<1>2. queue \in [Threads -> Seq(Channels)]
  BY DEF Init
<1>3. stg \in [Threads -> Groups]
  BY DEF Init, Threads
<1> QED
  BY <1>1, <1>2, <1>3 DEF Init, TypeOK

LEMMA NextTypeOK == TypeOK /\ [Next]_vars => TypeOK'
<1> SUFFICES ASSUME TypeOK, [Next]_vars PROVE TypeOK'
  OBVIOUS
<1> USE DEF TypeOK
<1>1. ASSUME SetGroup PROVE TypeOK'
  <2>1. target' \in [Groups -> Groups]
    BY <1>1 DEF SetGroup, Groups
  <2> QED
    BY <1>1, <2>1 DEF SetGroup, ioVars
<1>2. ASSUME Bind PROVE TypeOK'
  <2>1. bound + 1 \in 1..Len(BindOrder) /\ bound' = bound + 1
    BY <1>2, ChannelsAssumption DEF Bind
  <2>2. BindOrder[bound + 1] \in Channels
    BY <2>1, ServersAreChannels
  <2>3. xid' \in [Groups -> (-MaxInt - 1)..MaxInt]
    BY <1>2, IncrementInRange DEF Bind, Groups
  <2>4. /\ queue' \in [Threads -> Seq(Channels)]
        /\ to' \in [Threads \cup {Main} -> Threads \cup {NoThread}]
    BY <1>2, <2>2, EnqueueTypes DEF Bind, Groups
  <2>5. main' \in {"setworker", "dead"} /\ bound' \in 0..Len(BindOrder)
    BY <1>2, <2>1 DEF Bind
  <2> QED
    BY <1>2, <2>3, <2>4, <2>5 DEF Bind, ioVars
<1>3. ASSUME SetWorker PROVE TypeOK'
  <2>1. target["boss"] \in Groups
    BY DEF Groups
  <2>2. stg' \in [Threads -> Groups]
    BY <1>3, <2>1 DEF SetWorker
  <2> QED
    BY <1>3, <2>2 DEF SetWorker, ioVars
<1>4. ASSUME WakeBoss PROVE TypeOK'
  BY <1>4 DEF WakeBoss, WakeUp, ioVars
<1>5. ASSUME NEW t \in Threads, Select(t) PROVE TypeOK'
  <2>1. Ready(t) \subseteq reg[t]
    BY DEF Ready, Acceptable, Readable
  <2>2. sel' = [sel EXCEPT ![t] = Ready(t)] /\ reg' = reg
    BY <1>5 DEF Select
  <2>3. sel' \in [Threads -> SUBSET Channels] /\ \A u \in Threads : sel'[u] \subseteq reg'[u]
    BY <2>1, <2>2
  <2>4. client[t] = {} /\ client' = client
    BY <1>5 DEF Select
  <2>5. /\ \A u \in Threads : client'[u] \subseteq reg'[u] \ sel'[u]
        /\ pc' \in [Threads -> {"select", "keys", "wakeup", "read", "write", "dead"}]
        /\ \A u \in Threads : pc'[u] \notin {"read", "write"} => client'[u] = {}
    BY <1>5, <2>2, <2>4 DEF Select, Goes
  <2> QED
    BY <1>5, <2>3, <2>4, <2>5 DEF Select, mainVars, ioVars
<1>6. ASSUME NEW t \in Threads, Accept(t) PROVE TypeOK'
  <2>1. PICK s \in sel[t] \cap Servers, c \in Clients :
          /\ backlog' = [backlog EXCEPT ![s] = @ \ {c}]
          /\ sel' = [sel EXCEPT ![t] = @ \ {s}]
          /\ xid' = [xid EXCEPT ![stg[t]] = Increment(@)]
          /\ \/ /\ NextIndex(stg[t], target[stg[t]]) >= 0
                /\ Enqueue(stg[t], target[stg[t]], c, t)
                /\ Goes(t, "wakeup")
             \/ /\ NextIndex(stg[t], target[stg[t]]) < 0
                /\ Goes(t, "dead")
                /\ UNCHANGED <<queue, to>>
    BY <1>6 DEF Accept
  <2>2. stg[t] \in Groups /\ target[stg[t]] \in Groups /\ c \in Channels
    BY ServersAreChannels
  <2>3. /\ queue' \in [Threads -> Seq(Channels)]
        /\ to' \in [Threads \cup {Main} -> Threads \cup {NoThread}]
    BY <2>1, <2>2, EnqueueTypes
  <2>4. xid' \in [Groups -> (-MaxInt - 1)..MaxInt]
    BY <2>1, <2>2, IncrementInRange
  <2>5. pc' \in [Threads -> {"select", "keys", "wakeup", "read", "write", "dead"}]
    BY <2>1 DEF Goes
  <2>6. UNCHANGED <<mainVars, reg, wake, stg, client, data>> /\ pc[t] = "keys"
    BY <1>6 DEF Accept
  <2>7. /\ sel' \in [Threads -> SUBSET Channels]
        /\ \A u \in Threads : sel'[u] \subseteq reg'[u] /\ client'[u] \subseteq reg'[u] \ sel'[u]
    BY <2>1, <2>6
  <2>9. \A u \in Threads : pc'[u] \notin {"read", "write"} => client'[u] = {}
    BY <2>1, <2>6 DEF Goes
  <2>8. backlog' \in [Servers -> SUBSET Clients]
    BY <2>1
  <2> QED
    BY <2>3, <2>4, <2>5, <2>6, <2>7, <2>8, <2>9 DEF mainVars
<1>7. ASSUME NEW t \in Threads, WakeWorker(t) PROVE TypeOK'
  BY <1>7 DEF WakeWorker, WakeUp, Goes, mainVars, ioVars
<1>8. ASSUME NEW t \in Threads, Read(t) PROVE TypeOK'
  <2>1. PICK c \in client[t] :
          /\ reg' = [reg EXCEPT ![t] = AfterRead(t, c)]
          /\ \/ /\ data[c] = "some"
                /\ data' = [data EXCEPT ![c] = "none"]
                /\ Goes(t, "write")
                /\ UNCHANGED client
             \/ /\ data[c] \in {"none", "eof"}
                /\ Goes(t, "keys")
                /\ client' = [client EXCEPT ![t] = {}]
                /\ UNCHANGED data
    BY <1>8 DEF Read
  <2>2. AfterRead(t, c) \subseteq reg[t] /\ reg[t] \ {c} \subseteq AfterRead(t, c)
    BY DEF AfterRead
  <2>3. UNCHANGED <<mainVars, xid, queue, wake, sel, stg, to, backlog>> /\ pc[t] = "read"
    BY <1>8 DEF Read
  <2>4. c \in Clients /\ c \notin sel[t]
    BY <2>1
  <2>5. reg' \in [Threads -> SUBSET Channels] /\ \A u \in Threads : sel'[u] \subseteq reg'[u]
    BY <2>1, <2>2, <2>3, <2>4
  <2>6. CASE /\ data[c] = "some"
             /\ data' = [data EXCEPT ![c] = "none"]
             /\ Goes(t, "write")
             /\ UNCHANGED client
    <3>1. reg' = reg
      BY <2>1, <2>6 DEF AfterRead
    <3>2. /\ data' \in [Clients -> {"absent", "none", "some", "eof", "reset"}]
          /\ pc' \in [Threads -> {"select", "keys", "wakeup", "read", "write", "dead"}]
          /\ \A u \in Threads : pc'[u] \notin {"read", "write"} => client'[u] = {}
      BY <2>6 DEF Goes
    <3> QED
      BY <2>3, <2>6, <3>1, <3>2 DEF mainVars
  <2>7. CASE /\ Goes(t, "keys")
             /\ client' = [client EXCEPT ![t] = {}]
             /\ UNCHANGED data
    <3>1. /\ client' \in [Threads -> SUBSET Clients]
          /\ pc' \in [Threads -> {"select", "keys", "wakeup", "read", "write", "dead"}]
          /\ \A u \in Threads : pc'[u] \notin {"read", "write"} => client'[u] = {}
      BY <2>7 DEF Goes
    <3>2. \A u \in Threads : client'[u] \subseteq reg'[u] \ sel'[u]
      BY <2>1, <2>3, <2>7
    <3> QED
      BY <2>3, <2>5, <2>7, <3>1, <3>2 DEF mainVars
  <2> QED
    BY <2>1, <2>6, <2>7
<1>9. ASSUME NEW t \in Threads, Register(t) PROVE TypeOK'
  <2>1. CASE queue[t] = <<>> /\ UNCHANGED <<reg, queue>>
    BY <1>9, <2>1 DEF Register, Goes, mainVars, ioVars
  <2>2. CASE /\ queue[t] # <<>>
             /\ reg' = [reg EXCEPT ![t] = @ \cup {Head(queue[t])}]
             /\ queue' = [queue EXCEPT ![t] = Take(t)]
    <3>1. queue[t] \in Seq(Channels)
      OBVIOUS
    <3>2. Take(t) \in Seq(Channels) /\ Head(queue[t]) \in Channels
      BY <2>2, <3>1, TailRemoves DEF Take
    <3>3. /\ reg' \in [Threads -> SUBSET Channels]
          /\ queue' \in [Threads -> Seq(Channels)]
          /\ \A u \in Threads : sel[u] \subseteq reg'[u] /\ client[u] \subseteq reg'[u] \ sel[u]
      BY <2>2, <3>2
    <3> QED
      BY <1>9, <3>3 DEF Register, Goes, mainVars, ioVars
  <2> QED
    BY <1>9, <2>1, <2>2 DEF Register
<1>10. ASSUME NEW c \in Clients, Connect(c) PROVE TypeOK'
  <2>1. PICK i \in 1..bound :
          backlog' = [backlog EXCEPT ![BindOrder[i]] = @ \cup {c}]
    BY <1>10 DEF Connect
  <2>2. backlog' \in [Servers -> SUBSET Clients]
    BY <2>1
  <2> QED
    BY <1>10, <2>2 DEF Connect, mainVars
<1>11. ASSUME NEW c \in Clients, Send(c) \/ Leave(c) PROVE TypeOK'
  BY <1>11 DEF Send, Leave, mainVars
<1>12. ASSUME UNCHANGED vars PROVE TypeOK'
  BY <1>12 DEF vars
<1>13. ASSUME NEW t \in Threads, BeginRead(t) PROVE TypeOK'
  <2>1. PICK c \in sel[t] \cap Clients :
          /\ sel' = [sel EXCEPT ![t] = @ \ {c}]
          /\ client' = [client EXCEPT ![t] = {c}]
    BY <1>13 DEF BeginRead
  <2>2. UNCHANGED <<mainVars, xid, queue, reg, wake, stg, to, ioVars>> /\ Goes(t, "read")
    BY <1>13 DEF BeginRead
  <2>3. /\ sel' \in [Threads -> SUBSET Channels]
        /\ client' \in [Threads -> SUBSET Clients]
        /\ \A u \in Threads : sel'[u] \subseteq reg'[u] /\ client'[u] \subseteq reg'[u] \ sel'[u]
    BY <2>1, <2>2
  <2>4. /\ pc' \in [Threads -> {"select", "keys", "wakeup", "read", "write", "dead"}]
        /\ \A u \in Threads : pc'[u] \notin {"read", "write"} => client'[u] = {}
    BY <2>1, <2>2 DEF Goes
  <2> QED
    BY <2>2, <2>3, <2>4 DEF mainVars, ioVars
<1>14. ASSUME NEW t \in Threads, LoopStep(t) PROVE TypeOK'
  <2>1. CASE Echo(t)
    BY <2>1 DEF Echo, Goes, mainVars, ioVars
  <2>2. CASE ReadThrows(t)
    <3>1. data' \in [Clients -> {"absent", "none", "some", "eof", "reset"}]
      BY <2>2 DEF ReadThrows
    <3> QED
      BY <2>2, <3>1 DEF ReadThrows, mainVars
  <2> QED
    BY <1>14, <2>1, <2>2 DEF LoopStep
<1> QED
  BY <1>1, <1>2, <1>3, <1>4, <1>5, <1>6, <1>7, <1>8, <1>9, <1>10, <1>11, <1>12, <1>13, <1>14
  DEF Next, MainStep, ThreadStep

\* For any number of threads, servers and clients, with peers that close and reset:
\* the state of the reactor keeps its type, its counters stay ints although they
\* overflow, and a channel is queued for threads of the groups only.
THEOREM TypeCorrect == Spec => []TypeOK
<1>1. Init => TypeOK
  BY InitTypeOK
<1>2. TypeOK /\ [Next]_vars => TypeOK'
  BY NextTypeOK
<1> QED
  BY <1>1, <1>2, PTL DEF Spec

-----------------------------------------------------------------------------
(* Where channels are                                                      *)

\* main makes the worker group the target of the boss group before it binds.
Started ==
    /\ target["worker"] = "worker"
    /\ IF main = "group" THEN bound = 0 ELSE target["boss"] = "worker"

Nowhere(ch) == \A t \in Threads : ch \notin With(t)

\* A server not yet bound is with no thread.
Unbound == \A i \in 1..Len(BindOrder) : bound < i => Nowhere(BindOrder[i])

\* A client that is not there yet or not accepted yet is with no thread, and
\* waits at one server at most.
Waiting ==
    \A c \in Clients :
        /\ \A s, r \in Servers : c \in backlog[s] /\ c \in backlog[r] => s = r
        /\ data[c] = "absent" => \A s \in Servers : c \notin backlog[s]
        /\ data[c] = "absent" \/ (\E s \in Servers : c \in backlog[s]) => Nowhere(c)

PlacesInv == TypeOK /\ OneSelector /\ RolesSeparate /\ Started /\ Unbound /\ Waiting

LEMMA WithElements == \A t : With(t) = reg[t] \cup Elements(queue[t])
BY DEF With, Queued, Elements

LEMMA WithElementsNext == \A t : With(t)' = reg'[t] \cup Elements(queue'[t])
BY DEF With, Queued, Elements

\* Nothing moves.
LEMMA NothingMoves ==
    ASSUME OneSelector, UNCHANGED <<reg, queue>>
    PROVE  /\ \A t \in Threads : With(t)' = With(t)
           /\ OneSelector'
<1>1. reg' = reg /\ queue' = queue
  OBVIOUS
<1>2. \A t \in Threads : With(t)' = With(t) /\ Queued(t)' = Queued(t)
  BY <1>1 DEF With, Queued
<1> QED
  BY <1>1, <1>2 DEF OneSelector

\* A handover puts the channel with the chosen thread and moves no other.
LEMMA EnqueueMoves ==
    ASSUME TypeOK, OneSelector, NEW g \in Groups, NEW h \in Groups, NEW ch \in Channels,
           NEW from, NextIndex(g, h) >= 0, Enqueue(g, h, ch, from), UNCHANGED reg, Nowhere(ch)
    PROVE  /\ \A u \in Threads :
                With(u)' = IF u = <<h, NextIndex(g, h)>> THEN With(u) \cup {ch} ELSE With(u)
           /\ <<h, NextIndex(g, h)>> \in Threads
           /\ OneSelector'
<1>1. PICK t \in Threads : t = <<h, NextIndex(g, h)>>
  BY ChosenIsThread
<1>2. queue' = [queue EXCEPT ![t] = Append(queue[t], ch)]
  BY <1>1 DEF Enqueue
<1>3. queue[t] \in Seq(Channels) /\ IsInjective(queue[t])
  BY <1>1 DEF TypeOK, OneSelector
<1>4. ch \notin reg[t] /\ ch \notin Elements(queue[t])
  BY <1>1, WithElements DEF Nowhere
<1>5. /\ Elements(Append(queue[t], ch)) = Elements(queue[t]) \cup {ch}
      /\ IsInjective(Append(queue[t], ch))
  BY <1>3, <1>4, AppendAdds
<1>6. /\ queue'[t] = Append(queue[t], ch)
      /\ \A u \in Threads : u # t => queue'[u] = queue[u]
  BY <1>1, <1>2 DEF TypeOK
<1>7. \A u \in Threads : With(u)' = IF u = t THEN With(u) \cup {ch} ELSE With(u)
  BY <1>5, <1>6, WithElements, WithElementsNext
<1>8. \A u, v \in Threads : u # v => With(u)' \cap With(v)' = {}
  BY <1>7 DEF OneSelector, Nowhere
<1>9. \A u \in Threads : reg'[u] \cap Queued(u)' = {} /\ IsInjective(queue'[u])
  <2>1. \A u \in Threads : Queued(u)' = Elements(queue'[u]) /\ Queued(u) = Elements(queue[u])
    BY DEF Queued, Elements
  <2>2. reg' = reg
    OBVIOUS
  <2>3. reg'[t] \cap Queued(t)' = {}
    <3>1. Queued(t)' = Queued(t) \cup {ch}
      BY <1>5, <1>6, <2>1
    <3>2. reg[t] \cap Queued(t) = {}
      BY DEF OneSelector
    <3> QED
      BY <1>4, <2>2, <3>1, <3>2
  <2>4. IsInjective(queue'[t])
    BY <1>5, <1>6
  <2>5. ASSUME NEW u \in Threads, u # t
        PROVE  reg'[u] \cap Queued(u)' = {} /\ IsInjective(queue'[u])
    BY <1>6, <2>1, <2>2, <2>5 DEF OneSelector
  <2> QED
    BY <2>3, <2>4, <2>5
<1> QED
  BY <1>1, <1>7, <1>8, <1>9 DEF OneSelector

\* Registering moves a channel from the queue into the selector of its thread.
LEMMA RegisterMoves ==
    ASSUME TypeOK, OneSelector, NEW t \in Threads, Register(t)
    PROVE  /\ \A u \in Threads : With(u)' = With(u)
           /\ OneSelector'
<1>1. CASE UNCHANGED <<reg, queue>>
  BY <1>1, NothingMoves
<1>2. CASE /\ queue[t] # <<>>
           /\ reg' = [reg EXCEPT ![t] = @ \cup {Head(queue[t])}]
           /\ queue' = [queue EXCEPT ![t] = Take(t)]
  <2> DEFINE ch == Head(queue[t])
  <2>1. queue[t] \in Seq(Channels) /\ IsInjective(queue[t])
    BY DEF TypeOK, OneSelector
  <2>2. /\ Elements(queue[t]) = Elements(Take(t)) \cup {ch}
        /\ IsInjective(Take(t)) /\ ch \notin Elements(Take(t))
    BY <1>2, <2>1, TailRemoves DEF Take
  <2>3. /\ queue'[t] = Take(t) /\ reg'[t] = reg[t] \cup {ch}
        /\ \A u \in Threads : u # t => queue'[u] = queue[u] /\ reg'[u] = reg[u]
    BY <1>2 DEF TypeOK
  <2> HIDE DEF ch
  <2>4. \A u \in Threads : With(u)' = With(u)
    BY <2>2, <2>3, WithElements, WithElementsNext
  <2>5. \A u, v \in Threads : u # v => With(u)' \cap With(v)' = {}
    BY <2>4 DEF OneSelector
  <2>6. \A u \in Threads : Queued(u)' = Elements(queue'[u]) /\ Queued(u) = Elements(queue[u])
    BY DEF Queued, Elements
  <2>7. \A u \in Threads : reg'[u] \cap Queued(u)' = {} /\ IsInjective(queue'[u])
    BY <2>2, <2>3, <2>6 DEF OneSelector
  <2> QED
    BY <2>4, <2>5, <2>7 DEF OneSelector
<1> QED
  BY <1>1, <1>2 DEF Register

\* A read moves nothing; it takes a client away at the end of its stream only.
LEMMA ReadMoves ==
    ASSUME TypeOK, OneSelector, NEW t \in Threads, Read(t)
    PROVE  /\ \A u \in Threads : With(u)' \subseteq With(u)
           /\ \A u \in Threads : \A ch \in With(u) \ With(u)' : ch \in Clients /\ data[ch] = "eof"
           /\ OneSelector'
<1>1. PICK c \in Clients : reg' = [reg EXCEPT ![t] = AfterRead(t, c)]
  BY DEF Read, TypeOK
<1>2. queue' = queue
  BY DEF Read
<1>3. /\ reg'[t] = AfterRead(t, c)
      /\ \A u \in Threads : u # t => reg'[u] = reg[u]
  BY <1>1 DEF TypeOK
<1>4. \A u \in Threads : Queued(u)' = Queued(u)
  BY <1>2 DEF Queued
<1>5. \A u \in Threads : With(u)' = reg'[u] \cup Queued(u) /\ With(u) = reg[u] \cup Queued(u)
  BY <1>4 DEF With
<1>6. \A u \in Threads : reg'[u] \subseteq reg[u]
  BY <1>3 DEF AfterRead
<1>7. \A u \in Threads : With(u)' \subseteq With(u)
  BY <1>5, <1>6
<1>8. \A u \in Threads : \A ch \in With(u) \ With(u)' : ch \in Clients /\ data[ch] = "eof"
  BY <1>3, <1>5 DEF AfterRead
<1>9. \A u, v \in Threads : u # v => With(u)' \cap With(v)' = {}
  BY <1>7 DEF OneSelector
<1>10. \A u \in Threads : reg'[u] \cap Queued(u)' = {} /\ IsInjective(queue'[u])
  BY <1>2, <1>4, <1>6 DEF OneSelector
<1> QED
  BY <1>7, <1>8, <1>9, <1>10 DEF OneSelector

\* What a step that gives no channel to a thread leaves true.
LEMMA NothingGiven ==
    ASSUME RolesSeparate, Unbound, bound' \in Int, bound <= bound', bound \in Int,
           TypeOK, \A t \in Threads : With(t)' \subseteq With(t)
    PROVE  RolesSeparate' /\ Unbound' /\ \A ch : Nowhere(ch) => Nowhere(ch)'
<1>1. RolesSeparate'
  BY DEF RolesSeparate
<1>2. \A ch : Nowhere(ch) => Nowhere(ch)'
  BY DEF Nowhere
<1>3. Unbound'
  <2> SUFFICES ASSUME NEW i \in 1..Len(BindOrder), bound' < i PROVE Nowhere(BindOrder[i])'
    BY DEF Unbound
  <2>1. bound < i
    OBVIOUS
  <2> QED
    BY <1>2, <2>1 DEF Unbound
<1> QED
  BY <1>1, <1>2, <1>3

LEMMA BindPlaces == PlacesInv /\ Bind => PlacesInv'
<1> SUFFICES ASSUME PlacesInv, Bind PROVE PlacesInv'
  OBVIOUS
<1>1. TypeOK' /\ TypeOK
  BY NextTypeOK DEF Next, MainStep, PlacesInv
<1>2. bound \in 0..Len(BindOrder) - 1 /\ bound' = bound + 1 /\ Len(BindOrder) \in Nat
  BY <1>1, ChannelsAssumption DEF Bind, TypeOK
<1>3. PICK ch \in Servers : ch = BindOrder[bound + 1]
  BY <1>2, ServersAreChannels
<1>4. Nowhere(ch)
  BY <1>2, <1>3 DEF PlacesInv, Unbound
<1>5. Started'
  <2>1. main' # "group" /\ main = "bind" /\ target' = target
    BY DEF Bind
  <2> QED
    BY <2>1 DEF PlacesInv, Started
<1>6. UNCHANGED <<backlog, data, reg>>
  BY DEF Bind, ioVars
<1>7. CASE NextIndex("boss", "boss") >= 0 /\ Enqueue("boss", "boss", ch, Main)
  <2>1. PICK t \in Threads : t = <<"boss", NextIndex("boss", "boss")>>
    BY <1>1, <1>7, ChosenIsThread DEF Groups
  <2>2. /\ \A u \in Threads : With(u)' = IF u = t THEN With(u) \cup {ch} ELSE With(u)
        /\ OneSelector'
    BY <1>1, <1>3, <1>4, <1>6, <1>7, <2>1, EnqueueMoves, ServersAreChannels DEF Groups, PlacesInv
  <2>3. RolesSeparate'
    <3>1. t[1] = "boss"
      BY <2>1
    <3> QED
      BY <1>3, <2>2, <3>1 DEF PlacesInv, RolesSeparate
  <2>4. \A x : x # ch /\ Nowhere(x) => Nowhere(x)'
    BY <2>2 DEF Nowhere
  <2>5. Unbound'
    <3> SUFFICES ASSUME NEW i \in 1..Len(BindOrder), bound' < i PROVE Nowhere(BindOrder[i])'
      BY DEF Unbound
    <3>1. BindOrder[i] # ch
      BY <1>2, <1>3, ChannelsAssumption
    <3>2. Nowhere(BindOrder[i])
      BY <1>2 DEF PlacesInv, Unbound
    <3> QED
      BY <2>4, <3>1, <3>2
  <2>6. Waiting'
    <3>1. \A c \in Clients : c # ch
      BY <1>3, ChannelsAssumption
    <3> QED
      BY <1>6, <2>4, <3>1 DEF PlacesInv, Waiting
  <2> QED
    BY <1>1, <1>5, <2>2, <2>3, <2>5, <2>6 DEF PlacesInv
<1>8. CASE UNCHANGED queue
  <2>1. (\A t \in Threads : With(t)' = With(t)) /\ OneSelector'
    BY <1>6, <1>8, NothingMoves DEF PlacesInv
  <2>2. RolesSeparate' /\ Unbound' /\ \A x : Nowhere(x) => Nowhere(x)'
    BY <1>1, <1>2, <2>1, NothingGiven DEF PlacesInv
  <2>3. Waiting'
    BY <1>6, <2>2 DEF PlacesInv, Waiting
  <2> QED
    BY <1>1, <1>5, <2>1, <2>2, <2>3 DEF PlacesInv
<1> QED
  BY <1>3, <1>7, <1>8 DEF Bind

\* A boss thread that accepts does so after main has set the target of its group.
LEMMA AcceptorsTarget ==
    ASSUME PlacesInv, NEW t \in Threads, NEW s \in sel[t] \cap Servers
    PROVE  main # "group" /\ target[stg[t]] = "worker"
<1>1. s \in With(t)
  BY DEF PlacesInv, TypeOK, With
<1>2. PICK i \in 1..Len(BindOrder) : s = BindOrder[i]
  BY DEF Servers
<1>3. ~(bound < i)
  BY <1>1, <1>2 DEF PlacesInv, Unbound, Nowhere
<1>4. bound # 0
  BY <1>2, <1>3, ChannelsAssumption
<1>5. stg[t] \in Groups
  BY DEF PlacesInv, TypeOK
<1> QED
  BY <1>4, <1>5 DEF PlacesInv, Started, Groups

LEMMA AcceptPlaces ==
    ASSUME PlacesInv, NEW t \in Threads, Accept(t) PROVE PlacesInv'
<1>1. TypeOK /\ TypeOK'
  BY NextTypeOK DEF Next, ThreadStep, PlacesInv
<1>2. PICK s \in sel[t] \cap Servers, c \in Clients :
        /\ c \in backlog[s]
        /\ backlog' = [backlog EXCEPT ![s] = @ \ {c}]
        /\ \/ /\ NextIndex(stg[t], target[stg[t]]) >= 0
              /\ Enqueue(stg[t], target[stg[t]], c, t)
           \/ UNCHANGED queue
  BY DEF Accept
<1>3. UNCHANGED <<main, bound, target, reg, data>>
  BY DEF Accept, mainVars
<1>4. target[stg[t]] = "worker" /\ stg[t] \in Groups /\ "worker" \in Groups
  BY <1>1, AcceptorsTarget DEF TypeOK, Groups
<1>5. Nowhere(c) /\ data[c] # "absent" /\ \A r \in Servers : c \in backlog[r] => r = s
  BY <1>2 DEF PlacesInv, Waiting
<1>6. /\ \A r \in Servers : backlog'[r] \subseteq backlog[r]
      /\ \A r \in Servers : c \notin backlog'[r]
  BY <1>1, <1>2, <1>5 DEF TypeOK
<1>7. Started'
  BY <1>3 DEF PlacesInv, Started
<1>8. CASE NextIndex(stg[t], "worker") >= 0 /\ Enqueue(stg[t], "worker", c, t)
  <2>1. PICK w \in Threads : w = <<"worker", NextIndex(stg[t], "worker")>>
    BY <1>1, <1>4, <1>8, ChosenIsThread
  <2>2. /\ \A u \in Threads : With(u)' = IF u = w THEN With(u) \cup {c} ELSE With(u)
        /\ OneSelector'
    BY <1>1, <1>3, <1>4, <1>5, <1>8, <2>1, EnqueueMoves, ServersAreChannels DEF PlacesInv
  <2>3. RolesSeparate'
    <3>1. w[1] = "worker"
      BY <2>1
    <3> QED
      BY <2>2, <3>1 DEF PlacesInv, RolesSeparate
  <2>4. \A x : x # c /\ Nowhere(x) => Nowhere(x)'
    BY <2>2 DEF Nowhere
  <2>5. Unbound'
    <3> SUFFICES ASSUME NEW i \in 1..Len(BindOrder), bound' < i PROVE Nowhere(BindOrder[i])'
      BY DEF Unbound
    <3>1. BindOrder[i] # c
      BY ServersAreChannels, ChannelsAssumption
    <3>2. Nowhere(BindOrder[i])
      BY <1>3 DEF PlacesInv, Unbound
    <3> QED
      BY <2>4, <3>1, <3>2
  <2>6. Waiting'
    <3> SUFFICES ASSUME NEW d \in Clients
        PROVE  /\ \A p, q \in Servers : d \in backlog'[p] /\ d \in backlog'[q] => p = q
               /\ data'[d] = "absent" => \A p \in Servers : d \notin backlog'[p]
               /\ data'[d] = "absent" \/ (\E p \in Servers : d \in backlog'[p]) => Nowhere(d)'
      BY DEF Waiting
    <3>1. CASE d = c
      BY <1>3, <1>5, <1>6, <3>1
    <3>2. CASE d # c
      BY <1>3, <1>6, <2>4, <3>2 DEF PlacesInv, Waiting
    <3> QED
      BY <3>1, <3>2
  <2> QED
    BY <1>1, <1>7, <2>2, <2>3, <2>5, <2>6 DEF PlacesInv
<1>9. CASE UNCHANGED queue
  <2>1. (\A u \in Threads : With(u)' = With(u)) /\ OneSelector'
    BY <1>3, <1>9, NothingMoves DEF PlacesInv
  <2>2. RolesSeparate' /\ Unbound' /\ \A x : Nowhere(x) => Nowhere(x)'
    BY <1>1, <1>3, <2>1, NothingGiven DEF PlacesInv, TypeOK
  <2>3. Waiting'
    BY <1>3, <1>6, <2>2 DEF PlacesInv, Waiting
  <2> QED
    BY <1>1, <1>7, <2>1, <2>2, <2>3 DEF PlacesInv
<1> QED
  BY <1>2, <1>4, <1>8, <1>9

\* The other steps give no channel to a thread and take none back to the network.
LEMMA OtherPlaces ==
    ASSUME PlacesInv, TypeOK', UNCHANGED <<bound, backlog>>, Started', OneSelector',
           \A t \in Threads : With(t)' \subseteq With(t),
           \A c \in Clients : data'[c] = "absent" => data[c] = "absent"
    PROVE  PlacesInv'
<1>1. RolesSeparate' /\ Unbound' /\ \A x : Nowhere(x) => Nowhere(x)'
  BY ChannelsAssumption, NothingGiven DEF PlacesInv, TypeOK
<1>2. Waiting'
  BY <1>1 DEF PlacesInv, Waiting
<1> QED
  BY <1>1, <1>2 DEF PlacesInv

LEMMA NextPlaces == PlacesInv /\ [Next]_vars => PlacesInv'
<1> SUFFICES ASSUME PlacesInv, [Next]_vars PROVE PlacesInv'
  OBVIOUS
<1>1. TypeOK /\ TypeOK'
  BY NextTypeOK DEF PlacesInv
<1>2. CASE Bind
  BY <1>2, BindPlaces
<1>3. ASSUME NEW t \in Threads, Accept(t) PROVE PlacesInv'
  BY <1>3, AcceptPlaces
<1>4. ASSUME UNCHANGED <<reg, queue, bound, backlog>>, Started',
             \A c \in Clients : data'[c] = "absent" => data[c] = "absent"
      PROVE  PlacesInv'
  <2>1. (\A t \in Threads : With(t)' = With(t)) /\ OneSelector'
    BY <1>4, NothingMoves DEF PlacesInv
  <2> QED
    BY <1>1, <1>4, <2>1, OtherPlaces
<1>5. UNCHANGED <<main, bound, target>> => Started'
  BY DEF PlacesInv, Started
<1>6. CASE SetGroup
  <2>1. Started'
    BY <1>1, <1>6 DEF SetGroup, PlacesInv, Started, TypeOK, Groups
  <2> QED
    BY <1>4, <1>6, <2>1 DEF SetGroup, ioVars
<1>7. CASE SetWorker \/ WakeBoss
  <2>1. Started'
    BY <1>7 DEF SetWorker, WakeBoss, PlacesInv, Started
  <2> QED
    BY <1>4, <1>7, <2>1 DEF SetWorker, WakeBoss, ioVars
<1>8. ASSUME NEW t \in Threads, Select(t) \/ WakeWorker(t) \/ BeginRead(t) \/ Echo(t)
      PROVE  PlacesInv'
  BY <1>4, <1>5, <1>8 DEF Select, WakeWorker, BeginRead, Echo, mainVars, ioVars
<1>9. ASSUME NEW t \in Threads, Read(t) PROVE PlacesInv'
  <2>1. (\A u \in Threads : With(u)' \subseteq With(u)) /\ OneSelector'
    BY <1>1, <1>9, ReadMoves DEF PlacesInv
  <2>2. \A c \in Clients : data'[c] = "absent" => data[c] = "absent"
    BY <1>1, <1>9 DEF Read, TypeOK
  <2>3. UNCHANGED <<main, bound, target, backlog>>
    BY <1>9 DEF Read, mainVars
  <2> QED
    BY <1>1, <1>5, <2>1, <2>2, <2>3, OtherPlaces
<1>10. ASSUME NEW t \in Threads, Register(t) PROVE PlacesInv'
  <2>1. (\A u \in Threads : With(u)' = With(u)) /\ OneSelector'
    BY <1>1, <1>10, RegisterMoves DEF PlacesInv
  <2>2. UNCHANGED <<main, bound, target, backlog, data>>
    BY <1>10 DEF Register, mainVars, ioVars
  <2> QED
    BY <1>1, <1>5, <2>1, <2>2, OtherPlaces
<1>11. ASSUME NEW c \in Clients, Connect(c) PROVE PlacesInv'
  <2>1. PICK i \in 1..bound :
          backlog' = [backlog EXCEPT ![BindOrder[i]] = @ \cup {c}]
    BY <1>11 DEF Connect
  <2>2. UNCHANGED <<main, bound, target, reg, queue>>
        /\ data[c] = "absent" /\ data' = [data EXCEPT ![c] = "none"]
    BY <1>11 DEF Connect, mainVars
  <2>3. (\A t \in Threads : With(t)' = With(t)) /\ OneSelector'
    BY <2>2, NothingMoves DEF PlacesInv
  <2>4. RolesSeparate' /\ Unbound' /\ \A x : Nowhere(x) => Nowhere(x)'
    BY <1>1, <2>2, <2>3, ChannelsAssumption, NothingGiven DEF PlacesInv, TypeOK
  <2>5. BindOrder[i] \in Servers
    BY <1>1, ServersAreChannels, ChannelsAssumption DEF TypeOK
  <2>6. Nowhere(c) /\ \A s \in Servers : c \notin backlog[s]
    BY <2>2 DEF PlacesInv, Waiting
  <2>7. \A s \in Servers :
          backlog'[s] = IF s = BindOrder[i] THEN backlog[s] \cup {c} ELSE backlog[s]
    BY <1>1, <2>1, <2>5 DEF TypeOK
  <2>8. Waiting'
    <3> SUFFICES ASSUME NEW d \in Clients
        PROVE  /\ \A p, q \in Servers : d \in backlog'[p] /\ d \in backlog'[q] => p = q
               /\ data'[d] = "absent" => \A p \in Servers : d \notin backlog'[p]
               /\ data'[d] = "absent" \/ (\E p \in Servers : d \in backlog'[p]) => Nowhere(d)'
      BY DEF Waiting
    <3>1. CASE d = c
      <4>1. data'[c] = "none"
        BY <1>1, <2>2 DEF TypeOK
      <4>2. \A s \in Servers : c \in backlog'[s] => s = BindOrder[i]
        BY <2>6, <2>7
      <4> QED
        BY <2>4, <2>6, <3>1, <4>1, <4>2
    <3>2. CASE d # c
      <4>1. \A s \in Servers : d \in backlog'[s] <=> d \in backlog[s]
        BY <2>7, <3>2
      <4>2. data'[d] = data[d]
        BY <1>1, <2>2, <3>2 DEF TypeOK
      <4> QED
        BY <2>4, <4>1, <4>2 DEF PlacesInv, Waiting
    <3> QED
      BY <3>1, <3>2
  <2> QED
    BY <1>1, <1>5, <2>2, <2>3, <2>4, <2>8 DEF PlacesInv
<1>12. ASSUME NEW c \in Clients, Send(c) \/ Leave(c) PROVE PlacesInv'
  <2>1. \A d \in Clients : data'[d] = "absent" => data[d] = "absent"
    BY <1>1, <1>12 DEF Send, Leave, TypeOK
  <2> QED
    BY <1>4, <1>5, <1>12, <2>1 DEF Send, Leave, mainVars
<1>13. CASE UNCHANGED vars
  BY <1>4, <1>5, <1>13 DEF vars
<1>14. ASSUME NEW t \in Threads, ReadThrows(t) PROVE PlacesInv'
  <2>1. \A d \in Clients : data'[d] = "absent" => data[d] = "absent"
    BY <1>1, <1>14 DEF ReadThrows, TypeOK
  <2> QED
    BY <1>4, <1>5, <1>14, <2>1 DEF ReadThrows, mainVars
<1> QED
  BY <1>2, <1>3, <1>6, <1>7, <1>8, <1>9, <1>10, <1>11, <1>12, <1>13, <1>14
  DEF Next, MainStep, ThreadStep, LoopStep

LEMMA InitPlaces == Init => PlacesInv
<1> SUFFICES ASSUME Init PROVE PlacesInv
  OBVIOUS
<1>1. \A t \in Threads : With(t) = {} /\ Queued(t) = {} /\ reg[t] = {} /\ IsInjective(queue[t])
  BY DEF Init, With, Queued, IsInjective
<1>2. OneSelector /\ RolesSeparate /\ Unbound /\ \A x : Nowhere(x)
  BY <1>1 DEF OneSelector, RolesSeparate, Unbound, Nowhere
<1>3. Started
  BY DEF Init, Started, Groups
<1>4. Waiting
  BY <1>2 DEF Init, Waiting
<1> QED
  BY <1>2, <1>3, <1>4, InitTypeOK DEF PlacesInv

LEMMA PlacesInvariant == Spec => []PlacesInv
<1>1. Init => PlacesInv
  BY InitPlaces
<1>2. PlacesInv /\ [Next]_vars => PlacesInv'
  BY NextPlaces
<1> QED
  BY <1>1, <1>2, PTL DEF Spec

\* A channel is with one selector thread at most and once, whatever the interleaving
\* of main, the boss threads and the worker threads.
THEOREM ChannelsNotShared == Spec => []OneSelector
<1>1. PlacesInv => OneSelector
  BY DEF PlacesInv
<1> QED
  BY <1>1, PlacesInvariant, PTL

\* Boss threads have servers only and worker threads clients only, although main
\* configures a boss thread after it has handed it a server.
THEOREM RolesKept == Spec => []RolesSeparate
<1>1. PlacesInv => RolesSeparate
  BY DEF PlacesInv
<1> QED
  BY <1>1, PlacesInvariant, PTL

-----------------------------------------------------------------------------
(* No client is dropped                                                    *)

Kept(c) == Accepted(c) /\ data[c] # "eof" => \E t \in Threads : c \in With(t)

\* A step that accepts nobody keeps the clients it does not take away.
LEMMA KeepsClients ==
    ASSUME TypeOK, \A c \in Clients : Kept(c),
           UNCHANGED backlog,
           \A c \in Clients : data'[c] # "eof" => data[c] # "eof",
           \A c \in Clients : data[c] = "absent" => data'[c] = "absent",
           \A t \in Threads : \A c \in Clients :
               c \in With(t) /\ data'[c] # "eof" => c \in With(t)'
    PROVE  \A c \in Clients : Kept(c)'
<1> SUFFICES ASSUME NEW c \in Clients, Accepted(c)', data'[c] # "eof"
             PROVE  \E t \in Threads : c \in With(t)'
  BY DEF Kept
<1>1. Accepted(c) /\ data[c] # "eof"
  BY DEF Accepted
<1>2. PICK t \in Threads : c \in With(t)
  BY <1>1 DEF Kept
<1> QED
  BY <1>2

LEMMA DeadStaysDead ==
    TypeOK /\ [Next]_vars => \A t \in Threads : pc[t] = "dead" => pc'[t] = "dead"
<1> SUFFICES ASSUME TypeOK, [Next]_vars, NEW t \in Threads, pc[t] = "dead"
             PROVE  pc'[t] = "dead"
  OBVIOUS
<1>1. CASE MainStep
  BY <1>1 DEF MainStep, SetGroup, Bind, SetWorker, WakeBoss
<1>2. ASSUME NEW u \in Threads, ThreadStep(u) \/ LoopStep(u) PROVE pc'[t] = "dead"
  <2>1. CASE Select(u) \/ Accept(u) \/ WakeWorker(u) \/ BeginRead(u)
    BY <2>1 DEF Select, Accept, WakeWorker, BeginRead, Goes, TypeOK
  <2>2. CASE Read(u) \/ Register(u) \/ Echo(u) \/ ReadThrows(u)
    BY <2>2 DEF Read, Register, Echo, ReadThrows, Goes, TypeOK
  <2> QED
    BY <1>2, <2>1, <2>2 DEF ThreadStep, LoopStep
<1>3. ASSUME NEW c \in Clients, Connect(c) \/ Send(c) \/ Leave(c) PROVE pc'[t] = "dead"
  BY <1>3 DEF Connect, Send, Leave
<1> QED
  BY <1>1, <1>2, <1>3 DEF Next, vars

LEMMA NextKept ==
    ASSUME PlacesInv, [Next]_vars, Dead' = {}, \A c \in Clients : Kept(c)
    PROVE  \A c \in Clients : Kept(c)'
<1>1. TypeOK /\ TypeOK' /\ OneSelector
  BY NextTypeOK DEF PlacesInv
<1>2. ASSUME UNCHANGED <<reg, queue, backlog>>,
             \A c \in Clients : data'[c] # "eof" => data[c] # "eof",
             \A c \in Clients : data[c] = "absent" => data'[c] = "absent"
      PROVE  \A c \in Clients : Kept(c)'
  <2>1. \A t \in Threads : With(t)' = With(t)
    BY <1>1, <1>2, NothingMoves
  <2> QED
    BY <1>1, <1>2, <2>1, KeepsClients
<1>3. CASE SetGroup \/ SetWorker \/ WakeBoss
  BY <1>2, <1>3 DEF SetGroup, SetWorker, WakeBoss, ioVars
<1>4. CASE Bind
  <2>1. UNCHANGED <<reg, backlog, data>>
    BY <1>4 DEF Bind, ioVars
  <2>2. CASE UNCHANGED queue
    BY <1>2, <2>1, <2>2
  <2>3. CASE NextIndex("boss", "boss") >= 0
             /\ Enqueue("boss", "boss", BindOrder[bound + 1], Main)
    <3>1. bound + 1 \in 1..Len(BindOrder)
      BY <1>1, <1>4, ChannelsAssumption DEF Bind, TypeOK
    <3>2. Nowhere(BindOrder[bound + 1])
      BY <3>1, <1>1, ChannelsAssumption DEF PlacesInv, Unbound, TypeOK
    <3>3. BindOrder[bound + 1] \in Channels
      BY <3>1, ServersAreChannels
    <3>4. \A u \in Threads : With(u) \subseteq With(u)'
      BY <1>1, <2>1, <2>3, <3>2, <3>3, EnqueueMoves DEF Groups
    <3> QED
      BY <1>1, <2>1, <3>4, KeepsClients
  <2> QED
    BY <1>4, <2>2, <2>3 DEF Bind
<1>5. ASSUME NEW t \in Threads, Select(t) \/ WakeWorker(t) \/ BeginRead(t) \/ Echo(t)
      PROVE  \A c \in Clients : Kept(c)'
  BY <1>2, <1>5 DEF Select, WakeWorker, BeginRead, Echo, mainVars, ioVars
<1>6. ASSUME NEW t \in Threads, Accept(t) PROVE \A c \in Clients : Kept(c)'
  <2>1. PICK s \in sel[t] \cap Servers, c \in Clients :
          /\ c \in backlog[s]
          /\ backlog' = [backlog EXCEPT ![s] = @ \ {c}]
          /\ \/ /\ NextIndex(stg[t], target[stg[t]]) >= 0
                /\ Enqueue(stg[t], target[stg[t]], c, t)
             \/ Goes(t, "dead")
    BY <1>6 DEF Accept
  <2>2. UNCHANGED <<reg, data>>
    BY <1>6 DEF Accept, mainVars
  <2>3. ~Goes(t, "dead")
    BY <1>1 DEF Goes, TypeOK, Dead
  <2>4. stg[t] \in Groups /\ target[stg[t]] \in Groups /\ c \in Channels
    BY <1>1, ServersAreChannels DEF TypeOK
  <2>5. Nowhere(c)
    BY <2>1 DEF PlacesInv, Waiting
  <2>6. \E w \in Threads :
          \A u \in Threads : With(u)' = IF u = w THEN With(u) \cup {c} ELSE With(u)
    <3>1. /\ NextIndex(stg[t], target[stg[t]]) >= 0
          /\ Enqueue(stg[t], target[stg[t]], c, t)
      BY <2>1, <2>3
    <3>2. PICK w \in Threads : w = <<target[stg[t]], NextIndex(stg[t], target[stg[t]])>>
      BY <1>1, <2>4, <3>1, ChosenIsThread
    <3>3. \A u \in Threads : With(u)' = IF u = w THEN With(u) \cup {c} ELSE With(u)
      <4> DEFINE h == target[stg[t]]
      <4>1. h \in Groups /\ NextIndex(stg[t], h) >= 0 /\ Enqueue(stg[t], h, c, t)
        BY <2>4, <3>1
      <4>2. w = <<h, NextIndex(stg[t], h)>>
        BY <3>2
      <4> HIDE DEF h
      <4> QED
        BY <1>1, <2>2, <2>4, <2>5, <4>1, <4>2, EnqueueMoves
    <3> QED
      BY <3>3
  <2>7. \A r \in Servers : r # s => backlog'[r] = backlog[r]
    BY <1>1, <2>1 DEF TypeOK
  <2>8. backlog'[s] = backlog[s] \ {c}
    BY <1>1, <2>1 DEF TypeOK
  <2> SUFFICES ASSUME NEW d \in Clients, Accepted(d)', data'[d] # "eof"
               PROVE  \E u \in Threads : d \in With(u)'
    BY DEF Kept
  <2>9. CASE d = c
    BY <2>6, <2>9
  <2>10. CASE d # c
    <3>1. Accepted(d) /\ data[d] # "eof"
      BY <2>2, <2>7, <2>8, <2>10 DEF Accepted
    <3>2. PICK u \in Threads : d \in With(u)
      BY <3>1 DEF Kept
    <3> QED
      BY <2>6, <3>2
  <2> QED
    BY <2>9, <2>10
<1>7. ASSUME NEW t \in Threads, Read(t) PROVE \A c \in Clients : Kept(c)'
  <2>1. \A u \in Threads : \A ch \in With(u) \ With(u)' : data[ch] = "eof"
    BY <1>1, <1>7, ReadMoves
  <2>2. UNCHANGED backlog
    BY <1>7 DEF Read
  <2>3. PICK c \in Clients : \/ data[c] = "some" /\ data' = [data EXCEPT ![c] = "none"]
                             \/ UNCHANGED data
    BY <1>1, <1>7 DEF Read, TypeOK
  <2>4. /\ \A d \in Clients : data'[d] # "eof" => data[d] # "eof"
        /\ \A d \in Clients : data[d] = "absent" => data'[d] = "absent"
    BY <1>1, <2>3 DEF TypeOK
  <2> QED
    BY <1>1, <2>1, <2>2, <2>4, KeepsClients
<1>8. ASSUME NEW t \in Threads, Register(t) PROVE \A c \in Clients : Kept(c)'
  <2>1. \A u \in Threads : With(u)' = With(u)
    BY <1>1, <1>8, RegisterMoves
  <2>2. UNCHANGED <<backlog, data>>
    BY <1>8 DEF Register, ioVars
  <2> QED
    BY <1>1, <2>1, <2>2, KeepsClients
<1>9. ASSUME NEW c \in Clients, Connect(c) PROVE \A d \in Clients : Kept(d)'
  <2>1. PICK i \in 1..bound :
          backlog' = [backlog EXCEPT ![BindOrder[i]] = @ \cup {c}]
    BY <1>9 DEF Connect
  <2>2. UNCHANGED <<reg, queue>> /\ data' = [data EXCEPT ![c] = "none"]
    BY <1>9 DEF Connect
  <2>3. BindOrder[i] \in Servers
    BY <1>1, ServersAreChannels, ChannelsAssumption DEF TypeOK
  <2>4. /\ c \in backlog'[BindOrder[i]]
        /\ \A s \in Servers : backlog[s] \subseteq backlog'[s]
    BY <1>1, <2>1, <2>3 DEF TypeOK
  <2>5. \A t \in Threads : With(t)' = With(t)
    BY <1>1, <2>2, NothingMoves
  <2> SUFFICES ASSUME NEW d \in Clients, Accepted(d)', data'[d] # "eof"
               PROVE  \E u \in Threads : d \in With(u)'
    BY DEF Kept
  <2>6. d # c
    BY <2>3, <2>4 DEF Accepted
  <2>7. data'[d] = data[d]
    BY <1>1, <2>2, <2>6 DEF TypeOK
  <2>8. Accepted(d)
    BY <2>4, <2>7 DEF Accepted
  <2>9. PICK u \in Threads : d \in With(u)
    BY <2>7, <2>8 DEF Kept
  <2> QED
    BY <2>5, <2>9
<1>10. ASSUME NEW c \in Clients, Send(c) \/ Leave(c) PROVE \A d \in Clients : Kept(d)'
  <2>1. /\ \A d \in Clients : data'[d] # "eof" => data[d] # "eof"
        /\ \A d \in Clients : data[d] = "absent" => data'[d] = "absent"
    BY <1>1, <1>10 DEF Send, Leave, TypeOK
  <2> QED
    BY <1>2, <1>10, <2>1 DEF Send, Leave
<1>11. CASE UNCHANGED vars
  BY <1>2, <1>11 DEF vars
<1>12. ASSUME NEW t \in Threads, ReadThrows(t) PROVE \A c \in Clients : Kept(c)'
  <2>1. /\ \A d \in Clients : data'[d] # "eof" => data[d] # "eof"
        /\ \A d \in Clients : data[d] = "absent" => data'[d] = "absent"
    BY <1>1, <1>12 DEF ReadThrows, TypeOK
  <2> QED
    BY <1>2, <1>12, <2>1 DEF ReadThrows
<1> QED
  BY <1>3, <1>4, <1>5, <1>6, <1>7, <1>8, <1>9, <1>10, <1>11, <1>12
  DEF Next, MainStep, ThreadStep, LoopStep

\* No accepted client is lost between a boss thread's accept, the queue of the worker
\* thread it chose, and that worker's selector, as long as no overflow has ended a
\* thread.
THEOREM ClientsNotDropped == Spec => []NoClientDropped
<1>1. Init => NoClientDropped
  BY DEF Init, NoClientDropped, Accepted
<1>2. PlacesInv /\ NoClientDropped /\ [Next]_vars => NoClientDropped'
  <2> SUFFICES ASSUME PlacesInv, NoClientDropped, [Next]_vars, Dead' = {}
               PROVE  \A c \in Clients : Kept(c)'
    BY DEF NoClientDropped, Kept
  <2>1. Dead = {}
    BY DeadStaysDead DEF PlacesInv, Dead
  <2>2. \A c \in Clients : Kept(c)
    BY <2>1 DEF NoClientDropped, Kept
  <2> QED
    BY <2>2, NextKept
<1> QED
  BY <1>1, <1>2, PlacesInvariant, PTL DEF Spec

-----------------------------------------------------------------------------
(* The counters                                                            *)

AcceptedSet == {c \in Clients : Accepted(c)}

\* What a boss thread does, and has registered, comes after it has been told about the
\* worker group; worker threads are woken up by boss threads, which main wakes up.
Told ==
    /\ \A t \in Threads :
        t[1] = "boss" /\ (wake[t] \/ pc[t] # "select" \/ reg[t] # {}) => stg[t] = "worker"
    /\ main \in {"setworker", "wakeup"} => to[Main] \in Threads
    /\ main = "wakeup" => stg[to[Main]] = "worker"
    /\ \A t \in Threads : pc[t] = "wakeup" => to[t] \in Threads /\ to[t][1] = "worker"

\* The counter of the boss group counts binds, that of the worker group accepts.
CountsBinds == bound <= MaxInt => main # "dead" /\ xid["boss"] = bound
CountsAccepts ==
    Cardinality(AcceptedSet) <= MaxInt => Dead = {} /\ xid["worker"] = Cardinality(AcceptedSet)

\* Main is none of the threads of the groups.
LEMMA MainIsApart == Main \notin Threads
BY DEF Main, Threads, Groups

\* The steps that tell, wake and choose nobody.
LEMMA ToldKept ==
    ASSUME TypeOK, Told, NEW t \in Threads, pc[t] # "select", UNCHANGED <<main, wake, stg, to>>,
           \A u \in Threads : u # t => pc'[u] = pc[u] /\ reg'[u] = reg[u],
           pc'[t] # "wakeup"
    PROVE  Told'
BY DEF Told

LEMMA NextTold == PlacesInv /\ Told /\ [Next]_vars => Told'
<1> SUFFICES ASSUME PlacesInv, Told, [Next]_vars PROVE Told'
  OBVIOUS
<1>1. TypeOK /\ TypeOK'  BY NextTypeOK DEF PlacesInv
<1>2. ASSUME UNCHANGED <<reg, wake, pc, stg, to>>,
             main' \notin {"setworker", "wakeup"} \/ UNCHANGED main
      PROVE  Told'
  BY <1>2 DEF Told
<1>3. CASE SetGroup  BY <1>2, <1>3 DEF SetGroup
<1>4. CASE Bind
  <2>1. CASE NextIndex("boss", "boss") >= 0
             /\ Enqueue("boss", "boss", BindOrder[bound + 1], Main) /\ main' = "setworker"
    <3>1. PICK w \in Threads : w = <<"boss", NextIndex("boss", "boss")>>
      BY <1>1, <2>1, ChosenIsThread DEF Groups
    <3>2. to' = [to EXCEPT ![Main] = w]  BY <2>1, <3>1 DEF Enqueue
    <3>3. to'[Main] = w /\ \A t \in Threads : to'[t] = to[t]
      BY <1>1, <3>2, MainIsApart DEF TypeOK
    <3>4. UNCHANGED <<reg, wake, pc, stg>>  BY <1>4 DEF Bind
    <3> QED  BY <2>1, <3>3, <3>4 DEF Told
  <2>2. CASE main' = "dead" /\ UNCHANGED to  BY <1>2, <1>4, <2>2 DEF Bind
  <2> QED  BY <1>4, <2>1, <2>2 DEF Bind
<1>5. CASE SetWorker
  <2>1. target["boss"] = "worker"  BY <1>5 DEF SetWorker, PlacesInv, Started
  <2>2. to[Main] \in Threads  BY <1>5 DEF SetWorker, Told
  <2>3. \A t \in Threads : stg'[t] = IF t = to[Main] THEN "worker" ELSE stg[t]
    BY <1>1, <1>5, <2>1 DEF SetWorker, TypeOK
  <2>4. UNCHANGED <<reg, wake, pc, to>> /\ main' = "wakeup"  BY <1>5 DEF SetWorker
  <2> QED  BY <2>2, <2>3, <2>4 DEF Told
<1>6. CASE WakeBoss
  <2>1. to[Main] \in Threads /\ stg[to[Main]] = "worker"  BY <1>6 DEF WakeBoss, Told
  <2>2. \A t \in Threads : t # to[Main] => wake'[t] = wake[t]
    BY <1>1, <1>6 DEF WakeBoss, WakeUp, TypeOK
  <2>3. UNCHANGED <<reg, pc, stg, to>> /\ main' = "bind"  BY <1>6 DEF WakeBoss
  <2> QED  BY <2>1, <2>2, <2>3 DEF Told
<1>7. ASSUME NEW t \in Threads, Select(t) PROVE Told'
  <2>1. Ready(t) \subseteq reg[t]  BY DEF Ready, Acceptable, Readable
  <2>2. t[1] = "boss" => stg[t] = "worker"  BY <1>7, <2>1 DEF Select, Told
  <2>3. /\ \A u \in Threads : u # t => wake'[u] = wake[u] /\ pc'[u] = pc[u]
        /\ pc'[t] = "keys"
    BY <1>1, <1>7 DEF Select, Goes, TypeOK
  <2>4. UNCHANGED <<main, reg, stg, to>>  BY <1>7 DEF Select, mainVars
  <2> QED  BY <2>2, <2>3, <2>4 DEF Told
<1>8. ASSUME NEW t \in Threads, Accept(t) PROVE Told'
  <2>1. PICK s \in sel[t] \cap Servers, c \in Clients :
          \/ /\ NextIndex(stg[t], target[stg[t]]) >= 0
             /\ Enqueue(stg[t], target[stg[t]], c, t)
             /\ Goes(t, "wakeup")
          \/ Goes(t, "dead") /\ UNCHANGED <<queue, to>>
    BY <1>8 DEF Accept
  <2>2. UNCHANGED <<main, reg, wake, stg>> /\ pc[t] = "keys"  BY <1>8 DEF Accept, mainVars
  <2>3. CASE Goes(t, "dead") /\ UNCHANGED <<queue, to>>
    <3>1. pc' = [pc EXCEPT ![t] = "dead"]  BY <2>3 DEF Goes
    <3> QED  BY <1>1, <2>2, <2>3, <3>1, ToldKept DEF TypeOK
  <2>4. CASE /\ NextIndex(stg[t], target[stg[t]]) >= 0
             /\ Enqueue(stg[t], target[stg[t]], c, t)
             /\ Goes(t, "wakeup")
    <3>1. target[stg[t]] = "worker" /\ stg[t] \in Groups /\ "worker" \in Groups
      BY <1>1, <2>1, AcceptorsTarget DEF TypeOK, Groups
    <3>2. PICK w \in Threads : w = <<"worker", NextIndex(stg[t], "worker")>>
      BY <1>1, <2>4, <3>1, ChosenIsThread
    <3>3. to' = [to EXCEPT ![t] = w]  BY <2>4, <3>1, <3>2 DEF Enqueue
    <3>4. /\ to'[t] = w /\ to'[Main] = to[Main]
          /\ \A u \in Threads : u # t => to'[u] = to[u]
      BY <1>1, <3>3, MainIsApart DEF TypeOK
    <3>5. pc'[t] = "wakeup" /\ \A u \in Threads : u # t => pc'[u] = pc[u]
      BY <1>1, <2>4 DEF Goes, TypeOK
    <3>6. w[1] = "worker"  BY <3>2
    <3> QED  BY <2>2, <3>4, <3>5, <3>6 DEF Told
  <2> QED  BY <2>1, <2>3, <2>4
<1>9. ASSUME NEW t \in Threads, WakeWorker(t) PROVE Told'
  <2>1. to[t] \in Threads /\ to[t][1] = "worker" /\ pc[t] = "wakeup"
    BY <1>9 DEF WakeWorker, Told
  <2>2. \A u \in Threads : u # to[t] => wake'[u] = wake[u]
    BY <1>1, <1>9 DEF WakeWorker, WakeUp, TypeOK
  <2>3. pc'[t] = "keys" /\ \A u \in Threads : u # t => pc'[u] = pc[u]
    BY <1>1, <1>9 DEF WakeWorker, Goes, TypeOK
  <2>4. UNCHANGED <<main, reg, stg, to>>  BY <1>9 DEF WakeWorker, mainVars
  <2> QED  BY <2>1, <2>2, <2>3, <2>4 DEF Told
<1>10. ASSUME NEW t \in Threads, BeginRead(t) \/ Echo(t) \/ ReadThrows(t) PROVE Told'
  <2>1. pc[t] # "select" /\ pc'[t] # "wakeup" /\ UNCHANGED <<main, wake, stg, to, reg>>
    BY <1>1, <1>10 DEF BeginRead, Echo, ReadThrows, Goes, mainVars, TypeOK
  <2>2. \A u \in Threads : u # t => pc'[u] = pc[u]
    BY <1>1, <1>10 DEF BeginRead, Echo, ReadThrows, Goes, TypeOK
  <2> QED  BY <1>1, <2>1, <2>2, ToldKept
<1>11. ASSUME NEW t \in Threads, Read(t) \/ Register(t) PROVE Told'
  <2>1. pc[t] # "select" /\ UNCHANGED <<main, wake, stg, to>>
    BY <1>11 DEF Read, Register, mainVars
  <2>2. pc'[t] # "wakeup" /\ \A u \in Threads : u # t => pc'[u] = pc[u]
    BY <1>1, <1>11 DEF Read, Register, Goes, TypeOK
  <2>3. \A u \in Threads : u # t => reg'[u] = reg[u]
    BY <1>1, <1>11 DEF Read, Register, TypeOK
  <2> QED  BY <1>1, <2>1, <2>2, <2>3, ToldKept
<1>12. ASSUME NEW c \in Clients, Connect(c) \/ Send(c) \/ Leave(c) PROVE Told'
  BY <1>2, <1>12 DEF Connect, Send, Leave, mainVars
<1>13. CASE UNCHANGED vars  BY <1>2, <1>13 DEF vars
<1> QED
  BY <1>3, <1>4, <1>5, <1>6, <1>7, <1>8, <1>9, <1>10, <1>11, <1>12, <1>13
  DEF Next, MainStep, ThreadStep, LoopStep

LEMMA AcceptedIsFinite ==
    ASSUME IsFiniteSet(Clients)
    PROVE  IsFiniteSet(AcceptedSet) /\ Cardinality(AcceptedSet) \in Nat
<1>1. AcceptedSet \subseteq Clients  BY DEF AcceptedSet
<1>2. IsFiniteSet(AcceptedSet)  BY <1>1, FS_Subset
<1> QED  BY <1>2, FS_CardinalityType

\* A counter below its maximum chooses a thread.
LEMMA BelowMaxChooses ==
    ASSUME NEW g \in Groups, NEW h \in Groups, xid[g] \in Nat, xid[g] < MaxInt
    PROVE  Increment(xid[g]) = xid[g] + 1 /\ ~(NextIndex(g, h) < 0)
<1>1. Increment(xid[g]) = xid[g] + 1  BY DEF Increment
<1>2. Size[h] \in Nat \ {0}  BY SizeAssumption DEF Size, Groups
<1>3. (xid[g] + 1) % Size[h] \in Nat  BY <1>2
<1>4. NextIndex(g, h) = (xid[g] + 1) % Size[h]  BY <1>1 DEF NextIndex, Remainder
<1> QED  BY <1>1, <1>3, <1>4

CountInv == CountsBinds /\ CountsAccepts

\* Nothing is handed over.
LEMMA CountsNone ==
    ASSUME CountInv, UNCHANGED <<bound, xid>>, AcceptedSet' = AcceptedSet,
           main # "dead" => main' # "dead", Dead = {} => Dead' = {}
    PROVE  CountInv'
BY DEF CountInv, CountsBinds, CountsAccepts

\* A bind takes one value of the counter of the boss group.
LEMMA BindCounts ==
    ASSUME PlacesInv, CountInv, Bind PROVE CountInv'
<1>1. TypeOK  BY DEF PlacesInv
<1>2. bound \in Nat /\ bound' = bound + 1 /\ main # "dead" /\ MaxInt \in Nat
  BY <1>1, ChannelsAssumption, SizeAssumption DEF Bind, TypeOK
<1>3. UNCHANGED <<pc, backlog, data>> /\ xid' = [xid EXCEPT !["boss"] = Increment(@)]
  BY DEF Bind, ioVars
<1>4. xid'["worker"] = xid["worker"] /\ xid'["boss"] = Increment(xid["boss"])
  BY <1>1, <1>3 DEF TypeOK, Groups
<1>5. AcceptedSet' = AcceptedSet /\ Dead' = Dead  BY <1>3 DEF AcceptedSet, Accepted, Dead
<1>6. CountsAccepts'  BY <1>4, <1>5 DEF CountInv, CountsAccepts
<1>7. ASSUME bound' <= MaxInt PROVE main' # "dead" /\ xid'["boss"] = bound'
  <2>1. xid["boss"] = bound /\ bound < MaxInt  BY <1>2, <1>7 DEF CountInv, CountsBinds
  <2>2. Increment(xid["boss"]) = bound + 1 /\ ~(NextIndex("boss", "boss") < 0)
    BY <1>2, <2>1, BelowMaxChooses DEF Groups
  <2> QED  BY <1>2, <1>4, <2>2 DEF Bind
<1> QED  BY <1>6, <1>7 DEF CountInv, CountsBinds

\* An accept takes one value of the counter of the worker group.
LEMMA AcceptCounts ==
    ASSUME IsFiniteSet(Clients), PlacesInv, Told, CountInv, NEW t \in Threads, Accept(t)
    PROVE  CountInv'
<1>1. TypeOK /\ RolesSeparate  BY DEF PlacesInv
<1>2. PICK s \in sel[t] \cap Servers, c \in Clients :
        /\ c \in backlog[s]
        /\ backlog' = [backlog EXCEPT ![s] = @ \ {c}]
        /\ xid' = [xid EXCEPT ![stg[t]] = Increment(@)]
        /\ \/ Goes(t, "wakeup")
           \/ NextIndex(stg[t], target[stg[t]]) < 0
  BY DEF Accept
<1>3. UNCHANGED <<main, bound, data>> /\ pc[t] = "keys"  BY DEF Accept, mainVars
<1>4. stg[t] = "worker"
  <2>1. s \in With(t)  BY <1>1 DEF TypeOK, With
  <2>2. t[1] = "boss"  BY <1>1, <2>1, ChannelsAssumption DEF RolesSeparate
  <2> QED  BY <1>3, <2>2 DEF Told
<1>5. xid'["boss"] = xid["boss"] /\ xid'["worker"] = Increment(xid["worker"])
  BY <1>1, <1>2, <1>4 DEF TypeOK, Groups
<1>6. CountsBinds'  BY <1>3, <1>5 DEF CountInv, CountsBinds
<1>7. AcceptedSet' = AcceptedSet \cup {c} /\ c \notin AcceptedSet
  <2>1. \A r \in Servers : backlog'[r] = IF r = s THEN backlog[s] \ {c} ELSE backlog[r]
    BY <1>1, <1>2 DEF TypeOK
  <2>2. c \notin AcceptedSet  BY <1>2 DEF AcceptedSet, Accepted
  <2>3. Accepted(c)'
    <3>1. data[c] # "absent" /\ \A r \in Servers : c \in backlog[r] => r = s
      BY <1>2 DEF PlacesInv, Waiting
    <3> QED  BY <1>3, <2>1, <3>1 DEF Accepted
  <2>4. \A d \in Clients : d # c => (Accepted(d)' <=> Accepted(d))
    BY <1>3, <2>1 DEF Accepted
  <2> QED  BY <2>2, <2>3, <2>4 DEF AcceptedSet
<1> DEFINE n == Cardinality(AcceptedSet)
<1>8. n \in Nat /\ Cardinality(AcceptedSet') = n + 1
  BY <1>7, AcceptedIsFinite, FS_AddElement
<1>9. ASSUME Cardinality(AcceptedSet') <= MaxInt PROVE Dead' = {} /\ xid'["worker"] = n + 1
  <2>1. n < MaxInt /\ n <= MaxInt  BY <1>8, <1>9, SizeAssumption
  <2>2. Dead = {} /\ xid["worker"] = n  BY <2>1 DEF CountInv, CountsAccepts
  <2>3. target["worker"] \in Groups /\ "worker" \in Groups  BY <1>1 DEF TypeOK, Groups
  <2>4. Increment(xid["worker"]) = n + 1 /\ ~(NextIndex("worker", target["worker"]) < 0)
    BY <1>8, <2>1, <2>2, <2>3, BelowMaxChooses
  <2>5. Goes(t, "wakeup")  BY <1>2, <1>4, <2>4
  <2>6. Dead' = {}  BY <1>1, <2>2, <2>5 DEF Dead, Goes, TypeOK
  <2> QED  BY <1>5, <2>4, <2>6
<1> QED  BY <1>6, <1>8, <1>9 DEF CountInv, CountsAccepts

LEMMA NextCounts ==
    ASSUME IsFiniteSet(Clients), PlacesInv, Told, CountInv, [Next]_vars
    PROVE  CountInv'
<1>1. TypeOK /\ TypeOK'  BY NextTypeOK DEF PlacesInv
<1>2. ASSUME UNCHANGED <<bound, xid, backlog>>,
             \A c \in Clients : data'[c] = "absent" <=> data[c] = "absent",
             main # "dead" => main' # "dead", Dead = {} => Dead' = {}
      PROVE  CountInv'
  <2>1. AcceptedSet' = AcceptedSet  BY <1>2 DEF AcceptedSet, Accepted
  <2> QED  BY <1>2, <2>1, CountsNone
<1>3. ASSUME NEW t \in Threads, NEW next \in {"keys", "wakeup", "read", "write", "select"},
             Goes(t, next)
      PROVE  Dead = {} => Dead' = {}
  BY <1>1, <1>3 DEF Goes, Dead, TypeOK
<1>4. UNCHANGED pc => (Dead = {} => Dead' = {})  BY DEF Dead
<1>5. CASE Bind  BY <1>5, BindCounts
<1>6. ASSUME NEW t \in Threads, Accept(t) PROVE CountInv'  BY <1>6, AcceptCounts
<1>7. CASE SetGroup \/ SetWorker \/ WakeBoss
  BY <1>2, <1>4, <1>7 DEF SetGroup, SetWorker, WakeBoss, ioVars
<1>8. ASSUME NEW t \in Threads,
             Select(t) \/ WakeWorker(t) \/ Register(t) \/ BeginRead(t) \/ Echo(t)
      PROVE  CountInv'
  <2>1. UNCHANGED <<main, bound, xid, backlog, data>>
    BY <1>8 DEF Select, WakeWorker, Register, BeginRead, Echo, mainVars, ioVars
  <2>2. Dead = {} => Dead' = {}
    BY <1>3, <1>8 DEF Select, WakeWorker, Register, BeginRead, Echo
  <2> QED  BY <1>2, <2>1, <2>2
<1>9. ASSUME NEW t \in Threads, Read(t) PROVE CountInv'
  <2>1. UNCHANGED <<main, bound, xid, backlog>>  BY <1>9 DEF Read, mainVars
  <2>2. Goes(t, "write") \/ Goes(t, "keys")  BY <1>9 DEF Read
  <2>3. \A c \in Clients : data'[c] = "absent" <=> data[c] = "absent"
    BY <1>1, <1>9 DEF Read, TypeOK
  <2> QED  BY <1>2, <1>3, <2>1, <2>2, <2>3
<1>10. ASSUME NEW c \in Clients, Connect(c) PROVE CountInv'
  <2>1. PICK i \in 1..bound : backlog' = [backlog EXCEPT ![BindOrder[i]] = @ \cup {c}]
    BY <1>10 DEF Connect
  <2>2. UNCHANGED <<main, bound, xid, pc>> /\ data[c] = "absent" /\ data' = [data EXCEPT ![c] = "none"]
    BY <1>10 DEF Connect, mainVars
  <2>3. BindOrder[i] \in Servers  BY <1>1, ServersAreChannels, ChannelsAssumption DEF TypeOK
  <2>4. \A s \in Servers :
          backlog'[s] = IF s = BindOrder[i] THEN backlog[s] \cup {c} ELSE backlog[s]
    BY <1>1, <2>1, <2>3 DEF TypeOK
  <2>5. ~Accepted(c) /\ ~Accepted(c)'  BY <2>2, <2>3, <2>4 DEF Accepted
  <2>6. \A d \in Clients : d # c => (Accepted(d)' <=> Accepted(d))
    <3> SUFFICES ASSUME NEW d \in Clients, d # c PROVE Accepted(d)' <=> Accepted(d)
      OBVIOUS
    <3>1. data'[d] = data[d]  BY <1>1, <2>2 DEF TypeOK
    <3>2. \A s \in Servers : d \in backlog'[s] <=> d \in backlog[s]  BY <2>4
    <3> QED  BY <3>1, <3>2 DEF Accepted
  <2>7. AcceptedSet' = AcceptedSet  BY <2>5, <2>6 DEF AcceptedSet
  <2> QED  BY <1>4, <2>2, <2>7, CountsNone
<1>11. ASSUME NEW c \in Clients, Send(c) \/ Leave(c) PROVE CountInv'
  <2>1. UNCHANGED <<main, bound, xid, pc, backlog>>  BY <1>11 DEF Send, Leave, mainVars
  <2>2. \A d \in Clients : data'[d] = "absent" <=> data[d] = "absent"
    BY <1>1, <1>11 DEF Send, Leave, TypeOK
  <2> QED  BY <1>2, <1>4, <2>1, <2>2
<1>12. CASE UNCHANGED vars  BY <1>2, <1>4, <1>12 DEF vars
<1>13. ASSUME NEW t \in Threads, ReadThrows(t) PROVE CountInv'
  <2>1. UNCHANGED <<main, bound, xid, pc, backlog>>  BY <1>13 DEF ReadThrows, mainVars
  <2>2. \A d \in Clients : data'[d] = "absent" <=> data[d] = "absent"
    BY <1>1, <1>13 DEF ReadThrows, TypeOK
  <2> QED  BY <1>2, <1>4, <2>1, <2>2
<1> QED
  BY <1>5, <1>6, <1>7, <1>8, <1>9, <1>10, <1>11, <1>12, <1>13
  DEF Next, MainStep, ThreadStep, LoopStep

\* Until MaxInt values have been used, the index of next() and of nextV3() is one of the
\* array, for any number of threads: main does not end by its first MaxInt binds, nor a
\* boss thread by the first MaxInt accepts.
THEOREM IndexStaysInRange == ASSUME IsFiniteSet(Clients) PROVE Spec => []IndexInRange
<1>1. Init => Told /\ CountInv
  <2> SUFFICES ASSUME Init PROVE Told /\ CountInv
    OBVIOUS
  <2>1. Told  BY DEF Init, Told
  <2>2. AcceptedSet = {}  BY DEF Init, AcceptedSet, Accepted
  <2>3. Cardinality(AcceptedSet) = 0  BY <2>2, FS_EmptySet
  <2> QED  BY <2>1, <2>3 DEF Init, Dead, CountInv, CountsBinds, CountsAccepts, Groups
<1>2. PlacesInv /\ Told /\ [Next]_vars => Told'  BY NextTold
<1>3. PlacesInv /\ Told /\ CountInv /\ [Next]_vars => CountInv'  BY NextCounts
<1>4. PlacesInv /\ CountInv => IndexInRange
  <2> SUFFICES ASSUME PlacesInv, CountInv PROVE IndexInRange
    OBVIOUS
  <2>1. bound \in Nat /\ Cardinality(AcceptedSet) \in Nat /\ MaxInt \in Nat
    BY ChannelsAssumption, SizeAssumption, AcceptedIsFinite DEF PlacesInv, TypeOK
  <2>2. ~(bound <= MaxInt) => bound > MaxInt  BY <2>1
  <2>3. ~(Cardinality(AcceptedSet) <= MaxInt) => Cardinality(AcceptedSet) > MaxInt  BY <2>1
  <2> QED  BY <2>2, <2>3 DEF CountInv, CountsBinds, CountsAccepts, IndexInRange, AcceptedSet
<1> QED  BY <1>1, <1>2, <1>3, <1>4, PlacesInvariant, PTL DEF Spec

-----------------------------------------------------------------------------
(* SelectorGroup implements Handover                                       *)

LEMMA HeldPairs ==
    /\ \A p : p \in Held <=> \E t \in Threads : \E ch \in With(t) : p = <<ch, t>>
    /\ \A p : p \in Held' <=> \E t \in Threads : \E ch \in With(t)' : p = <<ch, t>>
BY DEF Held, With, Queued

LEMMA HeldKept ==
    ASSUME \A t \in Threads : With(t)' = With(t)
    PROVE  Held' = Held
BY HeldPairs

\* Nobody has what is still to be handed over.
LEMMA FreshNowhere ==
    ASSUME PlacesInv, NEW ch \in Fresh
    PROVE  ch \in Channels /\ Nowhere(ch) /\ Shared!Holders(ch) = {}
<1>1. ch \in Channels /\ Nowhere(ch)
  <2>1. CASE \E i \in bound + 1..Len(BindOrder) : ch = BindOrder[i]
    <3>1. PICK i \in bound + 1..Len(BindOrder) : ch = BindOrder[i]
      BY <2>1
    <3>2. bound \in Nat /\ Len(BindOrder) \in Nat
      BY ChannelsAssumption DEF PlacesInv, TypeOK
    <3>3. i \in 1..Len(BindOrder) /\ bound < i
      BY <3>2
    <3> QED
      BY <3>1, <3>3, ServersAreChannels DEF PlacesInv, Unbound
  <2>2. CASE ch \in Clients /\ ~Accepted(ch)
    BY <2>2, ServersAreChannels DEF PlacesInv, Waiting, Accepted
  <2> QED
    BY <2>1, <2>2 DEF Fresh
<1>2. \A p \in Held : p[1] # ch
  BY <1>1, HeldPairs DEF Nowhere
<1> QED
  BY <1>1, <1>2 DEF Shared!Holders

LEMMA FreshKept ==
    ASSUME bound' = bound, \A c \in Clients : Accepted(c)' <=> Accepted(c)
    PROVE  Fresh' = Fresh
BY DEF Fresh, Accepted

\* Giving a fresh channel away in the terms of both modules.
LEMMA Gives ==
    ASSUME PlacesInv, NEW ch \in Fresh, Fresh' = Fresh \ {ch},
           \/ \E t \in Threads :
                /\ t[1] = IF ch \in Servers THEN "boss" ELSE "worker"
                /\ \A u \in Threads : With(u)' = IF u = t THEN With(u) \cup {ch} ELSE With(u)
           \/ \A u \in Threads : With(u)' = With(u)
    PROVE  Shared!HNext
<1>1. ch \in Channels /\ Shared!Holders(ch) = {}
  BY FreshNowhere
<1>2. CASE \A u \in Threads : With(u)' = With(u)
  <2>1. Shared!Give(ch)
    BY <1>1, <1>2, HeldKept DEF Shared!Give
  <2> QED
    BY <2>1 DEF Shared!HNext
<1>3. ASSUME NEW t \in Threads,
             t[1] = IF ch \in Servers THEN "boss" ELSE "worker",
             \A u \in Threads : With(u)' = IF u = t THEN With(u) \cup {ch} ELSE With(u)
      PROVE  Shared!HNext
  <2>1. t \in Home[ch]
    BY <1>1, <1>3 DEF Home
  <2>2. Held' = Held \cup {<<ch, t>>}
    <3>1. ASSUME NEW p PROVE p \in Held' <=> p \in Held \/ p = <<ch, t>>
      BY <1>3, HeldPairs
    <3> QED
      BY <3>1
  <2>3. Shared!Give(ch)
    BY <1>1, <2>1, <2>2 DEF Shared!Give
  <2> QED
    BY <2>3 DEF Shared!HNext
<1> QED
  BY <1>2, <1>3

LEMMA BindGives ==
    ASSUME PlacesInv, Bind
    PROVE  Shared!HNext
<1> DEFINE ch == BindOrder[bound + 1]
<1>1. TypeOK
  BY DEF PlacesInv
<1>2. bound \in Nat /\ Len(BindOrder) \in Nat /\ bound + 1 \in 1..Len(BindOrder)
      /\ bound' = bound + 1
  BY <1>1, ChannelsAssumption DEF Bind, TypeOK
<1>3. ch \in Servers
  BY <1>2, ServersAreChannels
<1>4. UNCHANGED <<backlog, data, reg>>
  BY DEF Bind, ioVars
<1>5. ch \in Fresh
  BY <1>2 DEF Fresh
<1>6. Fresh' = Fresh \ {ch}
  <2>1. \A c \in Clients : (Accepted(c)' <=> Accepted(c)) /\ c # ch
    BY <1>3, <1>4, ChannelsAssumption DEF Accepted
  <2>2. {BindOrder[i] : i \in bound' + 1..Len(BindOrder)}
          = {BindOrder[i] : i \in bound + 1..Len(BindOrder)} \ {ch}
    <3>1. \A i \in bound + 1..Len(BindOrder) : BindOrder[i] = ch <=> i = bound + 1
      BY <1>2, ChannelsAssumption
    <3>2. bound' + 1..Len(BindOrder) = (bound + 1..Len(BindOrder)) \ {bound + 1}
      BY <1>2
    <3> QED
      BY <3>1, <3>2
  <2>3. Fresh' = {BindOrder[i] : i \in bound' + 1..Len(BindOrder)} \cup {c \in Clients : ~Accepted(c)'}
    BY DEF Fresh, Accepted
  <2> HIDE DEF ch
  <2> QED
    BY <2>1, <2>2, <2>3 DEF Fresh
<1>7. Nowhere(ch)
  BY <1>5, FreshNowhere
<1> HIDE DEF ch
<1>8. CASE NextIndex("boss", "boss") >= 0 /\ Enqueue("boss", "boss", ch, Main)
  <2>1. PICK t \in Threads : t = <<"boss", NextIndex("boss", "boss")>>
    BY <1>1, <1>8, ChosenIsThread DEF Groups
  <2>2. \A u \in Threads : With(u)' = IF u = t THEN With(u) \cup {ch} ELSE With(u)
    BY <1>1, <1>3, <1>4, <1>7, <1>8, <2>1, EnqueueMoves, ServersAreChannels DEF Groups, PlacesInv
  <2>3. t[1] = "boss"
    BY <2>1
  <2> QED
    BY <1>3, <1>5, <1>6, <2>2, <2>3, Gives
<1>9. CASE UNCHANGED queue
  <2>1. \A u \in Threads : With(u)' = With(u)
    BY <1>4, <1>9, NothingMoves DEF PlacesInv
  <2> QED
    BY <1>5, <1>6, <2>1, Gives
<1> QED
  BY <1>8, <1>9 DEF Bind, ch

LEMMA AcceptGives ==
    ASSUME PlacesInv, NEW t \in Threads, Accept(t)
    PROVE  Shared!HNext
<1>1. TypeOK
  BY DEF PlacesInv
<1>2. PICK s \in sel[t] \cap Servers, c \in Clients :
        /\ c \in backlog[s]
        /\ backlog' = [backlog EXCEPT ![s] = @ \ {c}]
        /\ \/ /\ NextIndex(stg[t], target[stg[t]]) >= 0
              /\ Enqueue(stg[t], target[stg[t]], c, t)
           \/ UNCHANGED queue
  BY DEF Accept
<1>3. UNCHANGED <<bound, reg, data>>
  BY DEF Accept, mainVars
<1>4. target[stg[t]] = "worker" /\ stg[t] \in Groups /\ "worker" \in Groups
  BY <1>1, AcceptorsTarget DEF TypeOK, Groups
<1>5. Nowhere(c) /\ data[c] # "absent" /\ \A r \in Servers : c \in backlog[r] => r = s
  BY <1>2 DEF PlacesInv, Waiting
<1>6. \A r \in Servers : backlog'[r] = backlog[r] \ {c}
  BY <1>1, <1>2, <1>5 DEF TypeOK
<1>7. c \in Fresh /\ c \notin Servers /\ c \in Channels
  BY <1>2, ChannelsAssumption, ServersAreChannels DEF Fresh, Accepted
<1>8. Fresh' = Fresh \ {c}
  <2>1. \A d \in Clients : Accepted(d)' <=> Accepted(d) \/ d = c
    BY <1>3, <1>5, <1>6 DEF Accepted
  <2>2. \A i \in bound + 1..Len(BindOrder) : BindOrder[i] # c
    <3>1. bound \in Nat /\ Len(BindOrder) \in Nat
      BY <1>1, ChannelsAssumption DEF TypeOK
    <3>2. \A i \in bound + 1..Len(BindOrder) : i \in 1..Len(BindOrder)
      BY <3>1
    <3> QED
      BY <1>7, <3>2, ServersAreChannels
  <2>3. Fresh' = {BindOrder[i] : i \in bound + 1..Len(BindOrder)}
                   \cup {d \in Clients : ~Accepted(d)'}
    BY <1>3 DEF Fresh, Accepted
  <2> QED
    BY <2>1, <2>2, <2>3 DEF Fresh
<1>9. CASE NextIndex(stg[t], "worker") >= 0 /\ Enqueue(stg[t], "worker", c, t)
  <2>1. PICK w \in Threads : w = <<"worker", NextIndex(stg[t], "worker")>>
    BY <1>1, <1>4, <1>9, ChosenIsThread
  <2>2. \A u \in Threads : With(u)' = IF u = w THEN With(u) \cup {c} ELSE With(u)
    BY <1>1, <1>3, <1>4, <1>5, <1>7, <1>9, <2>1, EnqueueMoves DEF PlacesInv
  <2>3. w[1] = "worker"
    BY <2>1
  <2> QED
    BY <1>7, <1>8, <2>2, <2>3, Gives
<1>10. CASE UNCHANGED queue
  <2>1. \A u \in Threads : With(u)' = With(u)
    BY <1>3, <1>10, NothingMoves DEF PlacesInv
  <2> QED
    BY <1>7, <1>8, <2>1, Gives
<1> QED
  BY <1>2, <1>4, <1>9, <1>10

\* The end of a stream takes its client from the one thread that has it.
LEMMA ReadCloses ==
    ASSUME PlacesInv, NEW t \in Threads, Read(t), Fresh' = Fresh
    PROVE  Shared!HNext \/ UNCHANGED Shared!hvars
<1>1. TypeOK /\ OneSelector
  BY DEF PlacesInv
<1>2. PICK c \in Clients : c \in reg[t] /\ reg' = [reg EXCEPT ![t] = AfterRead(t, c)]
  BY <1>1 DEF Read, TypeOK
<1>3. queue' = queue
  BY DEF Read
<1>4. CASE reg' = reg
  <2>1. \A u \in Threads : With(u)' = With(u)
    BY <1>1, <1>3, <1>4, NothingMoves
  <2> QED
    BY <2>1, HeldKept DEF Shared!hvars
<1>5. CASE reg' # reg
  <2>1. reg' = [reg EXCEPT ![t] = reg[t] \ {c}]
    BY <1>1, <1>2, <1>5 DEF AfterRead, TypeOK
  <2>2. c \in reg[t]
    BY <1>2
  <2>3. \A u \in Threads : With(u)' = With(u) \ (IF u = t THEN {c} ELSE {})
    <3>1. \A u \in Threads : Queued(u)' = Queued(u)
      BY <1>3 DEF Queued
    <3>2. c \notin Queued(t)
      BY <1>1, <2>2 DEF OneSelector
    <3>3. \A u \in Threads : reg'[u] = reg[u] \ (IF u = t THEN {c} ELSE {})
      BY <1>1, <2>1 DEF TypeOK
    <3> QED
      BY <3>1, <3>2, <3>3 DEF With
  <2>4. \A u \in Threads : c \in With(u) <=> u = t
    BY <1>1, <2>2 DEF OneSelector, With
  <2>5. Held' = Held \ Shared!Holders(c)
    <3>1. ASSUME NEW p PROVE p \in Held' <=> p \in Held /\ p[1] # c
      <4>1. \A u \in Threads : \A ch : ch \in With(u)' <=> ch \in With(u) /\ ch # c
        BY <2>3, <2>4
      <4> QED
        BY <4>1, HeldPairs
    <3> QED
      BY <3>1 DEF Shared!Holders
  <2>6. Shared!Holders(c) # {}
    <3>1. <<c, t>> \in Held /\ <<c, t>>[1] = c
      BY <2>4, HeldPairs
    <3> QED
      BY <3>1 DEF Shared!Holders
  <2>7. Shared!Close(c) /\ c \in Clients
    BY <1>2, <2>5, <2>6 DEF Shared!Close
  <2> QED
    BY <2>7 DEF Shared!HNext
<1> QED
  BY <1>4, <1>5

LEMMA StepImplementsHandover ==
    ASSUME PlacesInv, [Next]_vars
    PROVE  [Shared!HNext]_(Shared!hvars)
<1>1. TypeOK /\ OneSelector
  BY DEF PlacesInv
<1>2. ASSUME Fresh' = Fresh, UNCHANGED <<reg, queue>> PROVE UNCHANGED Shared!hvars
  <2>1. \A t \in Threads : With(t)' = With(t)
    BY <1>1, <1>2, NothingMoves
  <2> QED
    BY <1>2, <2>1, HeldKept DEF Shared!hvars
<1>3. UNCHANGED <<bound, backlog, data>> => Fresh' = Fresh
  BY FreshKept DEF Accepted
<1>4. CASE SetGroup \/ SetWorker \/ WakeBoss \/ UNCHANGED vars
  BY <1>2, <1>3, <1>4 DEF SetGroup, SetWorker, WakeBoss, vars, ioVars
<1>5. ASSUME NEW t \in Threads, Select(t) \/ WakeWorker(t) \/ BeginRead(t) \/ Echo(t)
      PROVE  UNCHANGED Shared!hvars
  BY <1>2, <1>3, <1>5 DEF Select, WakeWorker, BeginRead, Echo, mainVars, ioVars
<1>6. ASSUME NEW t \in Threads, Register(t) PROVE UNCHANGED Shared!hvars
  <2>1. \A u \in Threads : With(u)' = With(u)
    BY <1>1, <1>6, RegisterMoves
  <2>2. Fresh' = Fresh
    BY <1>3, <1>6 DEF Register, mainVars, ioVars
  <2> QED
    BY <2>1, <2>2, HeldKept DEF Shared!hvars
<1>7. ASSUME bound' = bound, backlog' = backlog,
             \A c \in Clients : data'[c] = "absent" <=> data[c] = "absent"
      PROVE  Fresh' = Fresh
  BY <1>7, FreshKept DEF Accepted
<1>8. ASSUME NEW t \in Threads, Read(t) PROVE Shared!HNext \/ UNCHANGED Shared!hvars
  <2>1. \A c \in Clients : data'[c] = "absent" <=> data[c] = "absent"
    BY <1>1, <1>8 DEF Read, TypeOK
  <2>2. bound' = bound /\ backlog' = backlog
    BY <1>8 DEF Read, mainVars
  <2> QED
    BY <1>7, <1>8, <2>1, <2>2, ReadCloses
<1>9. ASSUME NEW c \in Clients, Send(c) \/ Leave(c) PROVE UNCHANGED Shared!hvars
  <2>1. \A d \in Clients : data'[d] = "absent" <=> data[d] = "absent"
    BY <1>1, <1>9 DEF Send, Leave, TypeOK
  <2>2. UNCHANGED <<bound, backlog, reg, queue>>
    BY <1>9 DEF Send, Leave, mainVars
  <2> QED
    BY <1>2, <1>7, <2>1, <2>2
<1>11. ASSUME NEW t \in Threads, ReadThrows(t) PROVE UNCHANGED Shared!hvars
  <2>1. \A d \in Clients : data'[d] = "absent" <=> data[d] = "absent"
    BY <1>1, <1>11 DEF ReadThrows, TypeOK
  <2>2. UNCHANGED <<bound, backlog, reg, queue>>
    BY <1>11 DEF ReadThrows, mainVars
  <2> QED
    BY <1>2, <1>7, <2>1, <2>2
\* Who connects waits at a server.
<1>10. ASSUME NEW c \in Clients, Connect(c) PROVE UNCHANGED Shared!hvars
  <2>1. PICK i \in 1..bound :
          backlog' = [backlog EXCEPT ![BindOrder[i]] = @ \cup {c}]
    BY <1>10 DEF Connect
  <2>2. UNCHANGED <<bound, reg, queue>>
        /\ data[c] = "absent" /\ data' = [data EXCEPT ![c] = "none"]
    BY <1>10 DEF Connect, mainVars
  <2>3. BindOrder[i] \in Servers
    BY <1>1, ServersAreChannels, ChannelsAssumption DEF TypeOK
  <2>4. \A s \in Servers :
          backlog'[s] = IF s = BindOrder[i] THEN backlog[s] \cup {c} ELSE backlog[s]
    BY <1>1, <2>1, <2>3 DEF TypeOK
  <2>5. \A d \in Clients : Accepted(d)' <=> Accepted(d)
    <3> SUFFICES ASSUME NEW d \in Clients PROVE Accepted(d)' <=> Accepted(d)
      OBVIOUS
    <3>1. CASE d = c
      <4>1. c \in backlog'[BindOrder[i]]
        BY <2>3, <2>4
      <4>2. ~Accepted(c) /\ ~Accepted(c)'
        BY <2>2, <2>3, <4>1 DEF Accepted
      <4> QED
        BY <3>1, <4>2
    <3>2. CASE d # c
      <4>1. data'[d] = data[d]
        BY <1>1, <2>2, <3>2 DEF TypeOK
      <4>2. \A s \in Servers : d \in backlog'[s] <=> d \in backlog[s]
        BY <2>4, <3>2
      <4> QED
        BY <4>1, <4>2 DEF Accepted
    <3> QED
      BY <3>1, <3>2
  <2> QED
    BY <1>2, <2>2, <2>5, FreshKept
<1> QED
  BY <1>4, <1>5, <1>6, <1>8, <1>9, <1>10, <1>11, BindGives, AcceptGives
  DEF Next, MainStep, ThreadStep, LoopStep

\* For any number of threads, servers and clients, with overflowing counters and peers
\* that close and reset, the queues, wakeups and selectors implement Handover: a
\* channel is given to one thread of its group at most, and no other has it before it
\* is closed or after.
THEOREM RefinesHandover == Spec => ImplementsHandover
<1>1. Init => Shared!HInit
  <2> SUFFICES ASSUME Init PROVE Shared!HInit
    OBVIOUS
  <2>1. \A t \in Threads : With(t) = {}
    BY DEF Init, With, Queued
  <2>2. Held = {}
    BY <2>1, HeldPairs
  <2>3. Fresh = Channels
    <3>1. bound + 1 = 1 /\ \A c \in Clients : ~Accepted(c)
      BY DEF Init, Accepted
    <3> QED
      BY <3>1 DEF Fresh, Channels, Servers
  <2> QED
    BY <2>2, <2>3 DEF Shared!HInit
<1>2. PlacesInv /\ [Next]_vars => [Shared!HNext]_(Shared!hvars)
  BY StepImplementsHandover
<1> QED
  BY <1>1, <1>2, PlacesInvariant, PTL DEF Spec, ImplementsHandover, Shared!HSpec
=============================================================================
