--------------------------- MODULE LockRedisProofs ---------------------------
(* Proofs about LockRedis for every number of clients and every TTL.        *)
EXTENDS LockRedis, TLAPS

LEMMA InitTypeOK == Init => TypeOK
  BY RedisAssumption DEF Init, TypeOK

LEMMA NextTypeOK == TypeOK /\ [Next]_vars => TypeOK'
<1> SUFFICES ASSUME TypeOK, [Next]_vars PROVE TypeOK'
  OBVIOUS
<1> USE RedisAssumption DEF TypeOK
<1>1. CASE UNCHANGED vars
  BY <1>1 DEF vars
<1>2. CASE Tick
  <2>1. held' \in [Clients -> 0..MaxHold]
    BY <1>2 DEF Tick
  <2> QED
    BY <1>2, <2>1 DEF Tick
<1>3. ASSUME NEW c \in Clients, TryAsyncLock(c) \/ Attempt(c) PROVE TypeOK'
  BY <1>3 DEF TryAsyncLock, Attempt, NextTurn, SetKey, KeyFree, Go
<1>4. ASSUME NEW c \in Clients, TryLock(c) \/ WakeUp(c) \/ UnLock(c) PROVE TypeOK'
  BY <1>4 DEF TryLock, WakeUp, UnLock, Go
<1>5. ASSUME NEW c \in Clients, AttemptReplyLost(c) \/ UnLockFails(c) \/ Crash(c)
      PROVE TypeOK'
  BY <1>5 DEF AttemptReplyLost, UnLockFails, Crash, SetKey, KeyFree, Go
<1> QED
  BY <1>1, <1>2, <1>3, <1>4, <1>5 DEF Next, Step

\* Types hold, and a key has a setter exactly while it exists, however long the
\* callers hold the lock and whoever unlocks.
THEOREM TypeCorrect == Spec => []TypeOK
  BY InitTypeOK, NextTypeOK, PTL DEF Spec

-----------------------------------------------------------------------------
(* Exclusion, when every caller is done before its key expires             *)

\* A caller that has not been inside yet has used none of its time.
NotYetHeld ==
    \A c \in Clients : pc[c] \in {"idle", "trying", "sleeping"} => held[c] = 0

LEMMA NextNotYetHeld ==
    ASSUME TypeOK, NotYetHeld, [Next]_vars
    PROVE NotYetHeld'
<1> USE DEF TypeOK, NotYetHeld
<1>1. CASE UNCHANGED vars
  BY <1>1 DEF vars
<1>2. CASE Tick
  BY <1>2 DEF Tick
<1>3. ASSUME NEW c \in Clients, TryAsyncLock(c) \/ Attempt(c) PROVE NotYetHeld'
  BY <1>3 DEF TryAsyncLock, Attempt, NextTurn, Go
<1>4. ASSUME NEW c \in Clients, TryLock(c) \/ WakeUp(c) \/ UnLock(c) PROVE NotYetHeld'
  BY <1>4 DEF TryLock, WakeUp, UnLock, Go
<1>5. ASSUME NEW c \in Clients, AttemptReplyLost(c) \/ UnLockFails(c) \/ Crash(c)
      PROVE NotYetHeld'
  BY <1>5 DEF AttemptReplyLost, UnLockFails, Crash, Go
<1> QED
  BY <1>1, <1>2, <1>3, <1>4, <1>5 DEF Next, Step

LEMMA NextHolderHasKey ==
    ASSUME MaxHold < TTL, ~RefusedUnlocks, TypeOK, NotYetHeld, HolderHasKey, [Next]_vars
    PROVE HolderHasKey'
<1> SUFFICES ASSUME NEW o \in Clients, pc'[o] = "inside"
             PROVE setter' = o /\ left' + held'[o] >= TTL
  BY DEF HolderHasKey
<1> USE RedisAssumption DEF TypeOK
<1>1. CASE UNCHANGED vars
  BY <1>1 DEF vars, HolderHasKey
<1>2. CASE Tick
  <2>1. /\ setter = o /\ left + held[o] >= TTL /\ held[o] < MaxHold
        /\ held'[o] = held[o] + 1
    BY <1>2 DEF Tick, HolderHasKey
  <2>2. left > 1
    BY <2>1
  <2> QED
    BY <1>2, <2>1, <2>2 DEF Tick
<1>3. ASSUME NEW c \in Clients,
             pc[c] \in {"idle", "trying"}, SetKey(c), Go(c, "inside"), held' = held
      PROVE setter' = o /\ left' + held'[o] >= TTL
  <2>1. o = c
    BY <1>3 DEF SetKey, KeyFree, Go, HolderHasKey
  <2> QED
    BY <1>3, <2>1 DEF SetKey, NotYetHeld
<1>4. ASSUME NEW c \in Clients, TryAsyncLock(c) \/ Attempt(c)
      PROVE setter' = o /\ left' + held'[o] >= TTL
  BY <1>3, <1>4 DEF TryAsyncLock, Attempt, NextTurn, Go, HolderHasKey
<1>5. ASSUME NEW c \in Clients, TryLock(c) \/ WakeUp(c) \/ UnLockFails(c) \/ Crash(c)
      PROVE setter' = o /\ left' + held'[o] >= TTL
  BY <1>5 DEF TryLock, WakeUp, UnLockFails, Crash, Go, HolderHasKey
<1>6. ASSUME NEW c \in Clients, AttemptReplyLost(c)
      PROVE setter' = o /\ left' + held'[o] >= TTL
  <2>1. pc[o] = "inside"
    BY <1>6 DEF AttemptReplyLost, Go
  <2>2. ~KeyFree
    BY <2>1 DEF KeyFree, HolderHasKey
  <2> QED
    BY <1>6, <2>1, <2>2 DEF AttemptReplyLost, SetKey, HolderHasKey
<1>7. ASSUME NEW c \in Clients, UnLock(c)
      PROVE setter' = o /\ left' + held'[o] >= TTL
  <2>1. pc[c] = "inside" /\ pc[o] = "inside" /\ o # c
    BY <1>7 DEF UnLock, Go
  <2> QED
    BY <2>1 DEF HolderHasKey
<1> QED
  BY <1>1, <1>2, <1>4, <1>5, <1>6, <1>7 DEF Next, Step

\* When no caller outlives the TTL and refused callers leave the key alone, a
\* caller inside always has its key, and only one caller is inside, also with
\* crashes and lost replies.
THEOREM TimelyExclusion ==
    ASSUME MaxHold < TTL, ~RefusedUnlocks
    PROVE Spec => [](HolderHasKey /\ MutualExclusion)
<1>1. Init => TypeOK /\ NotYetHeld /\ HolderHasKey
  BY InitTypeOK DEF Init, NotYetHeld, HolderHasKey
<1>2. TypeOK /\ NotYetHeld /\ HolderHasKey /\ [Next]_vars
        => (TypeOK /\ NotYetHeld /\ HolderHasKey)'
  BY NextTypeOK, NextNotYetHeld, NextHolderHasKey
<1>3. HolderHasKey => MutualExclusion
  BY DEF HolderHasKey, MutualExclusion
<1> QED
  BY <1>1, <1>2, <1>3, PTL DEF Spec

\* A caller inside has not lost its key to the clock or to another caller's unLock.
THEOREM HolderKeepsKey ==
    ASSUME MaxHold < TTL, ~RefusedUnlocks
    PROVE Spec => []HolderHasKey
  BY TimelyExclusion, PTL

-----------------------------------------------------------------------------
(* LockRedis implements LeaseLock for such callers                         *)

\* What a caller's move does to those inside.
LEMMA InsideMoves ==
    ASSUME TypeOK, NEW c \in Clients, NEW next, Go(c, next)
    PROVE  Inside' = IF next = "inside" THEN Inside \cup {c} ELSE Inside \ {c}
  BY DEF TypeOK, Go, Inside

LEMMA StepImplementsLease ==
    ASSUME MaxHold < TTL, ~RefusedUnlocks, TypeOK, NotYetHeld, HolderHasKey, [Next]_vars
    PROVE  [Lease!LNext]_(Lease!lvars)
<1> USE RedisAssumption
<1>1. CASE UNCHANGED vars
  BY <1>1 DEF vars, Lease!lvars, Inside
\* The key of a caller inside outlives the tick.
<1>2. CASE Tick
  <2>1. pc' = pc /\ setter' = IF left = 1 THEN None ELSE setter
    BY <1>2 DEF Tick
  <2>2. ASSUME left = 1 PROVE setter \in Clients \ Inside
    <3>1. setter \in Clients
      BY <2>2 DEF TypeOK
    <3>2. ASSUME pc[setter] = "inside" PROVE FALSE
      <4>1. left + held[setter] >= TTL /\ held[setter] < MaxHold /\ held[setter] \in Nat
        BY <1>2, <3>1, <3>2 DEF HolderHasKey, Tick, TypeOK
      <4> QED
        BY <2>2, <4>1
    <3> QED
      BY <3>1, <3>2 DEF Inside
  <2>3. Inside' = Inside
    BY <2>1 DEF Inside
  <2> QED
    BY <2>1, <2>2, <2>3 DEF Lease!RunOut, Lease!LNext, Lease!lvars
<1>3. ASSUME NEW c \in Clients, SetKey(c), Go(c, "inside") \/ Go(c, "failed"),
             pc[c] # "inside"
      PROVE  Lease!LNext
  <2>1. setter = None /\ setter' = c
    BY <1>3 DEF SetKey, KeyFree, TypeOK
  <2>2. Inside' \in {Inside, Inside \cup {c}}
    <3>1. CASE Go(c, "inside")
      BY <3>1, InsideMoves
    <3>2. CASE Go(c, "failed")
      <4>1. Inside' = Inside \ {c} /\ c \notin Inside
        BY <1>3, <3>2, InsideMoves DEF Inside
      <4> QED
        BY <4>1
    <3> QED
      BY <1>3, <3>1, <3>2
  <2>3. Lease!Take(c)
    BY <2>1, <2>2 DEF Lease!Take
  <2> QED
    BY <2>3 DEF Lease!LNext
<1>4. ASSUME NEW c \in Clients, pc[c] # "inside", setter' = setter,
             \E next \in {"trying", "sleeping", "refused", "failed", "crashed"} : Go(c, next)
      PROVE  UNCHANGED Lease!lvars
  <2>1. Inside' = Inside \ {c} /\ c \notin Inside
    BY <1>4, InsideMoves DEF Inside
  <2> QED
    BY <1>4, <2>1 DEF Lease!lvars
<1>5. ASSUME NEW c \in Clients, TryAsyncLock(c) \/ TryLock(c) \/ Attempt(c) \/ WakeUp(c)
      PROVE  Lease!LNext \/ UNCHANGED Lease!lvars
  BY <1>3, <1>4, <1>5 DEF TryAsyncLock, TryLock, Attempt, WakeUp, NextTurn
<1>6. ASSUME NEW c \in Clients, AttemptReplyLost(c)
      PROVE  Lease!LNext \/ UNCHANGED Lease!lvars
  BY <1>3, <1>4, <1>6 DEF AttemptReplyLost
<1>7. ASSUME NEW c \in Clients, pc[c] = "inside",
             \E next \in {"done", "failed", "crashed"} : Go(c, next),
             setter' \in {setter, None}
      PROVE  Lease!LNext
  <2>1. setter = c /\ c \in Inside
    BY <1>7 DEF HolderHasKey, Inside
  <2>2. Inside' = Inside \ {c}
    BY <1>7, InsideMoves
  <2>3. Lease!GiveBack(c) \/ Lease!Abandon(c)
    BY <1>7, <2>1, <2>2 DEF Lease!GiveBack, Lease!Abandon
  <2> QED
    BY <2>3 DEF Lease!LNext
<1>8. ASSUME NEW c \in Clients, UnLock(c) \/ UnLockFails(c)
      PROVE  Lease!LNext
  BY <1>7, <1>8 DEF UnLock, UnLockFails
<1>9. ASSUME NEW c \in Clients, Crash(c)
      PROVE  Lease!LNext \/ UNCHANGED Lease!lvars
  BY <1>4, <1>7, <1>9 DEF Crash
<1> QED
  BY <1>1, <1>2, <1>5, <1>6, <1>8, <1>9 DEF Next, Step

\* For callers that are quick enough and leave alone what they did not get, the
\* Redis lock is LeaseLock, with crashes and lost replies: only its owner gives the
\* lock back, and it runs out only while its owner is not inside.
THEOREM RefinesLeaseLock ==
    ASSUME MaxHold < TTL, ~RefusedUnlocks
    PROVE  Spec => ImplementsLeaseLock
<1>1. Init => TypeOK /\ NotYetHeld /\ HolderHasKey /\ Lease!LInit
  <2>1. Init => Lease!LInit
    BY DEF Init, Lease!LInit, Inside
  <2> QED
    BY <2>1, InitTypeOK DEF Init, NotYetHeld, HolderHasKey
<1>2. TypeOK /\ NotYetHeld /\ HolderHasKey /\ [Next]_vars
        => (TypeOK /\ NotYetHeld /\ HolderHasKey)'
  BY NextTypeOK, NextNotYetHeld, NextHolderHasKey
<1>3. TypeOK /\ NotYetHeld /\ HolderHasKey /\ [Next]_vars => [Lease!LNext]_(Lease!lvars)
  BY StepImplementsLease
<1> QED
  BY <1>1, <1>2, <1>3, PTL DEF Spec, ImplementsLeaseLock, Lease!LSpec
=============================================================================
