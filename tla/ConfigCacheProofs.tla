------------------------- MODULE ConfigCacheProofs -------------------------
(* Proofs about ConfigCache, for any number of threads, keys and writes.   *)
EXTENDS ConfigCache, TLAPS

\* A thread that has begun to write holds a row.
HoldsRow ==
    \A p \in Procs : pc[p] \in {"set", "ttl", "evict", "remove", "commit"} => held[p] # None

\* Values are taken in order, in the row and in what threads hold of it.
ValuesWritten ==
    /\ db # None => db.value <= written
    /\ \A p \in Procs : held[p] # None => held[p].value <= written

Inv == TypeOK /\ HoldsRow /\ ValuesWritten

LEMMA NoneIsNothing == None \notin Procs /\ None \notin Rows
<1>1. Rows \subseteq [key : Keys, value : Nat]
  BY ConfigAssumption DEF Rows
<1> QED
  BY <1>1, ConfigAssumption

LEMMA NewRowIsRow ==
    ASSUME NEW k \in Keys, written \in 1..MaxWrites + 1, written <= MaxWrites
    PROVE  /\ NewRow(k) \in Rows /\ NewRow(k) # None
           /\ NewRow(k).key = k /\ NewRow(k).value = written + 1
BY ConfigAssumption, NoneIsNothing DEF NewRow, Rows

LEMMA InitInv == Init => Inv
<1> SUFFICES ASSUME Init PROVE Inv
  OBVIOUS
<1>1. PICK k \in Keys :
        LET row == [key |-> k, value |-> 1] IN
        /\ db = row /\ lock = None
        /\ cache = [j \in Keys |-> IF j = k THEN row ELSE None]
        /\ mortal = {k}
        /\ pc = [p \in Procs |-> "idle"]
        /\ op = [p \in Procs |-> "get"]
        /\ held = [p \in Procs |-> None]
        /\ key = [p \in Procs |-> k]
        /\ returned = [p \in Procs |-> None]
        /\ written = 1
        /\ committed = {1}
        /\ calm = TRUE
  BY DEF Init
<1>2. [key |-> k, value |-> 1] \in Rows /\ 1 \in 1..MaxWrites + 1
  BY ConfigAssumption DEF Rows
<1> QED
  BY <1>1, <1>2, NoneIsNothing DEF Inv, TypeOK, HoldsRow, ValuesWritten

LEMMA NextInv == Inv /\ [Next]_vars => Inv'
<1> SUFFICES ASSUME Inv, [Next]_vars PROVE Inv'
  OBVIOUS
<1>0. TypeOK /\ HoldsRow /\ ValuesWritten
  BY DEF Inv
<1>1. ASSUME NEW p \in Procs, pc[p] \in {"set", "ttl", "evict"}
      PROVE  held[p] \in Rows /\ held[p] # None /\ held[p].key \in Keys
  BY <1>0, <1>1 DEF TypeOK, HoldsRow, Rows
<1>written. ASSUME NEW n \in Nat, n >= written PROVE
         /\ db # None => db.value <= n
         /\ \A p \in Procs : held[p] # None => held[p].value <= n
  <2>1. /\ \A r \in Rows : r.value \in Nat
        /\ written \in Nat
    BY <1>0, ConfigAssumption DEF Rows, TypeOK
  <2> QED
    BY <1>0, <1>written, <2>1 DEF TypeOK, ValuesWritten
<1>2. ASSUME NEW p \in Procs, Set(p) PROVE Inv'
  <2>1. pc[p] = "set" /\ held[p] \in Rows /\ held[p] # None /\ CopyKey(p) \in Keys
    BY <1>1, <1>2 DEF Set, CopyKey
  <2>2. cache' = [cache EXCEPT ![CopyKey(p)] = held[p]] /\ mortal' = mortal \ {CopyKey(p)}
    BY <1>2 DEF Set
  <2>3. /\ cache' \in [Keys -> Rows \cup {None}]
        /\ mortal' \subseteq {k \in Keys : cache'[k] # None}
        /\ \A k \in Keys : cache'[k] # None => cache'[k].key = k
    BY <1>0, <2>1, <2>2 DEF TypeOK, CopyKey
  <2> QED
    BY <1>0, <1>2, <2>1, <2>3 DEF Set, Go, NextAfterSet, Inv, TypeOK, HoldsRow, ValuesWritten
<1>3. ASSUME NEW p \in Procs, Expire(p) PROVE Inv'
  <2>1. pc[p] = "ttl" /\ held[p] \in Rows /\ held[p] # None /\ CopyKey(p) \in Keys
    BY <1>1, <1>3 DEF Expire, CopyKey
  <2>2. cache' = cache /\ mortal' \subseteq {k \in Keys : cache[k] # None}
    BY <1>0, <1>3, <2>1 DEF Expire, TypeOK
  <2>3. returned' \in [Procs -> Rows \cup {None}]
    BY <1>0, <1>3, <2>1 DEF Expire, TypeOK
  <2>4. /\ pc' \in [Procs -> {"idle", "query", "set", "ttl", "evict", "remove", "commit"}]
        /\ \A q \in Procs : pc'[q] \in {"set", "ttl", "evict", "remove"} => pc[q] = pc'[q]
        /\ \A q \in Procs : pc'[q] = "commit" => pc[q] \in {"ttl", "commit"}
    BY <1>0, <1>3 DEF Expire, Go, TypeOK
  <2> QED
    BY <1>0, <1>3, <2>2, <2>3, <2>4 DEF Expire, Inv, TypeOK, HoldsRow, ValuesWritten
<1>4. ASSUME NEW p \in Procs, Delete(p) PROVE Inv'
  <2>1. pc[p] = "evict" /\ held[p].key \in Keys
    BY <1>1, <1>4 DEF Delete
  <2>2. cache' = [cache EXCEPT ![held[p].key] = None] /\ mortal' = mortal \ {held[p].key}
    BY <1>4 DEF Delete, Evicted
  <2>3. /\ cache' \in [Keys -> Rows \cup {None}]
        /\ mortal' \subseteq {k \in Keys : cache'[k] # None}
        /\ \A k \in Keys : cache'[k] # None => cache'[k].key = k
    BY <1>0, <2>1, <2>2 DEF TypeOK
  <2>4. /\ pc' \in [Procs -> {"idle", "query", "set", "ttl", "evict", "remove", "commit"}]
        /\ \A q \in Procs : pc'[q] \in {"set", "ttl", "evict"} => pc[q] = pc'[q]
        /\ \A q \in Procs : pc'[q] \in {"remove", "commit"} => pc[q] \in {"evict", pc'[q]}
    BY <1>0, <1>4 DEF Delete, Go, TypeOK
  <2> QED
    BY <1>0, <1>4, <2>3, <2>4 DEF Delete, Inv, TypeOK, HoldsRow, ValuesWritten
<1>5. ASSUME NEW k \in Keys, TimeOut(k) PROVE Inv'
  BY <1>0, <1>5 DEF TimeOut, Inv, TypeOK, HoldsRow, ValuesWritten
<1>6. ASSUME NEW p \in Procs, GetValue(p) PROVE Inv'
  BY <1>0, <1>6 DEF GetValue, Start, Go, Inv, TypeOK, HoldsRow, ValuesWritten
<1>7. ASSUME NEW p \in Procs, QueryByKey(p) PROVE Inv'
  BY <1>0, <1>7 DEF QueryByKey, Stored, Hold, Go, Inv, TypeOK, HoldsRow, ValuesWritten
<1>8. ASSUME NEW p \in Procs, SaveConfig(p) PROVE Inv'
  <2>1. PICK k \in Keys : db' = NewRow(k)
    BY <1>8 DEF SaveConfig
  <2>2. written <= MaxWrites /\ written' = written + 1
    BY <1>8 DEF SaveConfig, Writes
  <2>3. /\ db' \in Rows /\ db' # None /\ db'.value = written'
        /\ written' \in 1..MaxWrites + 1 /\ written' \in Nat /\ written' >= written
    BY <1>0, <2>1, <2>2, NewRowIsRow, ConfigAssumption DEF TypeOK
  <2>4. committed' \subseteq 1..written'
    BY <1>0, <1>8, <2>2, <2>3, ConfigAssumption DEF SaveConfig, TypeOK
  <2>5. held' = [held EXCEPT ![p] = db']
    BY <1>8 DEF SaveConfig, Hold
  <2>6. ValuesWritten'
    BY <1>0, <1>written, <2>3, <2>5 DEF ValuesWritten, TypeOK
  <2> QED
    BY <1>0, <1>8, <2>3, <2>4, <2>5, <2>6 DEF SaveConfig, Start, Go, Inv, TypeOK, HoldsRow
<1>9. ASSUME NEW p \in Procs, Update(p) \/ UpdateValueByKey(p) PROVE Inv'
  <2>1. PICK k \in Keys : held' = [held EXCEPT ![p] = NewRow(k)]
    BY <1>9 DEF Update, UpdateValueByKey, Hold
  <2>2. written <= MaxWrites /\ written' = written + 1
    BY <1>9 DEF Update, UpdateValueByKey, Writes
  <2>3. /\ NewRow(k) \in Rows /\ NewRow(k) # None /\ NewRow(k).value = written'
        /\ written' \in 1..MaxWrites + 1 /\ written' \in Nat /\ written' >= written
    BY <1>0, <2>1, <2>2, NewRowIsRow, ConfigAssumption DEF TypeOK
  <2>4. committed' \subseteq 1..written' /\ db' = db
    <3>1. committed' = committed /\ db' = db
      BY <1>9 DEF Update, UpdateValueByKey
    <3> QED
      BY <1>0, <2>2, <3>1, ConfigAssumption DEF TypeOK
  <2>5. lock' \in Procs \cup {None}
    BY <1>9 DEF Update, UpdateValueByKey, Hit
  <2>6. ValuesWritten'
    BY <1>0, <1>written, <2>1, <2>3, <2>4 DEF ValuesWritten, TypeOK
  <2>7. calm' \in BOOLEAN
    BY <1>9 DEF Update, UpdateValueByKey
  <2> QED
    BY <1>0, <1>9, <2>1, <2>3, <2>4, <2>5, <2>6, <2>7
    DEF Update, UpdateValueByKey, Start, Go, Inv, TypeOK, HoldsRow
<1>10. ASSUME NEW p \in Procs, DeleteBatch(p) PROVE Inv'
  BY <1>0, <1>10 DEF DeleteBatch, Start, Hold, Go, Inv, TypeOK, HoldsRow, ValuesWritten
<1>11. ASSUME NEW p \in Procs, RemoveByIds(p) PROVE Inv'
  BY <1>0, <1>11 DEF RemoveByIds, Hit, Go, Inv, TypeOK, HoldsRow, ValuesWritten
<1>12. ASSUME NEW p \in Procs, Commit(p) PROVE Inv'
  <2>1. held[p] \in Rows /\ held[p] # None /\ held[p].value \in 1..written
    BY <1>0, <1>12, ConfigAssumption DEF Commit, TypeOK, HoldsRow, ValuesWritten, Rows
  <2>2. db' \in {db, None, held[p]} /\ committed' \subseteq 1..written
    BY <1>0, <1>12, <2>1 DEF Commit, TypeOK
  <2>3. db' \in Rows \cup {None} /\ (db' # None => db'.value <= written)
    BY <1>0, <2>1, <2>2, ConfigAssumption DEF TypeOK, ValuesWritten
  <2> QED
    BY <1>0, <1>12, <2>2, <2>3 DEF Commit, Go, Inv, TypeOK, HoldsRow, ValuesWritten
<1>13. ASSUME NEW p \in Procs, Abort(p) PROVE Inv'
  BY <1>0, <1>13 DEF Abort, Go, Inv, TypeOK, HoldsRow, ValuesWritten
<1>14. CASE UNCHANGED vars
  BY <1>0, <1>14 DEF vars, Inv, TypeOK, HoldsRow, ValuesWritten
<1> QED
  BY <1>2, <1>3, <1>4, <1>5, <1>6, <1>7, <1>8, <1>9, <1>10, <1>11, <1>12, <1>13, <1>14
  DEF Next, Begin, Continue

LEMMA InvHolds == Spec => []Inv
<1>1. Init => Inv
  BY InitInv
<1>2. Inv /\ [Next]_vars => Inv'
  BY NextInv
<1> QED
  BY <1>1, <1>2, PTL DEF Spec

\* Whatever fails and crashes, for any number of threads, keys and writes, a copy is
\* kept under the key of the row it copies and only existing copies have an expiry
\* time.
THEOREM TypeCorrect == Spec => []TypeOK
<1>1. Inv => TypeOK
  BY DEF Inv
<1> QED
  BY <1>1, InvHolds, PTL

-----------------------------------------------------------------------------
(* Copies expire                                                           *)

\* A step that changes nothing about the copy under k and leaves every thread that
\* is about to give it an expiry time where it is.
LEMMA StaysMortal ==
    ASSUME NEW k \in Keys, ~Immortal(k), cache'[k] \in {cache[k], None},
           k \in mortal /\ cache'[k] # None => k \in mortal',
           \A q \in Procs : pc[q] = "ttl" /\ held[q].key = k => pc'[q] = "ttl" /\ held'[q].key = k
    PROVE  ~Immortal(k)'
BY DEF Immortal

LEMMA OnlyAbortMakesImmortal ==
    ASSUME Inv, Next, NEW k \in Keys, ~Immortal(k), Immortal(k)'
    PROVE  \E p \in Procs : pc[p] = "ttl" /\ held[p].key = k /\ Abort(p)
<1>1. TypeOK /\ HoldsRow
  BY DEF Inv
<1>2. ASSUME NEW p \in Procs, Set(p) PROVE FALSE
  <2>1. pc[p] = "set" /\ pc' = [pc EXCEPT ![p] = "ttl"] /\ held' = held
    BY <1>2 DEF Set, Go, NextAfterSet
  <2>2. \A q \in Procs : pc[q] = "ttl" => pc'[q] = "ttl"
    BY <1>1, <2>1 DEF TypeOK
  <2>3. CASE k = held[p].key
    BY <1>1, <2>1, <2>3 DEF Immortal, TypeOK
  <2>4. CASE k # held[p].key
    <3>1. cache'[k] = cache[k] /\ (k \in mortal => k \in mortal')
      BY <1>1, <1>2, <2>4 DEF Set, CopyKey, TypeOK
    <3> QED
      BY <2>1, <2>2, <3>1, StaysMortal
  <2> QED
    BY <2>3, <2>4
<1>3. ASSUME NEW p \in Procs, Expire(p) PROVE FALSE
  <2>1. /\ cache' = cache /\ held' = held
        /\ mortal \subseteq mortal'
        /\ cache[held[p].key] # None => held[p].key \in mortal'
    BY <1>3 DEF Expire, CopyKey
  <2>2. \A q \in Procs : q # p => pc'[q] = pc[q]
    BY <1>1, <1>3 DEF Expire, Go, TypeOK
  <2>3. CASE k = held[p].key
    BY <2>1, <2>3 DEF Immortal
  <2>4. CASE k # held[p].key
    BY <2>1, <2>2, <2>4, StaysMortal
  <2> QED
    BY <2>3, <2>4
<1>4. ASSUME NEW p \in Procs, Delete(p) PROVE FALSE
  <2>1. /\ cache' = [cache EXCEPT ![held[p].key] = None]
        /\ mortal' = mortal \ {held[p].key}
        /\ held' = held /\ pc[p] = "evict"
    BY <1>4 DEF Delete, Evicted
  <2>2. \A q \in Procs : q # p => pc'[q] = pc[q]
    BY <1>1, <1>4 DEF Delete, Go, TypeOK
  <2>3. \A j \in Keys : cache'[j] = IF j = held[p].key THEN None ELSE cache[j]
    BY <1>1, <2>1 DEF TypeOK
  <2> QED
    BY <2>1, <2>2, <2>3, StaysMortal
<1>5. ASSUME NEW j \in Keys, TimeOut(j) PROVE FALSE
  <2>1. \A i \in Keys : cache'[i] = IF i = j THEN None ELSE cache[i]
    BY <1>1, <1>5 DEF TimeOut, TypeOK
  <2>2. mortal' = mortal \ {j} /\ pc' = pc /\ held' = held
    BY <1>5 DEF TimeOut
  <2> QED
    BY <2>1, <2>2, StaysMortal
<1>6. ASSUME NEW p \in Procs, Begin(p) \/ QueryByKey(p) \/ RemoveByIds(p) \/ Commit(p)
      PROVE  FALSE
  <2>1. UNCHANGED <<cache, mortal>> /\ pc[p] # "ttl"
    BY <1>6 DEF Begin, GetValue, SaveConfig, Update, UpdateValueByKey, DeleteBatch, Start,
                QueryByKey, RemoveByIds, Commit
  <2>2. \A q \in Procs : q # p => pc'[q] = pc[q] /\ held'[q] = held[q]
    BY <1>1, <1>6
    DEF Begin, GetValue, SaveConfig, Update, UpdateValueByKey, DeleteBatch, Start,
        QueryByKey, RemoveByIds, Commit, Go, Hold, TypeOK
  <2> QED
    BY <2>1, <2>2, StaysMortal
<1>7. ASSUME NEW p \in Procs, Abort(p), ~(pc[p] = "ttl" /\ held[p].key = k) PROVE FALSE
  <2>1. UNCHANGED <<cache, mortal, held>>
    BY <1>7 DEF Abort
  <2>2. \A q \in Procs : q # p => pc'[q] = pc[q]
    BY <1>1, <1>7 DEF Abort, Go, TypeOK
  <2> QED
    BY <1>7, <2>1, <2>2, StaysMortal
<1> QED
  BY <1>2, <1>3, <1>4, <1>5, <1>6, <1>7 DEF Next, Continue

\* For any number of threads and keys, with failing commands and commits and
\* crashes: the loss of the EXPIRE after a SET is the one step after which a copy
\* has no expiry time and will not get one.
THEOREM CopiesExpire == Spec => EntriesExpire
<1> DEFINE LostExpire ==
      \A k \in Keys : ~Immortal(k) /\ Immortal(k)' =>
          \E p \in Procs : pc[p] = "ttl" /\ held[p].key = k /\ Abort(p)
<1>1. Inv /\ [Next]_vars => [LostExpire]_vars
  BY OnlyAbortMakesImmortal
<1>2. Spec => [][LostExpire]_vars
  BY <1>1, InvHolds, PTL DEF Spec
<1> QED
  BY <1>2 DEF EntriesExpire

-----------------------------------------------------------------------------
(* The copies agree with the row                                           *)

Fresh == \A k \in Keys : ~Stale(k)
NoCopies == \A k \in Keys : cache[k] = None

\* What holds of a request in progress while the calm lasts.
Stage(p) ==
    /\ op[p] = "get" =>
         pc[p] \in {"query", "set", "ttl"} /\ (pc[p] # "query" => held[p] = db)
    /\ op[p] = "save" =>
         pc[p] \in {"set", "ttl"} /\ held[p] = db /\ Fresh /\ lock = None
    /\ op[p] = "update" =>
         /\ pc[p] \in {"set", "ttl", "commit"}
         /\ lock = p /\ db # None /\ db.key = held[p].key
         /\ pc[p] = "set" => Fresh
         /\ pc[p] # "set" => \A k \in Keys : cache[k] \in {None, held[p]}
    /\ op[p] = "value" =>
         /\ pc[p] \in {"evict", "commit"}
         /\ lock \in {p, None} /\ (lock = p => db # None /\ db.key = held[p].key)
         /\ pc[p] = "evict" \/ lock = None => Fresh
         /\ pc[p] = "commit" /\ lock = p => NoCopies
    /\ op[p] = "delete" =>
         /\ pc[p] \in {"evict", "remove", "commit"}
         /\ held[p] = db
         /\ lock = (IF pc[p] = "commit" THEN p ELSE None)
         /\ pc[p] = "evict" => Fresh
         /\ pc[p] # "evict" => NoCopies

Writing(p) == pc[p] # "idle" /\ op[p] # "get"

CalmInv ==
    calm =>
      /\ \A p, q \in Procs : Writing(p) /\ q # p => pc[q] = "idle"
      /\ lock # None => Writing(lock)
      /\ \A p \in Procs : pc[p] # "idle" => Stage(p)
      /\ (\A p \in Procs : ~Writing(p)) => Fresh
      /\ db # None => db.value \in committed

\* A step of the one request that writes, or its first or last.
LEMMA WriterStep ==
    ASSUME TypeOK', NEW p \in Procs, \A q \in Procs : q # p => pc'[q] = "idle",
           lock' \in {p, None}, lock' = p => Writing(p)',
           pc'[p] # "idle" => Writing(p)' /\ Stage(p)',
           pc'[p] = "idle" => Fresh',
           db' # None => db'.value \in committed'
    PROVE  CalmInv'
BY NoneIsNothing DEF CalmInv, Writing

\* A step of a reader while nobody writes.
LEMMA ReaderStep ==
    ASSUME TypeOK', lock' = None, Fresh', db' # None => db'.value \in committed',
           \A q \in Procs : pc'[q] # "idle" => op'[q] = "get" /\ Stage(q)'
    PROVE  CalmInv'
BY DEF CalmInv, Writing

\* Copies are of the row, and under its name: without it there are none.
LEMMA FreshCopies ==
    ASSUME TypeOK, Fresh, NEW k \in Keys
    PROVE  cache[k] = None \/ (db # None /\ cache[k] = db /\ k = db.key)
BY DEF TypeOK, Fresh, Stale

LEMMA NextCalmInv == Inv /\ CalmInv /\ [Next]_vars => CalmInv'
<1> SUFFICES ASSUME Inv, CalmInv, [Next]_vars, calm' PROVE CalmInv'
  BY DEF CalmInv
<1>0. /\ TypeOK /\ HoldsRow /\ None \notin Procs /\ None \notin Rows
      /\ op \in [Procs -> {"get", "update", "value", "delete", "save"}]
  BY NoneIsNothing, ConfigAssumption DEF Inv, TypeOK
<1>typed. TypeOK'
  BY NextInv DEF Inv
<1>calm. calm
  BY DEF Next, Begin, Continue, Set, Expire, Delete, TimeOut, GetValue, QueryByKey, SaveConfig,
         Update, UpdateValueByKey, DeleteBatch, RemoveByIds, Commit, Abort, vars
<1>alone. ASSUME NEW p \in Procs, Writing(p)
          PROVE  /\ \A q \in Procs : q # p => pc[q] = "idle" /\ ~Writing(q)
                 /\ lock \in {p, None}
                 /\ Stage(p)
  BY <1>0, <1>calm, <1>alone DEF CalmInv, Writing, TypeOK
<1>quiet. ASSUME \A q \in Procs : ~Writing(q)
          PROVE  /\ lock = None /\ Fresh
                 /\ \A q \in Procs : pc[q] # "idle" => op[q] = "get" /\ Stage(q)
  BY <1>0, <1>calm, <1>quiet DEF CalmInv, Writing, TypeOK
<1>row. db # None => db.value \in committed
  BY <1>calm DEF CalmInv
<1>get. ASSUME NEW p \in Procs, pc[p] # "idle", op[p] = "get"
        PROVE  \A q \in Procs : ~Writing(q)
  BY <1>calm, <1>get DEF CalmInv, Writing
<1>first. ASSUME NEW p \in Procs, NEW o, Undisturbed(p, o), o # "get"
          PROVE  \A q \in Procs : pc[q] = "idle" /\ ~Writing(q)
  BY <1>first DEF Undisturbed, Writing
<1>1. ASSUME NEW p \in Procs, Set(p) PROVE CalmInv'
  <2>1. /\ pc[p] = "set" /\ pc' = [pc EXCEPT ![p] = "ttl"]
        /\ cache' = [cache EXCEPT ![held[p].key] = held[p]]
        /\ UNCHANGED <<db, lock, op, held, committed>>
        /\ held[p] \in Rows /\ held[p] # None /\ held[p].key \in Keys
    BY <1>0, <1>1 DEF Set, CopyKey, NextAfterSet, Go, TypeOK, HoldsRow, Rows
  <2>2. CASE op[p] = "get"
    <3>1. Fresh /\ lock = None /\ held[p] = db
      BY <1>quiet, <1>get, <2>1, <2>2 DEF Stage
    <3>2. Fresh'
      BY <1>0, <2>1, <3>1 DEF Fresh, Stale, TypeOK
    <3>3. ASSUME NEW q \in Procs, pc'[q] # "idle" PROVE op'[q] = "get" /\ Stage(q)'
      BY <1>0, <1>quiet, <1>get, <2>1, <2>2, <3>3 DEF Stage, TypeOK
    <3> QED
      BY <1>typed, <1>row, <2>1, <3>1, <3>2, <3>3, ReaderStep
  <2>3. CASE op[p] # "get"
    <3>1. Writing(p) /\ op[p] \in {"save", "update"}
      BY <1>0, <1>alone, <2>1, <2>3 DEF Writing, Stage, TypeOK
    <3>2. Fresh
      BY <1>alone, <2>1, <3>1 DEF Stage
    <3>3. Stage(p)'
      <4>1. CASE op[p] = "save"
        BY <1>0, <1>alone, <2>1, <3>1, <3>2, <4>1 DEF Stage, Fresh, Stale, TypeOK
      <4>2. CASE op[p] = "update"
        <5>1. \A k \in Keys : cache'[k] \in {None, held[p]}
          BY <1>0, <1>alone, <2>1, <3>1, <3>2, <4>2, FreshCopies DEF Stage, TypeOK
        <5> QED
          BY <1>0, <1>alone, <2>1, <3>1, <4>2, <5>1 DEF Stage, TypeOK
      <4> QED
        BY <3>1, <4>1, <4>2
    <3>4. \A q \in Procs : q # p => pc'[q] = "idle"
      BY <1>0, <1>alone, <2>1, <3>1 DEF TypeOK
    <3>5. Writing(p)' /\ pc'[p] # "idle"
      BY <1>0, <2>1, <2>3 DEF Writing, TypeOK
    <3>6. lock' \in {p, None}
      BY <1>alone, <2>1, <3>1
    <3> QED
      BY <1>typed, <1>row, <2>1, <3>3, <3>4, <3>5, <3>6, WriterStep
  <2> QED
    BY <2>2, <2>3
<1>2. ASSUME NEW p \in Procs, Expire(p) PROVE CalmInv'
  <2>1. /\ pc[p] = "ttl" /\ pc' = [pc EXCEPT ![p] = IF op[p] = "update" THEN "commit" ELSE "idle"]
        /\ UNCHANGED <<db, lock, cache, op, held, committed>>
    BY <1>0, <1>2 DEF Expire, Go
  <2>2. CASE op[p] = "get"
    <3>1. Fresh' /\ lock' = None
      BY <1>quiet, <1>get, <2>1, <2>2 DEF Fresh, Stale
    <3>2. ASSUME NEW q \in Procs, pc'[q] # "idle" PROVE op'[q] = "get" /\ Stage(q)'
      BY <1>0, <1>quiet, <1>get, <2>1, <2>2, <3>2 DEF Stage, TypeOK
    <3> QED
      BY <1>typed, <1>row, <2>1, <3>1, <3>2, ReaderStep
  <2>3. CASE op[p] # "get"
    <3>1. Writing(p) /\ op[p] \in {"save", "update"}
      BY <1>0, <1>alone, <2>1, <2>3 DEF Writing, Stage, TypeOK
    <3>2. \A q \in Procs : q # p => pc'[q] = "idle"
      BY <1>0, <1>alone, <2>1, <3>1 DEF TypeOK
    <3>3. CASE op[p] = "save"
      <4>1. pc'[p] = "idle" /\ Fresh' /\ lock' = None
        BY <1>0, <1>alone, <2>1, <3>1, <3>3 DEF Stage, Fresh, Stale, TypeOK
      <4> QED
        BY <1>0, <1>typed, <1>row, <2>1, <3>2, <4>1, WriterStep
    <3>4. CASE op[p] = "update"
      <4>1. Writing(p)' /\ pc'[p] # "idle" /\ lock' = p /\ Stage(p)'
        BY <1>0, <1>alone, <2>1, <3>1, <3>4 DEF Stage, Writing, TypeOK
      <4> QED
        BY <1>typed, <1>row, <2>1, <3>2, <4>1, WriterStep
    <3> QED
      BY <3>1, <3>3, <3>4
  <2> QED
    BY <2>2, <2>3
<1>3. ASSUME NEW p \in Procs, Delete(p) PROVE CalmInv'
  <2>1. /\ pc[p] = "evict"
        /\ pc' = [pc EXCEPT ![p] = IF op[p] = "delete" THEN "remove" ELSE "commit"]
        /\ cache' = [cache EXCEPT ![held[p].key] = None]
        /\ UNCHANGED <<db, lock, op, held, committed>>
        /\ held[p] \in Rows /\ held[p] # None
    BY <1>0, <1>3 DEF Delete, Evicted, Go, TypeOK, HoldsRow
  <2>2. Writing(p)
    BY <1>quiet, <1>get, <2>1 DEF Writing, Stage
  <2>3. op[p] \in {"value", "delete"} /\ Fresh
    BY <1>0, <1>alone, <2>1, <2>2 DEF Writing, Stage, TypeOK
  <2>4. /\ \A k \in Keys : cache'[k] = None \/ (cache'[k] = cache[k] /\ k # held[p].key)
        /\ Fresh'
    BY <1>0, <2>1, <2>3 DEF Fresh, Stale, TypeOK
  <2>5. db # None /\ held[p].key = db.key => NoCopies'
    BY <1>0, <2>3, <2>4, FreshCopies DEF NoCopies
  <2>6. Stage(p)' /\ Writing(p)'
    <3>1. CASE op[p] = "value"
      BY <1>0, <1>alone, <2>1, <2>2, <2>4, <2>5, <3>1 DEF Stage, Writing, TypeOK
    <3>2. CASE op[p] = "delete"
      BY <1>0, <1>alone, <2>1, <2>2, <2>5, <3>2 DEF Stage, Writing, TypeOK
    <3> QED
      BY <2>3, <3>1, <3>2
  <2>7. \A q \in Procs : q # p => pc'[q] = "idle"
    BY <1>0, <1>alone, <2>1, <2>2 DEF TypeOK
  <2> QED
    BY <1>typed, <1>row, <1>alone, <2>1, <2>2, <2>6, <2>7, WriterStep DEF Writing
<1>4. ASSUME NEW k \in Keys, TimeOut(k) PROVE CalmInv'
  <2>1. /\ cache' = [cache EXCEPT ![k] = None]
        /\ UNCHANGED <<db, lock, pc, op, held, committed, calm>>
    BY <1>4 DEF TimeOut
  <2>2. /\ Fresh => Fresh'
        /\ NoCopies => NoCopies'
        /\ \A r \in Rows : (\A j \in Keys : cache[j] \in {None, r})
                             => \A j \in Keys : cache'[j] \in {None, r}
    BY <1>0, <2>1 DEF Fresh, Stale, NoCopies, TypeOK
  <2>3. ASSUME NEW p \in Procs, pc[p] # "idle", Stage(p) PROVE Stage(p)'
    BY <1>0, <2>1, <2>2, <2>3 DEF Stage, TypeOK, HoldsRow
  <2>4. UNCHANGED <<pc, op, lock, db, committed>> /\ \A p \in Procs : Writing(p)' <=> Writing(p)
    BY <2>1 DEF Writing
  <2>5. (\A p \in Procs : ~Writing(p)) => Fresh'
    BY <1>calm, <2>2 DEF CalmInv
  <2> QED
    BY <1>0, <1>calm, <2>1, <2>3, <2>4, <2>5 DEF CalmInv, TypeOK
<1>5. ASSUME NEW p \in Procs, GetValue(p) PROVE CalmInv'
  <2>1. /\ pc[p] = "idle" /\ op' = [op EXCEPT ![p] = "get"]
        /\ UNCHANGED <<db, lock, cache, held, committed>>
    BY <1>5 DEF GetValue, Start
  <2>2. CASE UNCHANGED pc
    <3>1. \A q \in Procs : Writing(q)' <=> Writing(q)
      BY <1>0, <2>1, <2>2 DEF Writing, TypeOK
    <3>2. ASSUME NEW q \in Procs, pc[q] # "idle", Stage(q) PROVE Stage(q)'
      BY <1>0, <2>1, <2>2, <3>2 DEF Stage, Fresh, Stale, NoCopies, TypeOK
    <3>3. Fresh' <=> Fresh
      BY <2>1 DEF Fresh, Stale
    <3> QED
      BY <1>0, <1>calm, <2>1, <2>2, <3>1, <3>2, <3>3 DEF CalmInv, TypeOK
  <2>3. CASE pc' = [pc EXCEPT ![p] = "query"] /\ Undisturbed(p, "get")
    <3>1. \A q \in Procs : ~Writing(q)
      BY <2>3 DEF Undisturbed, Writing
    <3>2. Fresh' /\ lock' = None
      BY <1>quiet, <2>1, <3>1 DEF Fresh, Stale
    <3>3. ASSUME NEW q \in Procs, pc'[q] # "idle" PROVE op'[q] = "get" /\ Stage(q)'
      BY <1>0, <1>quiet, <2>1, <2>3, <3>1, <3>3 DEF Stage, TypeOK
    <3> QED
      BY <1>typed, <1>row, <2>1, <3>2, <3>3, ReaderStep
  <2> QED
    BY <1>5, <2>2, <2>3 DEF GetValue, Go
<1>6. ASSUME NEW p \in Procs, QueryByKey(p) PROVE CalmInv'
  <2>1. /\ pc[p] = "query" /\ UNCHANGED <<db, lock, cache, op, committed>>
        /\ \/ pc' = [pc EXCEPT ![p] = "set"] /\ held' = [held EXCEPT ![p] = db]
           \/ pc' = [pc EXCEPT ![p] = "idle"] /\ UNCHANGED held
    BY <1>6 DEF QueryByKey, Hold, Go
  <2>2. op[p] = "get"
    BY <1>0, <1>alone, <2>1 DEF Writing, Stage, TypeOK
  <2>3. Fresh' /\ lock' = None
    BY <1>quiet, <1>get, <2>1, <2>2 DEF Fresh, Stale
  <2>4. ASSUME NEW q \in Procs, pc'[q] # "idle" PROVE op'[q] = "get" /\ Stage(q)'
    BY <1>0, <1>quiet, <1>get, <2>1, <2>2, <2>4 DEF Stage, TypeOK
  <2> QED
    BY <1>typed, <1>row, <2>1, <2>3, <2>4, ReaderStep
<1>7. ASSUME NEW p \in Procs, SaveConfig(p) PROVE CalmInv'
  <2>1. /\ db = None /\ lock' = None /\ db' # None
        /\ pc' = [pc EXCEPT ![p] = "set"] /\ op' = [op EXCEPT ![p] = "save"]
        /\ held' = [held EXCEPT ![p] = db'] /\ cache' = cache
        /\ Undisturbed(p, "save")
    <3>1. PICK k \in Keys : db' = NewRow(k) /\ written <= MaxWrites
      BY <1>7 DEF SaveConfig, Writes
    <3>2. NewRow(k) # None
      BY <1>0, <3>1, NewRowIsRow DEF TypeOK
    <3> QED
      BY <1>7, <3>1, <3>2 DEF SaveConfig, Start, Hold, Go
  <2>2. db'.value \in committed'
    <3>1. PICK k \in Keys : db' = NewRow(k)
      BY <1>7 DEF SaveConfig
    <3> QED
      BY <1>7, <3>1 DEF SaveConfig, NewRow, Writes
  <2>3. Fresh'
    BY <1>0, <1>quiet, <1>first, <2>1, FreshCopies DEF Fresh, Stale
  <2>4. Stage(p)' /\ Writing(p)'
    BY <1>0, <2>1, <2>3 DEF Stage, Writing, TypeOK
  <2>5. \A q \in Procs : q # p => pc'[q] = "idle"
    BY <1>0, <1>first, <2>1 DEF TypeOK
  <2> QED
    BY <1>0, <1>typed, <2>1, <2>2, <2>4, <2>5, WriterStep DEF Writing
<1>8. ASSUME NEW p \in Procs, Update(p) PROVE CalmInv'
  <2>1. /\ lock' = Hit(p) /\ UNCHANGED <<db, cache, committed>>
        /\ pc' = [pc EXCEPT ![p] = "set"] /\ op' = [op EXCEPT ![p] = "update"]
        /\ Undisturbed(p, "update") /\ Stored(held'[p].key)
    BY <1>8 DEF Update, Start, Go
  <2>2. lock' = p /\ db' # None /\ db'.key = held'[p].key
    BY <2>1 DEF Stored, Hit
  <2>3. Fresh'
    BY <1>quiet, <1>first, <2>1 DEF Fresh, Stale
  <2>4. Stage(p)' /\ Writing(p)'
    BY <1>0, <2>1, <2>2, <2>3 DEF Stage, Writing, TypeOK
  <2>5. \A q \in Procs : q # p => pc'[q] = "idle"
    BY <1>0, <1>first, <2>1 DEF TypeOK
  <2> QED
    BY <1>typed, <1>row, <2>1, <2>2, <2>4, <2>5, WriterStep DEF Writing
<1>9. ASSUME NEW p \in Procs, UpdateValueByKey(p) PROVE CalmInv'
  <2>1. /\ UNCHANGED <<db, cache, committed>>
        /\ pc' = [pc EXCEPT ![p] = "evict"] /\ op' = [op EXCEPT ![p] = "value"]
        /\ Undisturbed(p, "value")
    BY <1>9 DEF UpdateValueByKey, Start, Go
  <2>2. PICK k \in Keys : /\ held' = [held EXCEPT ![p] = NewRow(k)]
                          /\ lock' = IF Stored(k) THEN p ELSE None
    BY <1>9 DEF UpdateValueByKey, Hold
  <2>3. lock' \in {p, None} /\ (lock' = p => db # None /\ db.key = held'[p].key)
    BY <1>0, <2>2 DEF Stored, NewRow, TypeOK
  <2>4. Fresh'
    BY <1>quiet, <1>first, <2>1 DEF Fresh, Stale
  <2>5. Stage(p)' /\ Writing(p)'
    BY <1>0, <2>1, <2>3, <2>4 DEF Stage, Writing, TypeOK
  <2>6. \A q \in Procs : q # p => pc'[q] = "idle"
    BY <1>0, <1>first, <2>1 DEF TypeOK
  <2> QED
    BY <1>typed, <1>row, <2>1, <2>3, <2>5, <2>6, WriterStep DEF Writing
<1>10. ASSUME NEW p \in Procs, DeleteBatch(p) PROVE CalmInv'
  <2>1. /\ UNCHANGED <<db, lock, cache, committed>>
        /\ pc' = [pc EXCEPT ![p] = "evict"] /\ op' = [op EXCEPT ![p] = "delete"]
        /\ held' = [held EXCEPT ![p] = db] /\ Undisturbed(p, "delete")
    BY <1>10 DEF DeleteBatch, Start, Hold, Go
  <2>2. Fresh' /\ lock' = None
    BY <1>quiet, <1>first, <2>1 DEF Fresh, Stale
  <2>3. Stage(p)' /\ Writing(p)'
    BY <1>0, <2>1, <2>2 DEF Stage, Writing, TypeOK
  <2>4. \A q \in Procs : q # p => pc'[q] = "idle"
    BY <1>0, <1>first, <2>1 DEF TypeOK
  <2> QED
    BY <1>0, <1>typed, <1>row, <2>1, <2>2, <2>3, <2>4, WriterStep DEF Writing
<1>11. ASSUME NEW p \in Procs, RemoveByIds(p) PROVE CalmInv'
  <2>1. /\ pc[p] = "remove" /\ pc' = [pc EXCEPT ![p] = "commit"]
        /\ lock' = Hit(p) /\ UNCHANGED <<db, cache, op, held, committed>>
    BY <1>11 DEF RemoveByIds, Go
  <2>2. Writing(p) /\ op[p] = "delete"
    BY <1>0, <1>quiet, <1>get, <1>alone, <2>1 DEF Writing, Stage, TypeOK
  <2>3. held[p] = db /\ db # None /\ NoCopies
    BY <1>0, <1>alone, <2>1, <2>2 DEF Stage, HoldsRow
  <2>4. lock' = p /\ Stage(p)' /\ Writing(p)'
    BY <1>0, <2>1, <2>2, <2>3 DEF Hit, Stage, Writing, NoCopies, TypeOK
  <2>5. \A q \in Procs : q # p => pc'[q] = "idle"
    BY <1>0, <1>alone, <2>1, <2>2 DEF TypeOK
  <2> QED
    BY <1>typed, <1>row, <2>1, <2>4, <2>5, WriterStep DEF Writing
<1>12. ASSUME NEW p \in Procs, Commit(p) PROVE CalmInv'
  <2>1. /\ pc[p] = "commit" /\ pc' = [pc EXCEPT ![p] = "idle"]
        /\ lock' = IF lock = p THEN None ELSE lock
        /\ UNCHANGED <<cache, op, held>>
        /\ \/ /\ lock = p
              /\ db' = IF op[p] = "delete" THEN None ELSE held[p]
              /\ op[p] # "delete" => committed' = committed \cup {held[p].value}
           \/ lock # p /\ UNCHANGED <<db, committed>>
    BY <1>12 DEF Commit, Go
  <2>2. Writing(p) /\ op[p] \in {"update", "value", "delete"}
    BY <1>0, <1>quiet, <1>get, <1>alone, <2>1 DEF Writing, Stage, TypeOK
  <2>3. lock' = None /\ pc'[p] = "idle"
    BY <1>0, <1>alone, <2>1, <2>2 DEF TypeOK
  <2>4. Fresh'
    BY <1>0, <1>alone, <2>1, <2>2 DEF Stage, Fresh, Stale, NoCopies
  <2>5. db' # None => db'.value \in committed'
    BY <1>row, <2>1
  <2>6. \A q \in Procs : q # p => pc'[q] = "idle"
    BY <1>0, <1>alone, <2>1, <2>2 DEF TypeOK
  <2> QED
    BY <1>0, <1>typed, <2>3, <2>4, <2>5, <2>6, WriterStep
<1>13. ASSUME NEW p \in Procs, Abort(p) PROVE FALSE
  BY <1>13 DEF Abort
<1>14. CASE UNCHANGED vars
  BY <1>0, <1>calm, <1>14 DEF vars, CalmInv, Writing, Stage, Fresh, NoCopies, Stale
<1> QED
  BY <1>1, <1>2, <1>3, <1>4, <1>5, <1>6, <1>7, <1>8, <1>9, <1>10, <1>11, <1>12, <1>13, <1>14
  DEF Next, Begin, Continue

LEMMA CalmInvHolds == Spec => []CalmInv
<1>1. Init => CalmInv
  <2> SUFFICES ASSUME Init PROVE CalmInv
    OBVIOUS
  <2>1. PICK k \in Keys :
          /\ db = [key |-> k, value |-> 1] /\ lock = None /\ committed = {1}
          /\ cache = [j \in Keys |-> IF j = k THEN [key |-> k, value |-> 1] ELSE None]
          /\ pc = [p \in Procs |-> "idle"]
    BY DEF Init
  <2> QED
    BY <2>1 DEF CalmInv, Writing, Fresh, Stale
<1>2. Inv /\ CalmInv /\ [Next]_vars => CalmInv'
  BY NextCalmInv
<1> QED
  BY <1>1, <1>2, InvHolds, PTL DEF Spec

\* For any number of threads and keys: as long as no request has overlapped a write,
\* none has failed and no name was changed, every copy is a copy of the row whenever
\* no request is in progress.
THEOREM CopiesAgree == Spec => []CacheAgrees
<1>1. CalmInv => CacheAgrees
  BY DEF CalmInv, CacheAgrees, Fresh, Writing
<1> QED
  BY <1>1, CalmInvHolds, PTL

-----------------------------------------------------------------------------
(* What is returned has been committed                                     *)

Real(row) == row.value \in committed \/ \E q \in Procs : lock = q /\ held[q] = row

LEMMA CopiesAreReal ==
    ASSUME Inv, CalmInv, calm, NEW k \in Keys, cache[k] # None
    PROVE  Real(cache[k])
<1>1. TypeOK /\ HoldsRow /\ op \in [Procs -> {"get", "update", "value", "delete", "save"}]
  BY ConfigAssumption DEF Inv, TypeOK
<1>2. CASE Fresh
  BY <1>1, <1>2, FreshCopies DEF CalmInv, Real
<1>3. CASE ~Fresh
  <2>1. PICK p \in Procs : Writing(p)
    BY <1>3 DEF CalmInv
  <2>2. Stage(p)
    BY <2>1 DEF CalmInv, Writing
  <2>3. op[p] = "update" /\ lock = p /\ cache[k] = held[p]
    BY <1>1, <1>3, <2>1, <2>2 DEF Stage, Writing, NoCopies
  <2> QED
    BY <2>3 DEF Real
<1> QED
  BY <1>2, <1>3

\* What is real stays real: the request that writes it does not let go of it but by
\* committing it.
LEMMA RealStays ==
    ASSUME Inv, CalmInv, [Next]_vars, calm', NEW row, Real(row)
    PROVE  Real(row)'
<1>0. /\ TypeOK /\ None \notin Procs
      /\ op \in [Procs -> {"get", "update", "value", "delete", "save"}]
  BY NoneIsNothing, ConfigAssumption DEF Inv, TypeOK
<1>calm. calm
  BY DEF Next, Begin, Continue, Set, Expire, Delete, TimeOut, GetValue, QueryByKey, SaveConfig,
         Update, UpdateValueByKey, DeleteBatch, RemoveByIds, Commit, Abort, vars
<1>1. committed \subseteq committed'
  BY DEF Next, Begin, Continue, Set, Expire, Delete, TimeOut, GetValue, QueryByKey, SaveConfig,
         Update, UpdateValueByKey, DeleteBatch, RemoveByIds, Commit, Abort, vars
<1>2. CASE row.value \in committed
  BY <1>1, <1>2 DEF Real
<1>3. ASSUME NEW q \in Procs, lock = q, held[q] = row PROVE Real(row)'
  <2>1. Writing(q) /\ Stage(q)
    BY <1>0, <1>calm, <1>3 DEF CalmInv, Writing
  <2>2. ASSUME NEW p \in Procs, Begin(p) PROVE Real(row)'
    <3>1. p # q /\ lock' = lock /\ held'[q] = held[q]
      BY <1>0, <1>3, <2>1, <2>2
      DEF Begin, GetValue, SaveConfig, Update, UpdateValueByKey, DeleteBatch, Start, Hold,
          Writing, TypeOK
    <3> QED
      BY <1>3, <3>1 DEF Real
  <2>3. ASSUME NEW p \in Procs, Set(p) \/ Expire(p) \/ Delete(p) \/ QueryByKey(p) \/ RemoveByIds(p)
        PROVE  Real(row)'
    <3>1. lock' = lock /\ held'[q] = held[q]
      BY <1>0, <1>3, <2>1, <2>3
      DEF Set, Expire, Delete, QueryByKey, RemoveByIds, Hold, Writing, Stage, TypeOK
    <3> QED
      BY <1>3, <3>1 DEF Real
  <2>4. ASSUME NEW p \in Procs, Commit(p) PROVE Real(row)'
    <3>1. CASE p = q
      <4>1. CASE op[q] = "delete"
        <5>1. held[q] = db /\ db # None
          BY <2>1, <2>4, <3>1, <4>1 DEF Stage, Inv, HoldsRow, Commit
        <5> QED
          BY <1>calm, <1>2, <1>3, <5>1 DEF CalmInv
      <4>2. CASE op[q] # "delete"
        BY <1>3, <2>4, <3>1, <4>2 DEF Commit, Real
      <4> QED
        BY <4>1, <4>2
    <3>2. CASE p # q
      BY <1>3, <2>4, <3>2 DEF Commit, Real
    <3> QED
      BY <3>1, <3>2
  <2>5. ASSUME NEW k \in Keys, TimeOut(k) PROVE Real(row)'
    BY <1>3, <2>5 DEF TimeOut, Real
  <2>6. ASSUME NEW p \in Procs, Abort(p) PROVE Real(row)'
    BY <2>6 DEF Abort
  <2>7. CASE UNCHANGED vars
    BY <1>3, <2>7 DEF vars, Real
  <2> QED
    BY <2>2, <2>3, <2>4, <2>5, <2>6, <2>7 DEF Next, Continue
<1> QED
  BY <1>2, <1>3 DEF Real

LEMMA NextReturned ==
    Inv /\ CalmInv /\ ReturnedIsReal /\ [Next]_vars => ReturnedIsReal'
<1> SUFFICES ASSUME Inv, CalmInv, ReturnedIsReal, [Next]_vars, calm',
                    NEW p \in Procs, returned'[p] # None
             PROVE  Real(returned[p])'
  BY DEF ReturnedIsReal, Real
<1>0. /\ TypeOK /\ None \notin Procs
      /\ op \in [Procs -> {"get", "update", "value", "delete", "save"}]
  BY NoneIsNothing, ConfigAssumption DEF Inv, TypeOK
<1>calm. calm
  BY DEF Next, Begin, Continue, Set, Expire, Delete, TimeOut, GetValue, QueryByKey, SaveConfig,
         Update, UpdateValueByKey, DeleteBatch, RemoveByIds, Commit, Abort, vars
<1>1. CASE returned'[p] = returned[p]
  <2>1. Real(returned[p])
    BY <1>calm, <1>1 DEF ReturnedIsReal, Real
  <2> QED
    BY <1>1, <2>1, RealStays DEF Real
<1>2. CASE \E k \in Keys : cache[k] # None /\ returned'[p] = cache[k]
  BY <1>calm, <1>2, CopiesAreReal, RealStays DEF Real
<1>3. CASE Expire(p) /\ op[p] = "get"
  <2>1. returned'[p] = held[p] /\ held[p] = db /\ db # None
    BY <1>0, <1>calm, <1>3 DEF Expire, TypeOK, CalmInv, Stage, Inv, HoldsRow
  <2>2. Real(db)
    BY <1>calm, <2>1 DEF CalmInv, Real
  <2> QED
    BY <2>1, <2>2, RealStays DEF Real
<1>4. ASSUME UNCHANGED returned PROVE Real(returned[p])'
  BY <1>1, <1>4
<1>5. ASSUME NEW q \in Procs, GetValue(q) PROVE Real(returned[p])'
  <2>1. PICK k \in Keys :
          \/ cache[k] # None /\ returned' = [returned EXCEPT ![q] = cache[k]]
          \/ UNCHANGED returned
    BY <1>5 DEF GetValue
  <2> QED
    BY <1>0, <1>1, <1>2, <2>1 DEF TypeOK
<1>6. ASSUME NEW q \in Procs, QueryByKey(q) PROVE Real(returned[p])'
  BY <1>0, <1>1, <1>6 DEF QueryByKey, TypeOK
<1>7. ASSUME NEW q \in Procs, Expire(q) PROVE Real(returned[p])'
  BY <1>0, <1>1, <1>3, <1>7 DEF Expire, TypeOK
<1> QED
  BY <1>4, <1>5, <1>6, <1>7
  DEF Next, Begin, Continue, Set, Delete, TimeOut, SaveConfig, Update, UpdateValueByKey,
      DeleteBatch, RemoveByIds, Commit, Abort, vars

\* For any number of threads and keys, and with hits in the middle of writes: in the
\* same circumstances getValue returns committed values, or the value that a
\* request is about to commit.
THEOREM ReturnedCommitted == Spec => []ReturnedIsReal
<1>1. Init => ReturnedIsReal
  BY DEF Init, ReturnedIsReal
<1> QED
  BY <1>1, NextReturned, InvHolds, CalmInvHolds, PTL DEF Spec
=============================================================================
