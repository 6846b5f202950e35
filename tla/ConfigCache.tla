----------------------------- MODULE ConfigCache -----------------------------
(***************************************************************************)
(* One system parameter of gtk-project-bsp: its row in the database, the   *)
(* copies SysConfigRedis keeps in Redis under the keys it has had, and the *)
(* operations of SysConfigServiceImpl on the two by several threads.  The  *)
(* database locks the row from the first write of a transaction to its end *)
(* and lets the others read what is committed.  Every value written is new.*)
(***************************************************************************)
EXTENDS Naturals

CONSTANTS
    Procs,       \* threads serving requests
    None,        \* no row, no copy, nobody
    Keys,        \* names of the parameter
    MaxWrites,   \* how many values are written
    Ops,         \* the operations in use
    Habits,      \* a subset of {"rename", "blind"}: update a parameter under another
                 \* name; update one that somebody else has deleted
    Expiry,      \* copies expire (after a day), or the day is not over
    Faults       \* a subset of {"redis", "commit", "crash"}

ASSUME ConfigAssumption ==
    /\ None \notin Procs \cup [key : Keys, value : Nat]
    /\ Keys # {} /\ MaxWrites \in Nat
    /\ Ops \subseteq {"get", "update", "value", "delete", "save"}
    /\ Habits \subseteq {"rename", "blind"}
    /\ Expiry \in BOOLEAN
    /\ Faults \subseteq {"redis", "commit", "crash"}

VARIABLES
    db,         \* the committed row, or None
    lock,       \* the thread whose transaction has written the row
    cache,      \* the copy under each key
    mortal,     \* the keys with an expiry time
    pc,         \* where each thread is
    op,         \* the operation it is in
    held,       \* the row it is reading or writing
    key,        \* the key it was asked for
    returned,   \* what its last getValue returned
    written,    \* values written so far
    committed,  \* the values that have been committed
    calm        \* history, not in the code: so far no request has overlapped a
                \* write, none has failed, and no name has been changed

vars == <<db, lock, cache, mortal, pc, op, held, key, returned, written, committed, calm>>

Rows == [key : Keys, value : 1..MaxWrites + 1]

\* The parameter has been saved once and its copy is in Redis.
Init ==
    \E k \in Keys :
        LET row == [key |-> k, value |-> 1] IN
        /\ db = row
        /\ lock = None
        /\ cache = [j \in Keys |-> IF j = k THEN row ELSE None]
        /\ mortal = {k}
        /\ pc = [p \in Procs |-> "idle"]
        /\ op = [p \in Procs |-> "get"]
        /\ held = [p \in Procs |-> None]
        /\ key = [p \in Procs |-> k]
        /\ returned = [p \in Procs |-> None]
        /\ written = 1
        /\ committed = {1}
        /\ calm = TRUE

Go(p, next) == pc' = [pc EXCEPT ![p] = next]
Hold(p, row) == held' = [held EXCEPT ![p] = row]

Start(p, o) ==
    /\ o \in Ops
    /\ pc[p] = "idle"
    /\ op' = [op EXCEPT ![p] = o]

\* Reads that overlap reads leave the calm.
Undisturbed(p, o) ==
    \A q \in Procs : pc[q] # "idle" => o = "get" /\ op[q] = "get"

\* A new value under key k.
NewRow(k) == [key |-> k, value |-> written + 1]
Writes == written <= MaxWrites /\ written' = written + 1

Stored(k) == db # None /\ db.key = k

-----------------------------------------------------------------------------
(* RedisUtils.set: SET, which forgets the expiry time, then EXPIRE         *)

\* (Operators named Bad... are faulty forms of the one after them; no
\* specification uses them.  They are there to see the properties fail.)
BadNextAfterSet(p) == IF op[p] = "update" THEN "commit" ELSE "idle"

NextAfterSet(p) == "ttl"

CopyKey(p) == held[p].key

Set(p) ==
    /\ pc[p] = "set"
    /\ cache' = [cache EXCEPT ![CopyKey(p)] = held[p]]
    /\ mortal' = mortal \ {CopyKey(p)}
    /\ Go(p, NextAfterSet(p))
    /\ UNCHANGED <<db, lock, op, held, key, returned, written, committed, calm>>

\* EXPIRE does nothing without the key.  getValue and saveConfig are then over.
Expire(p) ==
    /\ pc[p] = "ttl"
    /\ mortal' = IF cache[CopyKey(p)] = None THEN mortal ELSE mortal \cup {CopyKey(p)}
    /\ returned' = IF op[p] = "get" THEN [returned EXCEPT ![p] = held[p]] ELSE returned
    /\ Go(p, IF op[p] = "update" THEN "commit" ELSE "idle")
    /\ UNCHANGED <<db, lock, cache, op, held, key, written, committed, calm>>

BadEvicted(k) == cache

Evicted(k) == [cache EXCEPT ![k] = None]

\* redisUtils.delete in updateValueByKey and deleteBatch.
Delete(p) ==
    /\ pc[p] = "evict"
    /\ cache' = Evicted(held[p].key)
    /\ mortal' = mortal \ {held[p].key}
    /\ Go(p, IF op[p] = "delete" THEN "remove" ELSE "commit")
    /\ UNCHANGED <<db, lock, op, held, key, returned, written, committed, calm>>

\* A copy reaches the end of its day.
TimeOut(k) ==
    /\ Expiry
    /\ k \in mortal
    /\ cache' = [cache EXCEPT ![k] = None]
    /\ mortal' = mortal \ {k}
    /\ UNCHANGED <<db, lock, pc, op, held, key, returned, written, committed, calm>>

-----------------------------------------------------------------------------
(* getValue                                                                *)

GetValue(p) ==
    /\ Start(p, "get")
    /\ \E k \in Keys :
         /\ key' = [key EXCEPT ![p] = k]
         /\ \/ /\ cache[k] # None
               /\ returned' = [returned EXCEPT ![p] = cache[k]]
               /\ UNCHANGED <<pc, calm>>
            \/ /\ cache[k] = None
               /\ Go(p, "query")
               /\ calm' = (calm /\ Undisturbed(p, "get"))
               /\ UNCHANGED returned
    /\ UNCHANGED <<db, lock, cache, mortal, held, written, committed>>

QueryByKey(p) ==
    /\ pc[p] = "query"
    /\ \/ /\ Stored(key[p])
          /\ Hold(p, db)
          /\ Go(p, "set")
          /\ UNCHANGED returned
       \/ /\ ~Stored(key[p])
          /\ returned' = [returned EXCEPT ![p] = None]
          /\ Go(p, "idle")
          /\ UNCHANGED held
    /\ UNCHANGED <<db, lock, cache, mortal, op, key, written, committed, calm>>

-----------------------------------------------------------------------------
(* The operations that write                                               *)

\* saveConfig: the insert is its own transaction, the copy comes after it.
SaveConfig(p) ==
    /\ Start(p, "save")
    /\ db = None /\ lock = None
    /\ \E k \in Keys : db' = NewRow(k)
    /\ Hold(p, db')
    /\ Writes
    /\ committed' = committed \cup {written'}
    /\ Go(p, "set")
    /\ calm' = (calm /\ Undisturbed(p, "save"))
    /\ UNCHANGED <<lock, cache, mortal, key, returned>>

BadHit(p) == None

Hit(p) == IF db = None THEN None ELSE p

\* update: updateById, the copy, then the commit.  Without the row nothing is
\* updated in the database, and the copy is made all the same.
Update(p) ==
    /\ Start(p, "update")
    /\ lock = None
    /\ db = None => "blind" \in Habits
    /\ \E k \in Keys :
         /\ "rename" \in Habits \/ (IF db = None THEN k = key[p] ELSE k = db.key)
         /\ Hold(p, NewRow(k))
    /\ lock' = Hit(p)
    /\ Writes
    /\ Go(p, "set")
    /\ calm' = (calm /\ Undisturbed(p, "update") /\ Stored(held'[p].key))
    /\ UNCHANGED <<db, cache, mortal, key, returned, committed>>

UpdateValueByKey(p) ==
    /\ Start(p, "value")
    /\ lock = None
    /\ \E k \in Keys :
         /\ Hold(p, NewRow(k))
         /\ lock' = IF Stored(k) THEN p ELSE None
    /\ Writes
    /\ Go(p, "evict")
    /\ calm' = (calm /\ Undisturbed(p, "value"))
    /\ UNCHANGED <<db, cache, mortal, key, returned, committed>>

\* deleteBatch: getById, whose result is null and an exception without the row.
DeleteBatch(p) ==
    /\ Start(p, "delete")
    /\ db # None
    /\ Hold(p, db)
    /\ Go(p, "evict")
    /\ calm' = (calm /\ Undisturbed(p, "delete"))
    /\ UNCHANGED <<db, lock, cache, mortal, key, returned, written, committed>>

RemoveByIds(p) ==
    /\ pc[p] = "remove"
    /\ lock = None
    /\ lock' = Hit(p)
    /\ Go(p, "commit")
    /\ UNCHANGED <<db, cache, mortal, op, held, key, returned, written, committed, calm>>

\* The transaction ends: its row is the one thing it has written, if it has.
Commit(p) ==
    /\ pc[p] = "commit"
    /\ \/ /\ lock = p
          /\ db' = IF op[p] = "delete" THEN None ELSE held[p]
          /\ committed' = IF op[p] = "delete" THEN committed
                          ELSE committed \cup {held[p].value}
       \/ lock # p /\ UNCHANGED <<db, committed, calm>>
    /\ lock' = IF lock = p THEN None ELSE lock
    /\ Go(p, "idle")
    /\ UNCHANGED <<cache, mortal, op, held, key, returned, written, calm>>

\* An exception from Redis or from the commit, or the end of the process: the
\* transaction is rolled back, Redis stays as it is.
Abort(p) ==
    /\ \/ "redis" \in Faults /\ pc[p] \in {"set", "ttl", "evict"}
       \/ "commit" \in Faults /\ pc[p] = "commit"
       \/ "crash" \in Faults /\ pc[p] # "idle"
    /\ lock' = IF lock = p THEN None ELSE lock
    /\ Go(p, "idle")
    /\ calm' = FALSE
    /\ UNCHANGED <<db, cache, mortal, op, held, key, returned, written, committed>>

-----------------------------------------------------------------------------
Begin(p) == GetValue(p) \/ SaveConfig(p) \/ Update(p) \/ UpdateValueByKey(p) \/ DeleteBatch(p)
Continue(p) == Set(p) \/ Expire(p) \/ Delete(p) \/ QueryByKey(p) \/ RemoveByIds(p) \/ Commit(p)

Next ==
    \/ \E p \in Procs : Begin(p) \/ Continue(p) \/ Abort(p)
    \/ \E k \in Keys : TimeOut(k)

Spec == Init /\ [][Next]_vars

-----------------------------------------------------------------------------
\* Typing; only copies that exist have an expiry time, and a copy is kept under
\* the key of the row it copies.
TypeOK ==
    /\ db \in Rows \cup {None}
    /\ lock \in Procs \cup {None}
    /\ cache \in [Keys -> Rows \cup {None}]
    /\ mortal \subseteq {k \in Keys : cache[k] # None}
    /\ pc \in [Procs -> {"idle", "query", "set", "ttl", "evict", "remove", "commit"}]
    /\ op \in [Procs -> Ops \cup {"get"}]
    /\ held \in [Procs -> Rows \cup {None}]
    /\ key \in [Procs -> Keys]
    /\ returned \in [Procs -> Rows \cup {None}]
    /\ written \in 1..MaxWrites + 1
    /\ committed \subseteq 1..written
    /\ calm \in BOOLEAN
    /\ \A k \in Keys : cache[k] # None => cache[k].key = k

Stale(k) == cache[k] # None /\ cache[k] # db

\* As long as no request has overlapped a write, between requests the copies in
\* Redis are copies of the row in the database: whatever has been written, deleted,
\* read or forgotten, the next getValue returns the value of the parameter.
CacheAgrees ==
    calm /\ (\A p \in Procs : pc[p] = "idle") => \A k \in Keys : ~Stale(k)

\* And getValue, which may hit a copy in the middle of somebody's write, has
\* returned values that have been committed, or will be by the request that is
\* writing them.
ReturnedIsReal ==
    calm => \A p \in Procs : returned[p] # None =>
        \/ returned[p].value \in committed
        \/ \E q \in Procs : lock = q /\ held[q] = returned[p]

\* A copy without an expiry time that no thread is about to give one.
Immortal(k) ==
    /\ cache[k] # None /\ k \notin mortal
    /\ ~\E p \in Procs : pc[p] = "ttl" /\ held[p].key = k

\* A copy, stale or not, stays for ever only when the EXPIRE that follows the SET
\* in RedisUtils.set is not executed: whatever threads do to each other's copies
\* leaves every one of them an expiry time.
EntriesExpire ==
    [][\A k \in Keys : ~Immortal(k) /\ Immortal(k)' =>
          \E p \in Procs : pc[p] = "ttl" /\ held[p].key = k /\ Abort(p)]_vars
=============================================================================
