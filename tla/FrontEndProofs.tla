--------------------------- MODULE FrontEndProofs ---------------------------
(***************************************************************************)
(* Proofs about FrontEnd: the promises of ChunkLoader are settled once and *)
(* by somebody who is there, whatever arrives late; the scripts of         *)
(* PageLoader run in the order of their needs and start the application    *)
(* once.                                                                   *)
(***************************************************************************)
EXTENDS FrontEnd, TLAPS

-----------------------------------------------------------------------------
(* ChunkLoader                                                             *)

Settled == fulfilled \cup rejected

\* The current attempt of a chunk is its last, and nobody has settled it.
Current ==
    \A c \in Chunks :
        installed[c] # None /\ installed[c] # 0 =>
            installed[c] = tried[c] /\ <<c, tried[c]>> \notin Settled

\* A timer that runs is that of the last attempt, which is not given up.
Timers == \A a \in live : a[2] = tried[a[1]] /\ installed[a[1]] \in {0, a[2]}

SettledTried == \A a \in Settled : a[2] <= tried[a[1]]

\* Whoever says that a chunk is loaded has its modules.
Registered ==
    /\ \A c \in Chunks : installed[c] = 0 => c \in modules
    /\ \A a \in fulfilled : a[1] \in modules

\* A waiting view waits for the chunks it lacks.
WaitsForAll ==
    \A v \in Views : view[v] = "waiting" =>
        \A c \in ChunksOf[v] : c \in modules \/ \E a \in waits[v] : a[1] = c

ChunkInv ==
    /\ ChunkTypeOK /\ NoOrphan /\ NothingMissing
    /\ Current /\ Timers /\ SettledTried /\ Registered /\ WaitsForAll

LEMMA AttemptParts ==
    ASSUME NEW a \in Attempts
    PROVE  a[1] \in Chunks /\ a[2] \in 1..MaxAttempts /\ a = <<a[1], a[2]>>
BY DEF Attempts

LEMMA InitChunks == ChunkInit => ChunkInv
<1> SUFFICES ASSUME ChunkInit PROVE ChunkInv  OBVIOUS
<1>1. ChunkTypeOK  BY ChunkAssumption DEF ChunkInit, ChunkTypeOK
<1>2. NoOrphan
  <2>1. \A a \in Attempts : ~Pending(a)
    BY AttemptParts, ChunkAssumption DEF ChunkInit, Pending
  <2> QED  BY <2>1 DEF NoOrphan, ChunkInit
<1>3. Current /\ Timers /\ SettledTried /\ Registered
  BY ChunkAssumption DEF ChunkInit, Current, Timers, SettledTried, Registered, Settled
<1>4. NothingMissing /\ WaitsForAll  BY DEF ChunkInit, NothingMissing, WaitsForAll
<1> QED  BY <1>1, <1>2, <1>3, <1>4 DEF ChunkInv

\* Only the promises of the current attempt are settled: it is pending.
LEMMA CurrentPending ==
    ASSUME ChunkInv, NEW b \in Attempts, installed[b[1]] = b[2]
    PROVE  Pending(b) /\ b[2] = tried[b[1]] /\ installed[b[1]] # None /\ installed[b[1]] # 0
<1>1. b[1] \in Chunks /\ b[2] \in 1..MaxAttempts /\ b = <<b[1], b[2]>>  BY AttemptParts
<1>2. b[2] # None /\ b[2] # 0  BY <1>1, ChunkAssumption
<1>3. b[2] = tried[b[1]] /\ <<b[1], tried[b[1]]>> \notin Settled  BY <1>1, <1>2 DEF ChunkInv, Current
<1>4. b \notin Settled  BY <1>1, <1>3
<1> QED  BY <1>1, <1>2, <1>3, <1>4 DEF Pending, Settled

LEMMA RequireEnsureKeeps ==
    ASSUME ChunkInv, NEW v \in Views, RequireEnsure(v)
    PROVE  ChunkInv'
<1> DEFINE made == {<<c, tried'[c]>> : c \in New(v)}
<1>1. /\ ChunksOf[v] \subseteq Chunks /\ New(v) \subseteq Chunks
      /\ \A c \in New(v) : c \in ChunksOf[v] /\ installed[c] = None
  BY ChunkAssumption DEF New
<1>2. /\ \A c \in New(v) : tried[c] < MaxAttempts
      /\ tried' = [c \in Chunks |-> IF c \in New(v) THEN tried[c] + 1 ELSE tried[c]]
      /\ installed' = [c \in Chunks |-> IF c \in New(v) THEN tried'[c] ELSE installed[c]]
      /\ fetching' = fetching \cup made /\ live' = live \cup made
      /\ waits' = [waits EXCEPT ![v] = Awaited(v)]
      /\ view' = [view EXCEPT ![v] = "waiting"]
      /\ UNCHANGED <<fulfilled, rejected, modules>>
  BY DEF RequireEnsure
<1>3. /\ tried \in [Chunks -> 0..MaxAttempts] /\ MaxAttempts \in Nat
      /\ installed \in [Chunks -> {None} \cup 0..MaxAttempts]
  BY ChunkAssumption DEF ChunkInv, ChunkTypeOK
<1>4. \A c \in New(v) : tried'[c] = tried[c] + 1 /\ tried'[c] \in 1..MaxAttempts /\ installed'[c] = tried'[c]
  BY <1>1, <1>2, <1>3
<1>5. \A c \in Chunks \ New(v) : tried'[c] = tried[c] /\ installed'[c] = installed[c]
  BY <1>2
<1>6. made \subseteq Attempts  BY <1>1, <1>4 DEF Attempts
<1>7. Awaited(v) \subseteq Attempts
  <2>1. ASSUME NEW c \in ChunksOf[v], installed'[c] # 0 PROVE installed'[c] \in 1..MaxAttempts
    <3>1. CASE c \in New(v)  BY <3>1, <1>4
    <3>2. CASE c \notin New(v)
      <4>1. installed[c] # None /\ installed'[c] = installed[c]
        BY <1>1, <1>5, <2>1, <3>2 DEF New
      <4> QED  BY <4>1, <1>1, <1>3, <2>1
    <3> QED  BY <3>1, <3>2
  <2> QED  BY <2>1, <1>1 DEF Awaited, Attempts
<1>8. ChunkTypeOK'
  <2>1. tried' \in [Chunks -> 0..MaxAttempts]  BY <1>2, <1>3
  <2>2. installed' \in [Chunks -> {None} \cup 0..MaxAttempts]
    <3>1. \A c \in Chunks : installed'[c] \in {None} \cup 0..MaxAttempts
      BY <1>3, <1>4, <1>5
    <3> QED  BY <3>1, <1>2
  <2>3. view' \in [Views -> {"idle", "waiting", "shown", "failed", "threw"}]
    BY <1>2 DEF ChunkInv, ChunkTypeOK
  <2>4. waits' \in [Views -> SUBSET Attempts]
    BY <1>2, <1>7 DEF ChunkInv, ChunkTypeOK
  <2> HIDE DEF made
  <2> QED  BY <1>2, <1>6, <2>1, <2>2, <2>3, <2>4 DEF ChunkInv, ChunkTypeOK
<1>9. \A a \in Attempts : a[1] \in Chunks /\ a[2] \in 1..MaxAttempts /\ a = <<a[1], a[2]>>
  BY AttemptParts
<1>10. \A a \in live : a[1] \notin New(v)
  <2> SUFFICES ASSUME NEW a \in live, a[1] \in New(v) PROVE FALSE  OBVIOUS
  <2>1. a \in Attempts  BY DEF ChunkInv, ChunkTypeOK
  <2>2. installed[a[1]] = None /\ a[2] \in Nat  BY <1>1, <1>9, <2>1
  <2>3. installed[a[1]] \in {0, a[2]}  BY DEF ChunkInv, Timers
  <2> QED  BY <2>2, <2>3, ChunkAssumption
<1>11. NoOrphan'
  <2>1. ASSUME NEW a \in Attempts, Pending(a)' PROVE installed'[a[1]] = a[2] /\ a \in live'
    <3>1. CASE a[1] \in New(v)
      <4>1. a[2] <= tried[a[1]] + 1 /\ a \notin Settled
        BY <3>1, <2>1, <1>2, <1>4 DEF Pending, Settled
      <4>2. a[2] > tried[a[1]]
        <5>1. ~Pending(a)
          BY <3>1, <1>1, <1>9, ChunkAssumption DEF ChunkInv, NoOrphan
        <5> QED  BY <5>1, <4>1, <1>9, <1>3 DEF Pending, Settled
      <4>3. a[2] = tried'[a[1]]  BY <4>1, <4>2, <3>1, <1>4, <1>3, <1>9
      <4>4. a \in made  BY <4>3, <3>1, <1>9
      <4> QED  BY <4>3, <4>4, <3>1, <1>2, <1>4
    <3>2. CASE a[1] \notin New(v)
      <4>1. Pending(a)  BY <3>2, <2>1, <1>2, <1>5, <1>9 DEF Pending
      <4> QED  BY <4>1, <3>2, <1>2, <1>5, <1>9 DEF ChunkInv, NoOrphan
    <3> QED  BY <3>1, <3>2
  <2> QED  BY <2>1, <1>2 DEF ChunkInv, NoOrphan
<1>12. NothingMissing'  BY <1>2 DEF ChunkInv, NothingMissing, ChunkTypeOK
<1>13. SettledTried'
  <2>1. \A a \in Settled : a \in Attempts /\ a[2] <= tried[a[1]]
    BY DEF ChunkInv, ChunkTypeOK, SettledTried, Settled
  <2>2. \A c \in Chunks : tried[c] <= tried'[c]  BY <1>2, <1>3
  <2>3. Settled' = Settled  BY <1>2 DEF Settled
  <2>4. ASSUME NEW a \in Settled PROVE a[2] <= tried'[a[1]]
    <3>1. a[1] \in Chunks /\ a[2] \in Nat  BY <1>9, <2>1
    <3>2. tried[a[1]] \in Nat /\ tried'[a[1]] \in Nat  BY <3>1, <1>2, <1>3
    <3> QED  BY <2>1, <2>2, <3>1, <3>2
  <2> QED  BY <2>3, <2>4 DEF SettledTried
<1>14. Current'
  <2> SUFFICES ASSUME NEW c \in Chunks, installed'[c] # None, installed'[c] # 0
               PROVE  installed'[c] = tried'[c] /\ <<c, tried'[c]>> \notin Settled'
    BY DEF Current
  <2>1. Settled' = Settled  BY <1>2 DEF Settled
  <2>2. CASE c \in New(v)
    <3>1. <<c, tried'[c]>> \notin Settled
      <4>1. tried[c] \in Nat /\ ~(tried[c] + 1 <= tried[c])  BY <1>3
      <4> QED  BY <4>1, <1>4, <2>2 DEF ChunkInv, SettledTried
    <3> QED  BY <3>1, <2>1, <2>2, <1>4
  <2>3. CASE c \notin New(v)
    BY <2>1, <2>3, <1>5 DEF ChunkInv, Current
  <2> QED  BY <2>2, <2>3
<1>15. Timers'
  <2> SUFFICES ASSUME NEW a \in live' PROVE a[2] = tried'[a[1]] /\ installed'[a[1]] \in {0, a[2]}
    BY DEF Timers
  <2>1. CASE a \in made  BY <2>1, <1>4
  <2>2. CASE a \in live
    <3>1. a \in Attempts  BY <2>2 DEF ChunkInv, ChunkTypeOK
    <3>2. a[1] \in Chunks \ New(v)  BY <2>2, <3>1, <1>9, <1>10
    <3> QED  BY <2>2, <3>2, <1>5 DEF ChunkInv, Timers
  <2> QED  BY <2>1, <2>2, <1>2
<1>16. Registered'
  <2>1. \A c \in New(v) : installed'[c] # 0  BY <1>4
  <2> QED  BY <2>1, <1>2, <1>5 DEF ChunkInv, Registered
<1>17. WaitsForAll'
  <2> SUFFICES ASSUME NEW w \in Views, view'[w] = "waiting", NEW c \in ChunksOf[w]
               PROVE  c \in modules' \/ \E a \in waits'[w] : a[1] = c
    BY DEF WaitsForAll
  <2>1. CASE w = v
    <3>1. waits'[v] = Awaited(v)  BY <1>2 DEF ChunkInv, ChunkTypeOK
    <3>2. CASE installed'[c] = 0
      BY <3>2, <2>1, <1>1, <1>16, <1>2 DEF Registered
    <3>3. CASE installed'[c] # 0
      <4>1. <<c, installed'[c]>> \in Awaited(v)  BY <3>3, <2>1 DEF Awaited
      <4>2. <<c, installed'[c]>>[1] = c  OBVIOUS
      <4> QED  BY <3>1, <4>1, <4>2, <2>1
    <3> QED  BY <3>2, <3>3
  <2>2. CASE w # v
    <3>1. view[w] = "waiting" /\ waits'[w] = waits[w]
      BY <2>2, <1>2 DEF ChunkInv, ChunkTypeOK
    <3> QED  BY <3>1, <1>2 DEF ChunkInv, WaitsForAll
  <2> QED  BY <2>1, <2>2
<1> QED  BY <1>8, <1>11, <1>12, <1>13, <1>14, <1>15, <1>16, <1>17 DEF ChunkInv

LEMMA ViewKeeps ==
    ASSUME ChunkInv, NEW v \in Views, CannotFind(v) \/ Resolve(v) \/ Reject(v)
    PROVE  ChunkInv'
<1>1. UNCHANGED <<installed, tried, fetching, live, fulfilled, rejected, modules, waits>>
  BY DEF CannotFind, Resolve, Reject
<1>2. view' = [view EXCEPT ![v] = "failed"] \/ view' = [view EXCEPT ![v] = "shown"]
  <2>1. CASE CannotFind(v) \/ Reject(v)  BY <2>1 DEF CannotFind, Reject
  <2>2. CASE Resolve(v)
    <3>1. ChunksOf[v] \subseteq modules
      <4>1. view[v] = "waiting" /\ waits[v] \subseteq fulfilled  BY <2>2 DEF Resolve
      <4>2. \A c \in ChunksOf[v] : c \in modules
        BY <4>1 DEF ChunkInv, WaitsForAll, Registered
      <4> QED  BY <4>2
    <3> QED  BY <2>2, <3>1 DEF Resolve
  <2> QED  BY <2>1, <2>2
<1>3. ChunkTypeOK' /\ NothingMissing'
  BY <1>1, <1>2 DEF ChunkInv, ChunkTypeOK, NothingMissing
<1>4. Current' /\ Timers' /\ SettledTried' /\ Registered'
  BY <1>1 DEF ChunkInv, Current, Timers, SettledTried, Registered, Settled
<1>5. NoOrphan'  BY <1>1 DEF ChunkInv, NoOrphan, Pending
<1>6. WaitsForAll'
  <2>1. \A w \in Views : view'[w] = "waiting" => view[w] = "waiting"
    BY <1>2 DEF ChunkInv, ChunkTypeOK
  <2> QED  BY <1>1, <2>1 DEF ChunkInv, WaitsForAll
<1> QED  BY <1>3, <1>4, <1>5, <1>6 DEF ChunkInv

\* A script registers its chunk: the current attempt, its own or a later one, is
\* fulfilled.
LEMMA WebpackJsonpKeeps ==
    ASSUME ChunkInv, NEW a \in Attempts, WebpackJsonp(a)
    PROVE  ChunkInv'
<1>1. /\ fetching' = fetching \ {a} /\ live' = live \ {a}
      /\ fulfilled' = fulfilled \cup Resolved(a)
      /\ installed' = [installed EXCEPT ![a[1]] = 0]
      /\ modules' = modules \cup {a[1]}
      /\ UNCHANGED <<tried, rejected, view, waits>>
  BY DEF WebpackJsonp
<1>2. \A b \in Attempts : b[1] \in Chunks /\ b[2] \in 1..MaxAttempts /\ b = <<b[1], b[2]>>
  BY AttemptParts
<1>3. \A b \in Resolved(a) : b \in Attempts /\ b[1] = a[1] /\ installed[b[1]] = b[2] /\ Pending(b)
                             /\ b[2] = tried[b[1]]
  BY CurrentPending DEF Resolved
<1>4. \A c \in Chunks : installed'[c] = IF c = a[1] THEN 0 ELSE installed[c]
  BY <1>1 DEF ChunkInv, ChunkTypeOK
<1>5. ChunkTypeOK'
  <2>1. installed' \in [Chunks -> {None} \cup 0..MaxAttempts]
    <3>1. 0 \in 0..MaxAttempts  BY ChunkAssumption
    <3> QED  BY <1>1, <3>1 DEF ChunkInv, ChunkTypeOK
  <2>2. fulfilled' \subseteq Attempts  BY <1>1, <1>3 DEF ChunkInv, ChunkTypeOK
  <2>3. modules' \subseteq Chunks  BY <1>1, <1>2 DEF ChunkInv, ChunkTypeOK
  <2> QED  BY <1>1, <2>1, <2>2, <2>3 DEF ChunkInv, ChunkTypeOK
<1>6. NoOrphan'
  <2>1. ASSUME NEW b \in Attempts, Pending(b)' PROVE installed'[b[1]] = b[2] /\ b \in live'
    <3>1. Pending(b) /\ b \notin Resolved(a)  BY <1>1, <2>1 DEF Pending
    <3>2. installed[b[1]] = b[2] /\ b \in live  BY <3>1 DEF ChunkInv, NoOrphan
    <3>3. b[1] # a[1]  BY <3>1, <3>2 DEF Resolved
    <3> QED  BY <3>2, <3>3, <1>1, <1>2, <1>4
  <2>2. \A b \in Resolved(a) : b \notin rejected  BY <1>3 DEF Pending
  <2> QED  BY <1>1, <2>1, <2>2 DEF ChunkInv, NoOrphan
<1>7. NothingMissing'  BY <1>1 DEF ChunkInv, NothingMissing
<1>8. Current'
  <2> SUFFICES ASSUME NEW c \in Chunks, installed'[c] # None, installed'[c] # 0
               PROVE  installed'[c] = tried'[c] /\ <<c, tried'[c]>> \notin Settled'
    BY DEF Current
  <2>1. c # a[1] /\ installed'[c] = installed[c]  BY <1>4
  <2>2. installed[c] = tried[c] /\ <<c, tried[c]>> \notin Settled
    BY <2>1 DEF ChunkInv, Current
  <2>3. <<c, tried[c]>> \notin Resolved(a)
    <3>1. <<c, tried[c]>>[1] = c  OBVIOUS
    <3> QED  BY <3>1, <2>1, <1>3
  <2> QED  BY <1>1, <2>1, <2>2, <2>3 DEF Settled
<1>9. Timers'
  <2>1. \A b \in live : b \in Attempts  BY DEF ChunkInv, ChunkTypeOK
  <2> QED  BY <1>1, <1>2, <1>4, <2>1 DEF ChunkInv, Timers
<1>10. SettledTried'
  <2>1. \A b \in Resolved(a) : b[2] <= tried[b[1]]  BY <1>3 DEF Pending
  <2> QED  BY <1>1, <2>1 DEF ChunkInv, SettledTried, Settled
<1>11. Registered'
  <2>1. \A b \in Resolved(a) : b[1] = a[1]  BY <1>3
  <2> QED  BY <1>1, <1>4, <2>1 DEF ChunkInv, Registered
<1>12. WaitsForAll'  BY <1>1 DEF ChunkInv, WaitsForAll
<1> QED  BY <1>5, <1>6, <1>7, <1>8, <1>9, <1>10, <1>11, <1>12 DEF ChunkInv

\* The end of a live attempt: if its chunk is not loaded it is the current one, which is
\* rejected and forgotten.
LEMMA OnScriptCompleteKeeps ==
    ASSUME ChunkInv, NEW a \in Attempts, a \in live, OnScriptComplete(a),
           fetching' \subseteq fetching
    PROVE  ChunkInv'
<1> DEFINE R == {b \in Attempts : b[1] = a[1] /\ installed[b[1]] = b[2]}
<1>1. /\ live' = live \ {a} /\ rejected' = rejected \cup R
      /\ installed' = [installed EXCEPT ![a[1]] = IF installed[a[1]] = 0 THEN 0 ELSE None]
      /\ UNCHANGED <<tried, fulfilled, modules, view, waits>>
  BY DEF OnScriptComplete, Forgotten
<1>2. \A b \in Attempts : b[1] \in Chunks /\ b[2] \in 1..MaxAttempts /\ b = <<b[1], b[2]>>
  BY AttemptParts
<1>3. \A b \in R : b \in Attempts /\ b[1] = a[1] /\ installed[b[1]] = b[2] /\ Pending(b)
                   /\ b[2] = tried[b[1]] /\ installed[b[1]] # 0
  BY CurrentPending
<1> HIDE DEF R
<1>4. \A c \in Chunks :
        installed'[c] = IF c = a[1] /\ installed[c] # 0 THEN None ELSE installed[c]
  BY <1>1, <1>2 DEF ChunkInv, ChunkTypeOK
<1>5. ChunkTypeOK'
  <2>1. installed' \in [Chunks -> {None} \cup 0..MaxAttempts]
    BY <1>1, ChunkAssumption DEF ChunkInv, ChunkTypeOK
  <2>2. rejected' \subseteq Attempts  BY <1>1, <1>3 DEF ChunkInv, ChunkTypeOK
  <2> QED  BY <1>1, <2>1, <2>2 DEF ChunkInv, ChunkTypeOK
<1>6. \A b \in live : b[1] = a[1] => b = a
  <2> SUFFICES ASSUME NEW b \in live, b[1] = a[1] PROVE b = a  OBVIOUS
  <2>1. b \in Attempts  BY DEF ChunkInv, ChunkTypeOK
  <2>2. b[2] = a[2]  BY DEF ChunkInv, Timers
  <2> QED  BY <2>1, <2>2, <1>2
<1>7. NoOrphan'
  <2>1. ASSUME NEW b \in Attempts, Pending(b)' PROVE installed'[b[1]] = b[2] /\ b \in live'
    <3>1. Pending(b) /\ b \notin R  BY <1>1, <2>1 DEF Pending
    <3>2. installed[b[1]] = b[2] /\ b \in live  BY <3>1 DEF ChunkInv, NoOrphan
    <3>3. b[1] # a[1]  BY <3>1, <3>2 DEF R
    <3> QED  BY <3>2, <3>3, <1>1, <1>2, <1>4
  <2>2. \A b \in R : b \notin fulfilled  BY <1>3 DEF Pending
  <2> QED  BY <1>1, <2>1, <2>2 DEF ChunkInv, NoOrphan
<1>8. NothingMissing'  BY <1>1 DEF ChunkInv, NothingMissing
<1>9. Current'
  <2> SUFFICES ASSUME NEW c \in Chunks, installed'[c] # None, installed'[c] # 0
               PROVE  installed'[c] = tried'[c] /\ <<c, tried'[c]>> \notin Settled'
    BY DEF Current
  <2>1. c # a[1] /\ installed'[c] = installed[c]  BY <1>4
  <2>2. installed[c] = tried[c] /\ <<c, tried[c]>> \notin Settled
    BY <2>1 DEF ChunkInv, Current
  <2>3. <<c, tried[c]>> \notin R
    <3>1. <<c, tried[c]>>[1] = c  OBVIOUS
    <3> QED  BY <3>1, <2>1, <1>3
  <2> QED  BY <1>1, <2>1, <2>2, <2>3 DEF Settled
<1>10. Timers'
  <2>1. \A b \in live' : b \in live /\ b[1] \in Chunks /\ b[1] # a[1]
    BY <1>1, <1>2, <1>6 DEF ChunkInv, ChunkTypeOK
  <2> QED  BY <1>1, <1>4, <2>1 DEF ChunkInv, Timers
<1>11. SettledTried'
  <2>1. \A b \in R : b[2] <= tried[b[1]]  BY <1>3 DEF Pending
  <2> QED  BY <1>1, <2>1 DEF ChunkInv, SettledTried, Settled
<1>12. Registered'
  <2>1. None # 0  BY ChunkAssumption
  <2> QED  BY <1>1, <1>4, <2>1 DEF ChunkInv, Registered
<1>13. WaitsForAll'  BY <1>1 DEF ChunkInv, WaitsForAll
<1> QED  BY <1>5, <1>7, <1>8, <1>9, <1>10, <1>11, <1>12, <1>13 DEF ChunkInv

LEMMA ScriptEndsKeeps ==
    ASSUME ChunkInv, NEW a \in Attempts, ScriptEnds(a)
    PROVE  ChunkInv'
<1>1. CASE a \in live  BY <1>1, OnScriptCompleteKeeps DEF ScriptEnds
<1>2. CASE a \notin live
  <2>1. /\ UNCHANGED <<installed, tried, live, fulfilled, rejected, modules, view, waits>>
        /\ fetching' = fetching \ {a}
    BY <1>2 DEF ScriptEnds
  <2>2. ChunkTypeOK' /\ NothingMissing' /\ WaitsForAll' /\ Registered'
    BY <2>1 DEF ChunkInv, ChunkTypeOK, NothingMissing, WaitsForAll, Registered
  <2>3. NoOrphan'  BY <2>1 DEF ChunkInv, NoOrphan, Pending
  <2>4. Current' /\ Timers' /\ SettledTried'
    BY <2>1 DEF ChunkInv, Current, Timers, SettledTried, Settled
  <2> QED  BY <2>2, <2>3, <2>4 DEF ChunkInv
<1> QED  BY <1>1, <1>2

LEMMA ChunkStep ==
    ASSUME ChunkInv, [ChunkNext]_chunkVars
    PROVE  ChunkInv'
<1>1. ASSUME NEW v \in Views, RequireEnsure(v) \/ CannotFind(v) \/ Resolve(v) \/ Reject(v)
      PROVE ChunkInv'
  BY <1>1, RequireEnsureKeeps, ViewKeeps
<1>2. ASSUME NEW a \in Attempts, WebpackJsonp(a) \/ ScriptEnds(a) \/ TimesOut(a)
      PROVE ChunkInv'
  <2>1. CASE WebpackJsonp(a)  BY <2>1, WebpackJsonpKeeps
  <2>2. CASE ScriptEnds(a)  BY <2>2, ScriptEndsKeeps
  <2>3. CASE TimesOut(a)  BY <2>3, OnScriptCompleteKeeps DEF TimesOut
  <2> QED  BY <1>2, <2>1, <2>2, <2>3
<1>3. CASE UNCHANGED chunkVars
  <2>1. UNCHANGED <<installed, tried, fetching, live, fulfilled, rejected, modules, view, waits>>
    BY <1>3 DEF chunkVars
  <2>2. ChunkTypeOK' /\ NothingMissing' /\ WaitsForAll' /\ Registered'
    BY <2>1 DEF ChunkInv, ChunkTypeOK, NothingMissing, WaitsForAll, Registered
  <2>3. NoOrphan'  BY <2>1 DEF ChunkInv, NoOrphan, Pending
  <2>4. Current' /\ Timers' /\ SettledTried'
    BY <2>1 DEF ChunkInv, Current, Timers, SettledTried, Settled
  <2> QED  BY <2>2, <2>3, <2>4 DEF ChunkInv
<1> QED  BY <1>1, <1>2, <1>3 DEF ChunkNext

LEMMA FrontIsChunk == [FrontNext]_frontVars => [ChunkNext]_chunkVars
BY DEF FrontNext, frontVars

LEMMA ChunksHold == FrontSpec => []ChunkInv
<1>1. FrontInit => ChunkInv  BY InitChunks DEF FrontInit
<1>2. ChunkInv /\ [FrontNext]_frontVars => ChunkInv'  BY ChunkStep, FrontIsChunk
<1> QED  BY <1>1, <1>2, PTL DEF FrontSpec

\* Types of the webpack runtime, for any chunks, views and number of attempts.
THEOREM ChunkTypes == FrontSpec => []ChunkTypeOK
<1>1. ChunkInv => ChunkTypeOK  BY DEF ChunkInv
<1> QED  BY <1>1, ChunksHold, PTL

\* An unsettled promise has somebody who will settle it, and none is settled twice,
\* whatever scripts come late.
THEOREM PromisesNotOrphaned == FrontSpec => []NoOrphan
<1>1. ChunkInv => NoOrphan  BY DEF ChunkInv
<1> QED  BY <1>1, ChunksHold, PTL

\* A chunk is never requested twice at a time.
THEOREM AttemptsShared == FrontSpec => []OneAttempt
<1>1. ChunkInv => OneAttempt
  <2> SUFFICES ASSUME ChunkInv, NEW a \in live, NEW b \in live, a[1] = b[1] PROVE a = b
    BY DEF OneAttempt
  <2>1. a \in Attempts /\ b \in Attempts  BY DEF ChunkInv, ChunkTypeOK
  <2>2. a[2] = b[2]  BY DEF ChunkInv, Timers
  <2> QED  BY <2>1, <2>2, AttemptParts
<1> QED  BY <1>1, ChunksHold, PTL

\* The module of a view is required when the modules of all its chunks are registered.
THEOREM ModulesThere == FrontSpec => []NothingMissing
<1>1. ChunkInv => NothingMissing  BY DEF ChunkInv
<1> QED  BY <1>1, ChunksHold, PTL

\* Timers and scripts of given-up attempts do not unload a chunk.
THEOREM ChunksStayLoaded == FrontSpec => StaysLoaded
<1>1. ChunkInv /\ [ChunkNext]_chunkVars
        => [\A c \in Chunks : installed[c] = 0 => installed'[c] = 0]_chunkVars
  <2> SUFFICES ASSUME ChunkInv, ChunkNext, NEW c \in Chunks, installed[c] = 0
               PROVE  installed'[c] = 0
    OBVIOUS
  <2>1. installed \in [Chunks -> {None} \cup 0..MaxAttempts] /\ None # 0
    BY ChunkAssumption DEF ChunkInv, ChunkTypeOK
  <2>2. ASSUME NEW v \in Views, RequireEnsure(v) PROVE installed'[c] = 0
    BY <2>1, <2>2 DEF RequireEnsure, New
  <2>3. ASSUME NEW v \in Views, CannotFind(v) \/ Resolve(v) \/ Reject(v) PROVE installed'[c] = 0
    BY <2>3 DEF CannotFind, Resolve, Reject
  <2>4. ASSUME NEW a \in Attempts, WebpackJsonp(a) PROVE installed'[c] = 0
    BY <2>1, <2>4 DEF WebpackJsonp
  <2>5. ASSUME NEW a \in Attempts, OnScriptComplete(a) PROVE installed'[c] = 0
    BY <2>1, <2>5 DEF OnScriptComplete, Forgotten
  <2>6. ASSUME NEW a \in Attempts, ScriptEnds(a) \/ TimesOut(a) PROVE installed'[c] = 0
    BY <2>5, <2>6 DEF ScriptEnds, TimesOut
  <2> QED  BY <2>2, <2>3, <2>4, <2>6 DEF ChunkNext
<1>2. ChunkInv /\ [FrontNext]_frontVars
        => [\A c \in Chunks : installed[c] = 0 => installed'[c] = 0]_chunkVars
  BY <1>1, FrontIsChunk
<1> QED  BY <1>2, ChunksHold, PTL DEF FrontSpec, StaysLoaded

\* A view waits for attempts that were made.
WaitsTried == \A v \in Views : \A a \in waits[v] : a[2] <= tried[a[1]]

LEMMA WaitsStep ==
    ASSUME ChunkInv, WaitsTried, [ChunkNext]_chunkVars
    PROVE  WaitsTried'
<1>1. \A a \in Attempts : a[1] \in Chunks /\ a[2] \in Nat
  BY AttemptParts
<1>2. tried \in [Chunks -> 0..MaxAttempts] /\ waits \in [Views -> SUBSET Attempts]
  BY DEF ChunkInv, ChunkTypeOK
<1>3. ASSUME NEW v \in Views, RequireEnsure(v) PROVE WaitsTried'
  <2>1. /\ tried' = [c \in Chunks |-> IF c \in New(v) THEN tried[c] + 1 ELSE tried[c]]
        /\ installed' = [c \in Chunks |-> IF c \in New(v) THEN tried'[c] ELSE installed[c]]
        /\ waits' = [waits EXCEPT ![v] = Awaited(v)]
    BY <1>3 DEF RequireEnsure
  <2>2. \A c \in Chunks : tried'[c] \in Nat /\ tried'[c] >= tried[c]
    BY <1>2, <2>1
  <2> SUFFICES ASSUME NEW w \in Views, NEW a \in waits'[w] PROVE a[2] <= tried'[a[1]]
    BY DEF WaitsTried
  <2>3. CASE w = v
    <3>1. PICK c \in ChunksOf[v] : installed'[c] # 0 /\ a = <<c, installed'[c]>>
      BY <1>2, <2>1, <2>3 DEF Awaited
    <3>2. c \in Chunks /\ a[1] = c /\ a[2] = installed'[c]
      BY <3>1, ChunkAssumption
    <3>3. CASE c \in New(v)
      BY <2>1, <2>2, <3>2, <3>3
    <3>4. CASE c \notin New(v)
      <4>1. installed[c] # None /\ installed[c] # 0 /\ installed'[c] = installed[c] /\ tried'[c] = tried[c]
        BY <2>1, <3>1, <3>2, <3>4 DEF New
      <4>2. installed[c] = tried[c]
        BY <3>2, <4>1 DEF ChunkInv, Current
      <4> QED
        BY <2>2, <3>2, <4>1, <4>2
    <3> QED
      BY <3>3, <3>4
  <2>4. CASE w # v
    <3>1. a \in waits[w] /\ a \in Attempts
      BY <1>2, <2>1, <2>4
    <3>2. a[2] <= tried[a[1]] /\ tried[a[1]] \in Nat
      BY <1>1, <1>2, <3>1 DEF WaitsTried
    <3> QED
      BY <1>1, <2>2, <3>1, <3>2
  <2> QED
    BY <2>3, <2>4
<1>4. CASE UNCHANGED <<tried, waits>>
  BY <1>4 DEF WaitsTried
<1> QED
  BY <1>3, <1>4 DEF ChunkNext, chunkVars, CannotFind, Resolve, Reject, WebpackJsonp, ScriptEnds,
                    OnScriptComplete, TimesOut

\* Late scripts, timers of attempts that were given up and requests that share a chunk leave
\* no view waiting for a promise that nobody will settle: what ViewsEnd needs besides
\* progress.
THEOREM ViewsNotStuck == FrontSpec => []ViewsGoOn
<1>1. FrontInit => WaitsTried
  BY DEF FrontInit, ChunkInit, WaitsTried
<1>2. ChunkInv /\ WaitsTried /\ [FrontNext]_frontVars => WaitsTried'
  BY WaitsStep, FrontIsChunk
<1>3. ChunkInv /\ WaitsTried => ViewsGoOn
  <2> SUFFICES ASSUME ChunkInv, WaitsTried, NEW v \in Views, view[v] = "waiting",
                      NEW a \in waits[v], a \notin fulfilled, a \notin rejected
               PROVE  a \in live
    BY DEF ViewsGoOn
  <2>1. a \in Attempts
    BY DEF ChunkInv, ChunkTypeOK
  <2>2. Pending(a)
    BY DEF WaitsTried, Pending
  <2> QED
    BY <2>1, <2>2 DEF ChunkInv, NoOrphan
<1> QED
  BY <1>1, <1>2, <1>3, ChunksHold, PTL DEF FrontSpec

-----------------------------------------------------------------------------
(* PageLoader                                                              *)

NoFailure == page = "init" \/ failed \cap {"config", "script"} = {}

\* What init.js has done so far, and that a script being loaded is the one whose turn
\* it is.
Stages ==
    /\ ~handler => styled = 0 /\ ~link
    /\ handler => page = "init" /\ config = "set"
    /\ link => styled < Css
    /\ config = "unknown" => loading = NoScript /\ boots = 0
    /\ page = "init" /\ ready = "loading" =>
           loading = NoScript /\ next = 1 /\ ran = {} /\ threw = {} /\ boots = 0
    /\ loading # NoScript => next \in 1..Len(List) /\ loading = List[next]
    /\ page = "init" /\ loading # NoScript => config = "set"

\* Unless something failed, the scripts before the one being loaded have run.
RanBefore ==
    NoFailure =>
        /\ threw = {}
        /\ loading # NoScript => config = "set" /\ {List[k] : k \in 1..(next - 1)} \subseteq ran

\* Who has started the application is before the script being loaded.
StartedBefore ==
    /\ boots \in {0, 1}
    /\ boots = 1 /\ loading # NoScript => \E k \in 1..(next - 1) : List[k] = App

PageInv == PageTypeOK /\ Stages /\ HiddenUntilStyled

LEMMA ListIsSeq == List \in Seq(Scripts) /\ Len(List) \in Nat /\ \A n \in 1..Len(List) : List[n] \in Scripts
<1>1. List \in Seq(Scripts)  BY PageAssumption DEF List
<1> QED  BY <1>1

LEMMA InitPage == PageInit => PageInv
<1> SUFFICES ASSUME PageInit PROVE PageInv  OBVIOUS
<1>1. styled = 0 /\ 0 \in 0..Css  BY PageAssumption DEF PageInit
<1>2. PageTypeOK
  <2>1. next \in Nat \ {0} /\ boots \in Nat /\ opacity \in {0, 1}  BY DEF PageInit
  <2>2. /\ page \in Pages /\ config \in {"unknown", "set", "missing"}
        /\ ready \in {"loading", "interactive", "complete"}
        /\ handler \in BOOLEAN /\ link \in BOOLEAN
    BY DEF PageInit
  <2>3. /\ loading \in Scripts \cup {NoScript} /\ ran \subseteq Scripts /\ threw \subseteq Scripts
        /\ failed \subseteq {"config", "style", "script"}
    BY DEF PageInit
  <2> QED  BY <1>1, <2>1, <2>2, <2>3 DEF PageTypeOK
<1>3. Stages /\ HiddenUntilStyled  BY PageAssumption DEF PageInit, Stages, HiddenUntilStyled
<1> QED  BY <1>2, <1>3 DEF PageInv

\* What adding a script, or reaching its tag, leaves behind.
LEMMA AddsScript ==
    ASSUME NEW n \in Nat \ {0}, Adds(n)
    PROVE  /\ next' = n /\ loading' \in Scripts \cup {NoScript}
           /\ loading' # NoScript => n \in 1..Len(List) /\ loading' = List[n]
BY ListIsSeq DEF Adds

LEMMA LoadConfigKeeps == ASSUME PageInv, LoadConfig PROVE PageInv'
<1>1. /\ config = "unknown" /\ config' \in {"set", "missing"}
      /\ \/ page = "init" /\ UNCHANGED <<next, loading>>
         \/ page = "tags" /\ Adds(1)
      /\ failed' \subseteq failed \cup {"config"}
      /\ UNCHANGED <<page, ready, handler, opacity, styled, link, ran, threw, boots>>
  BY PageAssumption DEF LoadConfig, PageInv, PageTypeOK
<1>2. page = "tags" => next' = 1 /\ loading' \in Scripts \cup {NoScript}
                       /\ (loading' # NoScript => 1 \in 1..Len(List) /\ loading' = List[1])
  BY <1>1, AddsScript
<1>3. List' = List  BY <1>1 DEF List
<1>4. PageTypeOK'  BY <1>1, <1>2 DEF PageInv, PageTypeOK
<1>5. Stages'  BY <1>1, <1>2, <1>3 DEF PageInv, Stages
<1>6. HiddenUntilStyled'  BY <1>1 DEF PageInv, HiddenUntilStyled
<1> QED  BY <1>4, <1>5, <1>6 DEF PageInv

LEMMA StylesKeep == ASSUME PageInv, RunInit \/ StyleLoads \/ StyleFails PROVE PageInv'
<1>1. UNCHANGED <<page, config, ready, next, loading, ran, threw, boots>>
  BY DEF RunInit, StyleLoads, StyleFails
<1>2. Css \in Nat /\ styled \in 0..Css  BY PageAssumption DEF PageInv, PageTypeOK
<1>3. List' = List  BY <1>1 DEF List
<1>4. ASSUME NEW n \in 0..Css, Shown(n)
      PROVE link' \in BOOLEAN /\ opacity' \in {0, 1} /\ (link' => n < Css) /\ (opacity' = 1 => n = Css)
  <2>1. n \in Nat /\ n <= Css /\ Css \in Nat  BY <1>2, <1>4
  <2>2. CASE n >= Css
    <3>1. n = Css  BY <2>1, <2>2
    <3> QED  BY <2>2, <3>1, <1>4 DEF Shown
  <2>3. CASE ~(n >= Css)
    <3>1. n < Css  BY <2>1, <2>3
    <3> QED  BY <2>3, <3>1, <1>4 DEF Shown
  <2> QED  BY <2>2, <2>3
<1>5. /\ styled' \in 0..Css /\ link' \in BOOLEAN /\ opacity' \in {0, 1} /\ handler' \in BOOLEAN
      /\ failed' \subseteq {"config", "style", "script"}
      /\ handler' => page = "init" /\ config = "set"
      /\ ~handler' => styled' = 0 /\ ~link'
      /\ link' => styled' < Css
      /\ handler' /\ opacity' = 1 => styled' = Css
  <2>1. CASE RunInit
    <3>1. styled = 0 /\ styled' = styled  BY <2>1 DEF RunInit, PageInv, Stages
    <3>2. 0 \in 0..Css /\ Shown(0)  BY <2>1, <1>2 DEF RunInit
    <3> QED  BY <2>1, <3>1, <3>2, <1>4 DEF RunInit, PageInv, PageTypeOK
  <2>2. CASE StyleLoads
    <3>1. styled < Css /\ styled' = styled + 1 /\ handler /\ UNCHANGED <<handler, failed>>
      BY <2>2 DEF StyleLoads, PageInv, Stages
    <3>2. styled' \in 0..Css /\ Shown(styled')  BY <2>2, <3>1, <1>2 DEF StyleLoads
    <3>3. link' \in BOOLEAN /\ opacity' \in {0, 1} /\ (link' => styled' < Css) /\ (opacity' = 1 => styled' = Css)
      BY <3>2, <1>4
    <3> QED  BY <3>1, <3>2, <3>3 DEF PageInv, PageTypeOK, Stages
  <2>3. CASE StyleFails
    BY <2>3 DEF StyleFails, PageInv, PageTypeOK, Stages, HiddenUntilStyled
  <2> QED  BY <2>1, <2>2, <2>3
<1>6. PageTypeOK'  BY <1>1, <1>5 DEF PageInv, PageTypeOK
<1>7. Stages'  BY <1>1, <1>3, <1>5 DEF PageInv, Stages
<1>8. HiddenUntilStyled'  BY <1>5 DEF HiddenUntilStyled
<1> QED  BY <1>6, <1>7, <1>8 DEF PageInv

\* The only change of readyState that adds scripts is the first.
LEMMA ReadyStep ==
    ASSUME PageInv, NEW state, ReadyStateChange(state)
    PROVE  /\ \/ ready = "loading" /\ config # "unknown" /\ handler /\ Adds(1)
              \/ UNCHANGED <<next, loading>>
           /\ ready' = state /\ state \in {"interactive", "complete"}
           /\ UNCHANGED <<page, config, handler, opacity, styled, link, ran, threw, boots, failed>>
<1>1. handler /\ state \in States => ready = "loading" /\ config # "unknown"
  BY DEF ReadyStateChange, States
<1> QED  BY <1>1 DEF ReadyStateChange

LEMMA ReadyKeeps == ASSUME PageInv, NEW state, ReadyStateChange(state) PROVE PageInv'
<1>1. /\ \/ handler /\ Adds(1)
         \/ UNCHANGED <<next, loading>>
      /\ ready' \in {"interactive", "complete"}
      /\ UNCHANGED <<page, config, handler, opacity, styled, link, ran, threw, boots, failed>>
  BY ReadyStep
<1>2. List' = List  BY <1>1 DEF List
<1>3. /\ next' \in Nat \ {0} /\ loading' \in Scripts \cup {NoScript}
      /\ loading' # NoScript => next' \in 1..Len(List) /\ loading' = List[next']
      /\ loading' # NoScript => config = "set" \/ UNCHANGED loading
  <2>1. CASE handler /\ Adds(1)  BY <2>1, AddsScript DEF PageInv, Stages
  <2>2. CASE UNCHANGED <<next, loading>>  BY <2>2 DEF PageInv, PageTypeOK, Stages
  <2> QED  BY <1>1, <2>1, <2>2
<1>4. PageTypeOK'  BY <1>1, <1>3 DEF PageInv, PageTypeOK
<1>5. Stages'
  <2>1. config = "unknown" => ~handler /\ loading = NoScript  BY DEF PageInv, Stages
  <2>2. config = "unknown" => loading' = NoScript  BY <1>1, <2>1
  <2>3. page = "init" /\ loading' # NoScript => config = "set"  BY <1>3 DEF PageInv, Stages
  <2> QED  BY <1>1, <1>2, <1>3, <2>2, <2>3 DEF PageInv, Stages
<1>6. HiddenUntilStyled'  BY <1>1 DEF PageInv, HiddenUntilStyled
<1> QED  BY <1>4, <1>5, <1>6 DEF PageInv

LEMMA ScriptStep ==
    ASSUME PageInv, ScriptLoads \/ ScriptFails
    PROVE  /\ loading \in Scripts /\ next \in 1..Len(List) /\ loading = List[next]
           /\ config # "unknown" /\ (page = "init" => ready # "loading" /\ config = "set")
           /\ next' \in {next, next + 1} /\ loading' \in Scripts \cup {NoScript}
           /\ loading' # NoScript =>
                  next' = next + 1 /\ next' \in 1..Len(List) /\ loading' = List[next']
           /\ UNCHANGED <<page, config, ready, handler, opacity, styled, link>>
<1>1. /\ loading # NoScript
      /\ UNCHANGED <<page, config, ready, handler, opacity, styled, link>>
  BY DEF ScriptLoads, ScriptFails
<1>2. /\ loading \in Scripts /\ next \in 1..Len(List) /\ loading = List[next]
      /\ config # "unknown" /\ (page = "init" => ready # "loading" /\ config = "set")
  BY <1>1 DEF PageInv, PageTypeOK, Stages
<1>3. next + 1 \in Nat \ {0}  BY <1>2
<1>4. Adds(next + 1) \/ (loading' = NoScript /\ UNCHANGED next)
  BY DEF ScriptLoads, ScriptFails, AfterLoad
<1>5. CASE Adds(next + 1)  BY <1>1, <1>2, <1>3, <1>5, AddsScript
<1>6. CASE loading' = NoScript /\ UNCHANGED next  BY <1>1, <1>2, <1>6
<1> QED  BY <1>4, <1>5, <1>6

LEMMA ScriptKeeps == ASSUME PageInv, ScriptLoads \/ ScriptFails PROVE PageInv'
<1>1. List' = List  BY ScriptStep DEF List
<1>2. /\ ran' \subseteq Scripts /\ threw' \subseteq Scripts /\ boots' \in Nat
      /\ failed' \subseteq {"config", "style", "script"}
  <2>1. CASE ScriptLoads
    <3>1. loading \in Scripts  BY <2>1, ScriptStep
    <3> QED  BY <2>1, <3>1 DEF ScriptLoads, PageInv, PageTypeOK
  <2>2. CASE ScriptFails  BY <2>2 DEF ScriptFails, PageInv, PageTypeOK
  <2> QED  BY <2>1, <2>2
<1>3. next' \in Nat \ {0}  BY ScriptStep
<1>4. PageTypeOK'  BY ScriptStep, <1>2, <1>3 DEF PageInv, PageTypeOK
<1>5. Stages'  BY ScriptStep, <1>1 DEF PageInv, Stages
<1>6. HiddenUntilStyled'  BY ScriptStep DEF PageInv, HiddenUntilStyled
<1> QED  BY <1>4, <1>5, <1>6 DEF PageInv

LEMMA PageStep == ASSUME PageInv, [PageNext]_pageVars PROVE PageInv'
<1>1. CASE UNCHANGED pageVars
  <2>1. List' = List  BY <1>1 DEF pageVars, List
  <2> QED  BY <1>1, <2>1 DEF pageVars, PageInv, PageTypeOK, Stages, HiddenUntilStyled
<1> QED  BY <1>1, LoadConfigKeeps, StylesKeep, ReadyKeeps, ScriptKeeps DEF PageNext

LEMMA FrontIsPage == [FrontNext]_frontVars => [PageNext]_pageVars
BY DEF FrontNext, frontVars

LEMMA PagesHold == FrontSpec => []PageInv
<1>1. FrontInit => PageInv  BY InitPage DEF FrontInit
<1>2. PageInv /\ [FrontNext]_frontVars => PageInv'  BY PageStep, FrontIsPage
<1> QED  BY <1>1, <1>2, PTL DEF FrontSpec

\* The state of a page keeps its types, for any lists and any failures.
THEOREM PagesTyped == FrontSpec => []PageTypeOK
<1>1. PageInv => PageTypeOK  BY DEF PageInv
<1> QED  BY <1>1, PagesHold, PTL

\* Once init.js has hidden the page it is shown after the last style sheet only, for any
\* number of them.
THEOREM PagesHidden == FrontSpec => []HiddenUntilStyled
<1>1. PageInv => HiddenUntilStyled  BY DEF PageInv
<1> QED  BY <1>1, PagesHold, PTL

LEMMA InOrderStep ==
    ASSUME PageInv, RanBefore, InOrder(InitScripts), InOrder(TagScripts), [PageNext]_pageVars
    PROVE  RanBefore'
<1> DEFINE Before == loading # NoScript => config = "set" /\ {List[k] : k \in 1..(next - 1)} \subseteq ran
<1> SUFFICES ASSUME NoFailure' PROVE threw' = {} /\ Before'
  BY DEF RanBefore
<1>1. page' = page /\ List' = List
  BY DEF PageNext, LoadConfig, RunInit, StyleLoads, StyleFails, ReadyStateChange, ScriptLoads,
         ScriptFails, pageVars, List
<1>2. failed \subseteq failed'
  BY DEF PageNext, LoadConfig, RunInit, StyleLoads, StyleFails, ReadyStateChange, ScriptLoads,
         ScriptFails, pageVars
<1>3. NoFailure /\ threw = {} /\ Before  BY <1>1, <1>2 DEF NoFailure, RanBefore
<1>4. {List[k] : k \in 1..(1 - 1)} = {}  OBVIOUS
<1>5. CASE LoadConfig
  <2>1. threw' = {} /\ ran' = ran  BY <1>3, <1>5 DEF LoadConfig
  <2>2. CASE page = "init"
    <3>1. loading' = NoScript  BY <1>5, <2>2 DEF LoadConfig, PageInv, Stages
    <3> QED  BY <2>1, <3>1
  <2>3. CASE page = "tags"
    <3>1. config' = "set"  BY <1>1, <1>5, <2>3 DEF LoadConfig, NoFailure
    <3>2. next' = 1  BY <1>5, <2>3 DEF LoadConfig, Adds
    <3>3. {List'[k] : k \in 1..(next' - 1)} = {}  BY <3>2
    <3> QED  BY <2>1, <3>1, <3>3
  <2> QED  BY <2>2, <2>3, PageAssumption DEF PageInv, PageTypeOK
<1>6. CASE RunInit \/ StyleLoads \/ StyleFails
  BY <1>1, <1>3, <1>6 DEF RunInit, StyleLoads, StyleFails
<1>7. ASSUME NEW state, ReadyStateChange(state) PROVE threw' = {} /\ Before'
  <2>1. /\ \/ handler /\ Adds(1)
           \/ UNCHANGED <<next, loading>>
        /\ UNCHANGED <<config, ran, threw>>
    BY <1>7, ReadyStep
  <2>2. CASE handler /\ Adds(1)
    <3>1. next' = 1 /\ config' = "set"  BY <2>1, <2>2 DEF Adds, PageInv, Stages
    <3> QED  BY <1>1, <1>3, <1>4, <2>1, <3>1
  <2>3. CASE UNCHANGED <<next, loading>>  BY <1>1, <1>3, <2>1, <2>3
  <2> QED  BY <2>1, <2>2, <2>3
<1>8. CASE ScriptLoads
  <2>1. /\ loading \in Scripts /\ next \in 1..Len(List) /\ loading = List[next] /\ loading # NoScript
        /\ next' = next + 1 /\ config' = config
    BY <1>8, ScriptStep DEF ScriptLoads, Adds, AfterLoad
  <2>2. config = "set" /\ {List[k] : k \in 1..(next - 1)} \subseteq ran  BY <1>3, <2>1
  <2>3. Needs[loading] \subseteq {List[k] : k \in 1..(next - 1)}
    <3>1. InOrder(List)  BY DEF List
    <3> QED  BY <2>1, <3>1 DEF InOrder
  <2>4. Satisfied(loading)  BY <2>2, <2>3 DEF Satisfied
  <2>5. threw' = {} /\ ran' = ran \cup {loading}  BY <1>3, <1>8, <2>4 DEF ScriptLoads
  <2>6. \A k \in 1..(next' - 1) : k \in 1..(next - 1) \/ k = next
    BY <2>1, ListIsSeq
  <2>7. {List'[k] : k \in 1..(next' - 1)} \subseteq ran'
    BY <1>1, <2>1, <2>2, <2>5, <2>6
  <2> QED  BY <2>1, <2>2, <2>5, <2>7
<1>9. CASE ScriptFails
  <2>1. page = "init"  BY <1>1, <1>9 DEF ScriptFails, NoFailure
  <2> QED  BY <1>3, <1>9, <2>1 DEF ScriptFails
<1>10. CASE UNCHANGED pageVars  BY <1>1, <1>3, <1>10 DEF pageVars
<1> QED  BY <1>5, <1>6, <1>7, <1>8, <1>9, <1>10 DEF PageNext

\* If both lists name every script after those it needs, no script of the page of init.js
\* throws whatever fails to load, and on the other one only after a failure.
THEOREM NeedsInOrder ==
    ASSUME InOrder(InitScripts), InOrder(TagScripts)
    PROVE  FrontSpec => []InOrderOfNeed
<1>1. FrontInit => RanBefore  BY DEF FrontInit, PageInit, RanBefore
<1>2. PageInv /\ RanBefore /\ [FrontNext]_frontVars => RanBefore'  BY InOrderStep, FrontIsPage
<1>3. PageInv /\ RanBefore => InOrderOfNeed
  BY PageAssumption DEF RanBefore, NoFailure, InOrderOfNeed, PageInv, PageTypeOK
<1> QED  BY <1>1, <1>2, <1>3, PagesHold, PTL DEF FrontSpec

LEMMA StartedStep ==
    ASSUME PageInv, StartedBefore, Once(InitScripts), Once(TagScripts), [PageNext]_pageVars
    PROVE  StartedBefore'
<1>1. page' = page /\ List' = List
  BY DEF PageNext, LoadConfig, RunInit, StyleLoads, StyleFails, ReadyStateChange, ScriptLoads,
         ScriptFails, pageVars, List
<1>2. CASE LoadConfig
  <2>1. config = "unknown" /\ boots' = boots  BY <1>2 DEF LoadConfig
  <2>2. boots = 0  BY <2>1 DEF PageInv, Stages
  <2> QED  BY <2>1, <2>2 DEF StartedBefore
<1>3. CASE RunInit \/ StyleLoads \/ StyleFails
  BY <1>1, <1>3 DEF StartedBefore, RunInit, StyleLoads, StyleFails
<1>4. ASSUME NEW state, ReadyStateChange(state) PROVE StartedBefore'
  <2>1. /\ \/ ready = "loading" /\ handler
           \/ UNCHANGED <<next, loading>>
        /\ boots' = boots
    BY <1>4, ReadyStep
  <2>2. ready = "loading" /\ handler => boots = 0  BY DEF PageInv, Stages
  <2> QED  BY <1>1, <2>1, <2>2 DEF StartedBefore
<1>5. CASE ScriptLoads
  <2>1. /\ loading # NoScript /\ next \in 1..Len(List) /\ loading = List[next]
        /\ next' = next + 1
        /\ boots' = IF loading = App /\ Satisfied(loading) THEN boots + 1 ELSE boots
    BY <1>5, ScriptStep DEF ScriptLoads, Adds, AfterLoad
  <2>2. next \in Nat /\ next <= Len(List)  BY <2>1, ListIsSeq
  <2>3. CASE loading = App /\ Satisfied(loading)
    <3>1. Once(List)  BY DEF List
    <3>2. boots = 0
      <4>1. ASSUME NEW k \in 1..(next - 1), List[k] = App PROVE FALSE
        <5>1. k \in 1..Len(List) /\ k # next  BY <2>2, ListIsSeq
        <5> QED  BY <3>1, <4>1, <5>1, <2>1, <2>3 DEF Once
      <4> QED  BY <4>1, <2>1 DEF StartedBefore
    <3>3. boots' = 1  BY <2>1, <2>3, <3>2
    <3>4. next \in 1..(next' - 1) /\ List'[next] = App  BY <1>1, <2>1, <2>2, <2>3
    <3> QED  BY <3>3, <3>4 DEF StartedBefore
  <2>4. CASE ~(loading = App /\ Satisfied(loading))
    <3>1. boots' = boots  BY <2>1, <2>4
    <3>2. \A k \in 1..(next - 1) : k \in 1..(next' - 1)  BY <2>1, <2>2
    <3> QED  BY <3>1, <3>2, <1>1, <2>1 DEF StartedBefore
  <2> QED  BY <2>3, <2>4
<1>6. CASE ScriptFails
  <2>1. /\ loading # NoScript /\ next \in 1..Len(List) /\ boots' = boots
        /\ next' = next \/ next' = next + 1
    BY <1>6, ScriptStep DEF ScriptFails
  <2>2. \A k \in 1..(next - 1) : k \in 1..(next' - 1)  BY <2>1, ListIsSeq
  <2> QED  BY <1>1, <2>1, <2>2 DEF StartedBefore
<1>7. CASE UNCHANGED pageVars  BY <1>1, <1>7 DEF pageVars, StartedBefore
<1> QED  BY <1>2, <1>3, <1>4, <1>5, <1>6, <1>7 DEF PageNext

\* If the lists name the application once, it is started once: onreadystatechange is called
\* again, and adds nothing.
THEOREM StartedAtMostOnce ==
    ASSUME Once(InitScripts), Once(TagScripts)
    PROVE  FrontSpec => []StartedOnce
<1>1. FrontInit => StartedBefore  BY DEF FrontInit, PageInit, StartedBefore
<1>2. PageInv /\ StartedBefore /\ [FrontNext]_frontVars => StartedBefore'  BY StartedStep, FrontIsPage
<1>3. StartedBefore => StartedOnce  BY DEF StartedBefore, StartedOnce
<1> QED  BY <1>1, <1>2, <1>3, PagesHold, PTL DEF FrontSpec

-----------------------------------------------------------------------------
(* What a page comes to                                                    *)

\* The page is visible, or a style sheet that will show it is on its way or has failed.
Visible ==
    /\ ~handler => opacity = 1
    /\ handler => opacity = 1 \/ link \/ "style" \in failed

\* index.html has a tag in hand until there are no more.
TagsTaken ==
    /\ ready # "loading" => config # "unknown"
    /\ page = "tags" /\ config # "unknown" /\ loading = NoScript => next > Len(List)

\* So has init.js from the moment the document is parsed, unless something failed; and an
\* application that was before the script in hand has been started.
Reached ==
    failed \cap {"config", "script"} = {} =>
        /\ config # "missing"
        /\ page = "init" /\ ready # "loading" /\ loading = NoScript => next > Len(List)
        /\ \A k \in 1..(next - 1) : List[k] = App => boots > 0

LEMMA AddsAll ==
    ASSUME NEW n \in Nat \ {0}, Adds(n)
    PROVE  next' = n /\ (loading' = NoScript => next' > Len(List))
<1>1. n \in 1..Len(List) => List[n] # NoScript
  BY ListIsSeq, PageAssumption
<1> QED
  BY <1>1, ListIsSeq DEF Adds

LEMMA TagsStep ==
    ASSUME PageInv, TagsTaken, [PageNext]_pageVars
    PROVE  TagsTaken'
<1>1. page' = page /\ List' = List
  BY DEF PageNext, LoadConfig, RunInit, StyleLoads, StyleFails, ReadyStateChange, ScriptLoads,
         ScriptFails, pageVars, List
<1>2. CASE LoadConfig
  BY <1>1, <1>2, AddsAll DEF LoadConfig, TagsTaken
<1>3. CASE RunInit \/ StyleLoads \/ StyleFails
  BY <1>1, <1>3 DEF RunInit, StyleLoads, StyleFails, TagsTaken
<1>4. ASSUME NEW state, ReadyStateChange(state) PROVE TagsTaken'
  <2>1. UNCHANGED <<next, loading>> \/ (loading' = NoScript => next' > Len(List))
    BY <1>4, ReadyStep, AddsAll
  <2>2. config' = config /\ config # "unknown"
    BY <1>4 DEF ReadyStateChange, TagsTaken
  <2> QED
    BY <1>1, <2>1, <2>2 DEF TagsTaken
<1>5. CASE ScriptLoads \/ ScriptFails
  <2>1. next \in Nat /\ UNCHANGED <<config, ready>>
    BY <1>5 DEF ScriptLoads, ScriptFails, PageInv, PageTypeOK
  <2>2. page = "tags" => (loading' = NoScript => next' > Len(List))
    BY <1>5, <2>1, AddsAll DEF ScriptLoads, ScriptFails, AfterLoad, PageInv, Stages
  <2> QED
    BY <1>1, <2>1, <2>2 DEF TagsTaken
<1>6. CASE UNCHANGED pageVars
  BY <1>1, <1>6 DEF pageVars, TagsTaken
<1> QED
  BY <1>2, <1>3, <1>4, <1>5, <1>6 DEF PageNext

LEMMA VisibleStep ==
    ASSUME PageInv, Visible, [PageNext]_pageVars
    PROVE  Visible'
<1>1. CASE RunInit \/ StyleLoads
  <2>1. handler' /\ \E n : Shown(n)
    BY <1>1 DEF RunInit, StyleLoads, PageInv, Stages
  <2>2. opacity' = 1 \/ link'
    BY <2>1 DEF Shown
  <2> QED
    BY <2>1, <2>2 DEF Visible
<1>2. CASE StyleFails
  BY <1>2 DEF StyleFails, Visible
<1>3. CASE LoadConfig \/ ScriptLoads \/ ScriptFails
  BY <1>3 DEF LoadConfig, ScriptLoads, ScriptFails, Visible
<1>4. ASSUME NEW state, ReadyStateChange(state) PROVE Visible'
  BY <1>4 DEF ReadyStateChange, Visible
<1>5. CASE UNCHANGED pageVars
  BY <1>5 DEF pageVars, Visible
<1> QED
  BY <1>1, <1>2, <1>3, <1>4, <1>5 DEF PageNext

LEMMA ReachedStep ==
    ASSUME PageInv, Reached, RanBefore', StartedBefore, [PageNext]_pageVars
    PROVE  Reached'
<1>1. page' = page /\ List' = List /\ failed \subseteq failed'
  BY DEF PageNext, LoadConfig, RunInit, StyleLoads, StyleFails, ReadyStateChange, ScriptLoads,
         ScriptFails, pageVars, List
<1>2. 1..(1 - 1) = {}
  OBVIOUS
<1>3. CASE LoadConfig
  <2>1. /\ UNCHANGED <<ready, boots>>
        /\ config' = "set" \/ (config' = "missing" /\ "config" \in failed')
        /\ \/ page = "tags" /\ next' = 1 /\ (loading' = NoScript => next' > Len(List))
           \/ page # "tags" /\ UNCHANGED <<next, loading>>
    BY <1>3, AddsAll DEF LoadConfig
  <2> QED
    BY <1>1, <1>2, <2>1 DEF Reached
<1>4. CASE RunInit \/ StyleLoads \/ StyleFails
  BY <1>1, <1>4 DEF RunInit, StyleLoads, StyleFails, Reached
\* init.js adds its first script when the document has been parsed.
<1>5. ASSUME NEW state, ReadyStateChange(state) PROVE Reached'
  <2>1. /\ \/ config # "unknown" /\ next' = 1 /\ (loading' = NoScript => next' > Len(List))
           \/ UNCHANGED <<next, loading>>
        /\ UNCHANGED <<config, boots, failed>>
    BY <1>5, ReadyStep, AddsAll
  <2>2. ASSUME UNCHANGED <<next, loading>>, page = "init", ready = "loading",
               failed \cap {"config", "script"} = {}, loading = NoScript
        PROVE  next > Len(List)
    <3>1. state = "interactive" /\ (handler \/ config = "missing")
      BY <1>5, <2>2 DEF ReadyStateChange, Parsed
    <3>2. handler
      BY <2>2, <3>1 DEF Reached
    <3>3. Adds(1)
      BY <1>5, <3>1, <3>2 DEF ReadyStateChange, States
    <3> QED
      BY <2>2, <3>3, AddsAll
  <2> QED
    BY <1>1, <1>2, <2>1, <2>2 DEF Reached
<1>6. CASE ScriptLoads
  <2>1. /\ loading \in Scripts /\ next \in 1..Len(List) /\ loading = List[next]
        /\ UNCHANGED <<page, config, ready, failed>>
    BY <1>6, ScriptStep DEF ScriptLoads
  <2>2. next' = next + 1 /\ (loading' = NoScript => next' > Len(List))
    BY <1>6, <2>1, AddsAll DEF ScriptLoads, AfterLoad
  <2>3. ASSUME failed \cap {"config", "script"} = {}, NEW k \in 1..(next' - 1), List[k] = App
        PROVE  boots' > 0
    <3>1. threw' = {}
      BY <1>1, <2>1, <2>3 DEF RanBefore, NoFailure
    <3>2. Satisfied(loading)
      BY <1>6, <3>1 DEF ScriptLoads
    <3>3. boots \in {0, 1} /\ boots' = IF loading = App THEN boots + 1 ELSE boots
      BY <1>6, <3>2 DEF ScriptLoads, StartedBefore
    <3>4. k \in 1..(next - 1) \/ k = next
      BY <2>1, <2>2
    <3> QED
      BY <2>1, <2>3, <3>3, <3>4 DEF Reached
  <2> QED
    BY <1>1, <2>1, <2>2, <2>3 DEF Reached
<1>7. CASE ScriptFails
  BY <1>1, <1>7 DEF ScriptFails, Reached
<1>8. CASE UNCHANGED pageVars
  BY <1>1, <1>8 DEF pageVars, Reached
<1> QED
  BY <1>3, <1>4, <1>5, <1>6, <1>7, <1>8 DEF PageNext

LEMMA TagsHold == FrontSpec => []TagsTaken
<1>1. FrontInit => TagsTaken
  BY DEF FrontInit, PageInit, TagsTaken
<1>2. PageInv /\ TagsTaken /\ [FrontNext]_frontVars => TagsTaken'
  BY TagsStep, FrontIsPage
<1> QED
  BY <1>1, <1>2, PagesHold, PTL DEF FrontSpec

\* Until a page has come to its end something is on its way, whatever has failed: it is
\* never left waiting for nothing.
THEOREM PagesGoOn == FrontSpec => []PageGoesOn
<1>1. PageInv /\ TagsTaken => PageGoesOn
  BY PageAssumption DEF PageInv, PageTypeOK, TagsTaken, PageGoesOn, AtRest, Parsed
<1> QED
  BY <1>1, PagesHold, TagsHold, PTL

\* If the lists name the application once, after what it needs, a page that has come to
\* its end has started it and is visible, unless something that could not be done without
\* failed to load: what Starts and Appears need besides progress.
THEOREM PagesRestStarted ==
    ASSUME InOrder(InitScripts), InOrder(TagScripts), Once(InitScripts), Once(TagScripts),
           \E n \in 1..Len(InitScripts) : InitScripts[n] = App,
           \E n \in 1..Len(TagScripts) : TagScripts[n] = App
    PROVE  FrontSpec => []RestsStarted
<1>1. FrontInit => RanBefore /\ StartedBefore /\ Visible /\ Reached
  BY DEF FrontInit, PageInit, RanBefore, StartedBefore, Visible, Reached
<1>2. PageInv /\ RanBefore /\ StartedBefore /\ Visible /\ Reached /\ [FrontNext]_frontVars
        => (RanBefore /\ StartedBefore /\ Visible /\ Reached)'
  BY InOrderStep, StartedStep, VisibleStep, ReachedStep, FrontIsPage
<1>3. PageInv /\ TagsTaken /\ StartedBefore /\ Visible /\ Reached => RestsStarted
  <2> SUFFICES ASSUME PageInv, TagsTaken, StartedBefore, Visible, Reached, AtRest
               PROVE  /\ boots = 1 \/ failed \cap {"config", "script"} # {}
                      /\ opacity = 1 \/ failed \cap {"config", "style"} # {}
    BY DEF RestsStarted
  <2>1. opacity = 1 \/ failed \cap {"config", "style"} # {}
    BY DEF Visible, AtRest
  <2>2. ASSUME failed \cap {"config", "script"} = {} PROVE boots = 1
    <3>1. PICK n \in 1..Len(List) : List[n] = App
      BY DEF List
    <3>2. page = "init" \/ page = "tags"
      BY PageAssumption DEF PageInv, PageTypeOK
    <3>3. next > Len(List) /\ next \in Nat
      BY <2>2, <3>2 DEF TagsTaken, Reached, AtRest, PageInv, PageTypeOK
    <3>4. n \in 1..(next - 1)
      BY <3>1, <3>3, ListIsSeq
    <3> QED
      BY <2>2, <3>1, <3>4 DEF Reached, StartedBefore
  <2> QED
    BY <2>1, <2>2
<1> QED
  BY <1>1, <1>2, <1>3, PagesHold, TagsHold, PTL DEF FrontSpec
=============================================================================
