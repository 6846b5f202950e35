----------------------------- MODULE ChunkLoader -----------------------------
(***************************************************************************)
(* The views of the front end are loaded when they are first needed, each  *)
(* from one or more chunks (static/js/app.*.js, "views lazy").  The        *)
(* webpack runtime of static/js/manifest.*.js keeps one entry per chunk:   *)
(* nothing, 0 when it is loaded, or the promise of the attempt that is     *)
(* loading it.  A script may arrive after its attempt has been given up.   *)
(***************************************************************************)
EXTENDS Naturals

CONSTANTS
    None,         \* undefined
    Chunks,
    Views,
    ChunksOf,     \* for every view its chunks; none if the bundle does not have it
    MaxAttempts,  \* bound: how often a chunk is requested
    ChunkFaults   \* a subset of {"fail", "slow"}: scripts that end without registering
                  \* their chunk; scripts that take longer than the timer of 120 s

ASSUME ChunkAssumption ==
    /\ ChunksOf \in [Views -> SUBSET Chunks]
    /\ MaxAttempts \in Nat
    /\ None \notin Nat
    /\ ChunkFaults \subseteq {"fail", "slow"}

Attempts == Chunks \X (1..MaxAttempts)

VARIABLES
    installed,  \* installedChunks: None, 0, or the number of the current attempt
    tried,      \* attempts made so far
    fetching,   \* attempts whose script has neither run nor failed
    live,       \* attempts whose timer runs and whose onload and onerror are set
    fulfilled,  \* attempts whose promise is fulfilled
    rejected,   \* attempts whose promise is rejected
    modules,    \* chunks whose modules are registered
    view,       \* what has become of the last request for each view
    waits       \* the promises that Promise.all of this request waits for

chunkVars == <<installed, tried, fetching, live, fulfilled, rejected, modules, view, waits>>

Pending(a) == a[2] <= tried[a[1]] /\ a \notin fulfilled \cup rejected

ChunkInit ==
    /\ installed = [c \in Chunks |-> None]
    /\ tried = [c \in Chunks |-> 0]
    /\ fetching = {} /\ live = {}
    /\ fulfilled = {} /\ rejected = {}
    /\ modules = {}
    /\ view = [v \in Views |-> "idle"]
    /\ waits = [v \in Views |-> {}]

-----------------------------------------------------------------------------
(* webpackAsyncContext and requireEnsure                                   *)

\* Of the chunks of v, those that are neither loaded nor being loaded.
New(v) == {c \in ChunksOf[v] : installed[c] = None}

\* (Operators named Bad... are faulty forms of the one after them; no
\* specification uses them.  They are there to see the properties fail.)
BadAwaited(v) == {<<c, installed'[c]>> : c \in New(v)}

\* The promises that the chunks of v give: of the chunks not yet loaded.
Awaited(v) == {<<c, installed'[c]>> : c \in {d \in ChunksOf[v] : installed'[d] # 0}}

\* The view is requested, for the first time or after a failure: requireEnsure for
\* each of its chunks makes an attempt, joins one or finds the chunk loaded.
RequireEnsure(v) ==
    /\ view[v] \in {"idle", "failed"} /\ ChunksOf[v] # {}
    /\ \A c \in New(v) : tried[c] < MaxAttempts
    /\ tried' = [c \in Chunks |-> IF c \in New(v) THEN tried[c] + 1 ELSE tried[c]]
    /\ installed' = [c \in Chunks |-> IF c \in New(v) THEN tried'[c] ELSE installed[c]]
    /\ LET made == {<<c, tried'[c]>> : c \in New(v)} IN
       fetching' = fetching \cup made /\ live' = live \cup made
    /\ waits' = [waits EXCEPT ![v] = Awaited(v)]
    /\ view' = [view EXCEPT ![v] = "waiting"]
    /\ UNCHANGED <<fulfilled, rejected, modules>>

\* A menu whose page the bundle does not have: the promise is rejected at once.
CannotFind(v) ==
    /\ view[v] = "idle" /\ ChunksOf[v] = {}
    /\ view' = [view EXCEPT ![v] = "failed"]
    /\ UNCHANGED <<installed, tried, fetching, live, fulfilled, rejected, modules, waits>>

\* Promise.all is fulfilled; the module of the view is required, which throws unless
\* the modules of its chunks are registered.
Resolve(v) ==
    /\ view[v] = "waiting" /\ waits[v] \subseteq fulfilled
    /\ view' = [view EXCEPT ![v] = IF ChunksOf[v] \subseteq modules THEN "shown" ELSE "threw"]
    /\ UNCHANGED <<installed, tried, fetching, live, fulfilled, rejected, modules, waits>>

Reject(v) ==
    /\ view[v] = "waiting" /\ waits[v] \cap rejected # {}
    /\ view' = [view EXCEPT ![v] = "failed"]
    /\ UNCHANGED <<installed, tried, fetching, live, fulfilled, rejected, modules, waits>>

-----------------------------------------------------------------------------
(* webpackJsonp, called by the script of a chunk, and onScriptComplete     *)

BadResolved(a) == {a}

\* The promise that webpackJsonp resolves is that of the current attempt, whose
\* script need not be the one that calls.
Resolved(a) == {b \in Attempts : b[1] = a[1] /\ installed[b[1]] = b[2]}

\* A script runs and, if it is not given up, its onload finds the chunk loaded.
WebpackJsonp(a) ==
    /\ a \in fetching
    /\ "slow" \in ChunkFaults \/ a \in live
    /\ fetching' = fetching \ {a}
    /\ fulfilled' = fulfilled \cup Resolved(a)
    /\ installed' = [installed EXCEPT ![a[1]] = 0]
    /\ modules' = modules \cup {a[1]}
    /\ live' = live \ {a}
    /\ UNCHANGED <<tried, rejected, view, waits>>

BadForgotten(c) == None

\* onScriptComplete forgets the attempt, unless the chunk is loaded by now.
Forgotten(c) == IF installed[c] = 0 THEN 0 ELSE None

\* The handlers of a are removed; if the chunk is not loaded the current promise is
\* rejected.
OnScriptComplete(a) ==
    /\ live' = live \ {a}
    /\ rejected' = rejected \cup {b \in Attempts : b[1] = a[1] /\ installed[b[1]] = b[2]}
    /\ installed' = [installed EXCEPT ![a[1]] = Forgotten(a[1])]
    /\ UNCHANGED <<tried, fulfilled, modules, view, waits>>

\* onerror, or onload of a script that has not registered the chunk.
ScriptEnds(a) ==
    /\ a \in fetching /\ "fail" \in ChunkFaults
    /\ fetching' = fetching \ {a}
    /\ IF a \in live
       THEN OnScriptComplete(a)
       ELSE UNCHANGED <<installed, tried, live, fulfilled, rejected, modules, view, waits>>

\* The timer; the script is not removed.
TimesOut(a) ==
    /\ a \in live /\ "slow" \in ChunkFaults
    /\ OnScriptComplete(a)
    /\ UNCHANGED fetching

ChunkNext ==
    \/ \E v \in Views : RequireEnsure(v) \/ CannotFind(v) \/ Resolve(v) \/ Reject(v)
    \/ \E a \in Attempts : WebpackJsonp(a) \/ ScriptEnds(a) \/ TimesOut(a)

ChunkSpec == ChunkInit /\ [][ChunkNext]_chunkVars

\* Promises run their callbacks, and a script that has not come by then is timed out.
ChunkFairness ==
    /\ \A v \in Views : WF_chunkVars(Resolve(v) \/ Reject(v))
    /\ \A a \in Attempts : WF_chunkVars(a \in live /\ (WebpackJsonp(a) \/ ScriptEnds(a) \/ TimesOut(a)))

-----------------------------------------------------------------------------
ChunkTypeOK ==
    /\ installed \in [Chunks -> {None} \cup 0..MaxAttempts]
    /\ tried \in [Chunks -> 0..MaxAttempts]
    /\ fetching \subseteq Attempts /\ live \subseteq Attempts
    /\ fulfilled \subseteq Attempts /\ rejected \subseteq Attempts
    /\ modules \subseteq Chunks
    /\ view \in [Views -> {"idle", "waiting", "shown", "failed", "threw"}]
    /\ waits \in [Views -> SUBSET Attempts]

\* A promise that is not settled is the one in installedChunks and its timer runs, so
\* that somebody will settle it: late scripts, timers of given-up attempts and new
\* attempts do not orphan each other's promises.  None is settled twice.
NoOrphan ==
    /\ \A a \in Attempts : Pending(a) => installed[a[1]] = a[2] /\ a \in live
    /\ fulfilled \cap rejected = {}

\* A view whose promises are fulfilled finds the modules of all its chunks.
NothingMissing == \A v \in Views : view[v] # "threw"

\* A loaded chunk stays loaded, whatever timer or script of an older attempt comes.
StaysLoaded == [][\A c \in Chunks : installed[c] = 0 => installed'[c] = 0]_chunkVars

\* Views that share a chunk that is being loaded share the attempt: a chunk is not
\* requested again before the first request is given up.
OneAttempt == \A a, b \in live : a[1] = b[1] => a = b

\* A view that waits can go on, or waits for an attempt whose timer runs: late scripts and
\* attempts that were given up leave no view waiting for a promise that nobody settles.
ViewsGoOn ==
    \A v \in Views : view[v] = "waiting" =>
        \/ waits[v] \subseteq fulfilled \/ waits[v] \cap rejected # {}
        \/ \E a \in waits[v] : a \in live

\* Every request for a view ends: it is shown or it fails.
ViewsEnd == \A v \in Views : (view[v] = "waiting") ~> (view[v] # "waiting")
=============================================================================
