----------------------------- MODULE WebSession -----------------------------
(***************************************************************************)
(* One tab of the browser: the router of the front end (src/router/        *)
(* index.js in static/js/app.*.js), its requests for the menus and, as     *)
(* logins and logouts of thread Tab, those of the tab; the other threads   *)
(* serve other devices.  The fields of "tab" are what the scripts read and *)
(* write: a callback runs to its end, so an operator takes the tab to what *)
(* it is after the callback.  The pages are "login" and "main", which      *)
(* stands for the children of the main route; every view loads.            *)
(***************************************************************************)
EXTENDS LoginTokens

CONSTANTS
    Tab,      \* the thread that serves the logins and logouts of the tab
    Slots,    \* bound: requests for the menus under way at the same time
    MaxMoves, \* bound: how often the user acts
    Offline   \* TRUE: a request for the menus may fail

\* Requests for the menus, and what "tab" may be.
Requests ==
    [token : Tokens \cup {None}, stale : BOOLEAN, menus : Users \cup {None},
     answer : {"none", "menus", "refused", "error"}]

Tabs ==
    [cookie : Tokens \cup {None}, added : BOOLEAN, menus : Users \cup {None},
     current : {"start", "login", "main"}, pending : {None, "login", "main"},
     loads : BOOLEAN, asked : [Slots -> {None} \cup Requests]]

ASSUME TabAssumption ==
    /\ Tab \in Threads /\ Slots # {} /\ MaxMoves \in Nat /\ Offline \in BOOLEAN
    /\ None \notin Requests /\ None \notin {"start", "login", "main"}

VARIABLES
    tab,     \* cookie: the token, or None
             \* added: router.options.isAddDynamicMenuRoutes
             \* menus: whose menus are in the session storage, or None
             \* current: the page shown; "start" before the first
             \* pending: the page of the pending navigation, or None
             \* loads: its guards have passed, its view is being loaded
             \* asked: per slot, a request for the menus or None
    posted,  \* the tab waits for the answer of a login or logout
    moves,   \* bounds the acts of the user
    orderly  \* history: since the page was opened the user logged out before logging
             \* in, and no menus were on their way when a login or logout was answered

webVars == <<row, owner, thread, revoked, tab, posted, moves, orderly>>

WebInit ==
    /\ TokenInit
    /\ tab = [cookie |-> None, added |-> FALSE, menus |-> None, current |-> "start",
              pending |-> None, loads |-> FALSE, asked |-> [s \in Slots |-> None]]
    /\ posted = FALSE
    /\ moves = 0
    /\ orderly = TRUE

-----------------------------------------------------------------------------
(* The router                                                              *)

\* (Operators named Bad... are faulty forms of the one after them; no
\* specification uses them.  They are there to see the properties fail.)
BadClearLoginInfo(b) == [b EXCEPT !.cookie = None]

ClearLoginInfo(b) == [b EXCEPT !.cookie = None, !.added = FALSE]

\* A new navigation: the callbacks of the one before are stale.
Begin(b, page) ==
    [b EXCEPT !.pending = page, !.loads = FALSE,
              !.asked = [s \in Slots |-> IF @[s] = None THEN None ELSE [@[s] EXCEPT !.stale = TRUE]]]

Load(b) == [b EXCEPT !.loads = TRUE]

GoLogin(b) == IF b.current = "login" THEN b ELSE Load(Begin(b, "login"))

BadBeforeEnter(b) == Load(b)

\* Without a token, beforeEnter of the main route calls next({name: 'login'}) and then
\* next(): if the navigation to the login page is none, main is entered all the same.
BeforeEnter(b) ==
    IF b.cookie # None THEN Load(b)
    ELSE IF b.current = "login" THEN Load(ClearLoginInfo(b)) ELSE GoLogin(ClearLoginInfo(b))

Free(b) == {s \in Slots : b.asked[s] = None}

Ask(b, s) ==
    [b EXCEPT !.asked[s] = [token |-> b.cookie, answer |-> "none", menus |-> None, stale |-> FALSE]]

\* beforeEach asks for the menus unless they were added.
GoMain(b) ==
    IF b.current = "main" THEN b
    ELSE IF b.added THEN BeforeEnter(Begin(b, "main"))
    ELSE Ask(Begin(b, "main"), CHOOSE s \in Free(b) : TRUE)

Go(b, page) == IF page = "login" THEN GoLogin(b) ELSE GoMain(b)

Done(b, s) == [b EXCEPT !.asked[s] = None]

WithMenus(b, s) == [b EXCEPT !.menus = b.asked[s].menus, !.added = TRUE]

BadAfterError(b) == b

\* catch: router.push({name: 'login'})
AfterError(b) == GoLogin(b)

\* beforeEach when the answer comes: next({...to, replace: true}) navigates again even
\* if another navigation has begun, next() goes on only with the pending one.
Refused(b, s) ==
    LET c == Done([b EXCEPT !.menus = None], s) IN
    IF b.asked[s].stale THEN c ELSE BeforeEnter(c)

WithAnswer(b, s) ==
    IF b.asked[s].answer = "menus" THEN GoMain(Done(WithMenus(b, s), s))
    ELSE IF b.asked[s].answer = "refused" THEN Refused(b, s)
    ELSE AfterError(Done(b, s))

-----------------------------------------------------------------------------
(* The user.  The login page and the button that logs out are not in the   *)
(* repository; they set and send the cookie that httpRequest.js reads.     *)

Moves == moves < MaxMoves /\ moves' = moves + 1

\* The page is opened or loaded again: its scripts start anew, answers get lost.
Open(page) ==
    /\ Moves
    /\ tab' = Go([tab EXCEPT !.added = FALSE, !.current = "start", !.pending = None,
                             !.loads = FALSE, !.asked = [s \in Slots |-> None]], page)
    /\ posted' = FALSE
    /\ orderly' = TRUE
    /\ UNCHANGED <<row, owner, thread, revoked>>

\* The user goes to another page, with a link or by its address.
Visit(page) ==
    /\ tab.current # "start" /\ page # tab.current
    /\ page = "main" => tab.added \/ Free(tab) # {}
    /\ Moves
    /\ tab' = Go(tab, page)
    /\ UNCHANGED <<row, owner, thread, revoked, posted, orderly>>

SubmitLogin(u) ==
    /\ tab.current = "login" /\ ~posted
    /\ Moves
    /\ CreateToken(Tab, u)
    /\ posted' = TRUE
    /\ UNCHANGED <<tab, orderly>>

SubmitLogout ==
    /\ tab.current = "main" /\ ~posted /\ tab.cookie # None
    /\ Moves
    /\ Logout(Tab, tab.cookie)
    /\ posted' = TRUE
    /\ UNCHANGED <<tab, orderly>>

\* The answer to the login: the token becomes the cookie and main is entered. To the
\* logout: what the tab knows of the login is cleared. No other device asked, and an
\* answer that nobody waits for is dropped.
Answered ==
    LET answer == thread[Tab] IN
    /\ Answer(Tab)
    /\ posted' = FALSE
    /\ IF posted /\ answer.op = "loggedIn"
       THEN /\ tab.added \/ Free(tab) # {}
            /\ tab' = GoMain([tab EXCEPT !.cookie = answer.token])
            /\ orderly' = (orderly /\ tab.cookie = None /\ Free(tab) = Slots)
       ELSE IF posted /\ answer.op = "loggedOut"
       THEN /\ tab' = GoLogin(ClearLoginInfo(tab))
            /\ orderly' = (orderly /\ Free(tab) = Slots)
       ELSE UNCHANGED <<tab, orderly>>
    /\ UNCHANGED moves

-----------------------------------------------------------------------------
(* The requests for the menus                                              *)

\* SysMenuController.nav: the menus of the user whose token it is, or code 1.
Nav(s) ==
    /\ tab.asked[s] # None /\ tab.asked[s].answer = "none"
    /\ LET users == {u \in Users : AcceptedFor(tab.asked[s].token, u)} IN
       \/ \E u \in users : tab' = [tab EXCEPT !.asked[s].answer = "menus", !.asked[s].menus = u]
       \/ users = {} /\ tab' = [tab EXCEPT !.asked[s].answer = "refused"]
       \/ Offline /\ tab' = [tab EXCEPT !.asked[s].answer = "error"]
    /\ UNCHANGED <<row, owner, thread, revoked, posted, moves, orderly>>

\* Answers come in any order.
MenusArrive(s) ==
    /\ tab.asked[s] # None /\ tab.asked[s].answer # "none"
    /\ tab' = WithAnswer(tab, s)
    /\ UNCHANGED <<row, owner, thread, revoked, posted, moves, orderly>>

\* The view is there: the navigation ends.
Confirm ==
    /\ tab.pending # None /\ tab.loads
    /\ tab' = [tab EXCEPT !.current = tab.pending, !.pending = None, !.loads = FALSE]
    /\ UNCHANGED <<row, owner, thread, revoked, posted, moves, orderly>>

\* The server and the other devices.
Elsewhere ==
    /\ \/ Save(Tab) \/ ReplaceToken(Tab)
       \/ \E u \in Users : Expire(u)
       \/ \E r \in Threads \ {Tab} :
             \/ \E u \in Users : CreateToken(r, u)
             \/ \E t \in Tokens : owner[t] # None /\ Logout(r, t)
             \/ Save(r) \/ ReplaceToken(r) \/ Answer(r)
    /\ UNCHANGED <<tab, posted, moves, orderly>>

Page == Confirm \/ \E s \in Slots : Nav(s) \/ MenusArrive(s)

WebNext ==
    \/ \E page \in {"login", "main"} : Open(page) \/ Visit(page)
    \/ \E u \in Users : SubmitLogin(u)
    \/ SubmitLogout \/ Answered
    \/ Page
    \/ Elsewhere

WebSpec == WebInit /\ [][WebNext]_webVars

\* A request for the menus is answered or runs into its timeout of 30 s, the answers
\* of the server are taken in and views load; the user need not act.
FairWebSpec ==
    /\ WebSpec
    /\ WF_webVars(Confirm)
    /\ \A s \in Slots : WF_webVars(Nav(s)) /\ WF_webVars(MenusArrive(s))

-----------------------------------------------------------------------------
WebTypeOK ==
    /\ TokenTypeOK
    /\ tab \in Tabs
    /\ posted \in BOOLEAN /\ moves \in 0..MaxMoves /\ orderly \in BOOLEAN

\* The tab never shows the menus of another user than the one whose token it sends,
\* across logouts, logins as another user, reloads and late answers (a late refusal
\* leaves it without any). It may when the user logs in without logging out, or logs in
\* or out while menus asked for before are on their way.
MenusAreOwn ==
    orderly /\ tab.added /\ tab.cookie # None => tab.menus \in {None, owner[tab.cookie]}

\* A page that is opened without a token ends up on the login page, although beforeEnter
\* calls next() once more after redirecting there: main is entered without a token from
\* the login page only.
EnteredLoggedIn ==
    [][tab.current = "start" /\ tab'.current = "main" => tab.cookie # None]_webVars

\* An opened page that has shown nothing yet has a view on its way, or the menus that its
\* navigation waits for.
NavigationGoesOn ==
    tab.current = "start" /\ moves > 0 =>
        /\ tab.pending # None
        /\ tab.loads \/ \E s \in Slots : tab.asked[s] # None /\ ~tab.asked[s].stale

\* An opened page shows the login page or main, whatever the menus request comes to:
\* the navigations it causes come to an end.
PageShown == tab.pending # None ~> tab.current # "start"
=============================================================================
