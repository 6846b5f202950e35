----------------------------- MODULE LoginTokens -----------------------------
(***************************************************************************)
(* The login tokens of gtk-project-bsp: SysUserTokenServiceImpl keeps one  *)
(* row per user with a token and its expiry, OAuth2Realm accepts a token   *)
(* that is in a row and has not expired.  Requests run concurrently and    *)
(* createToken reads the row before it writes.  The checks of a login      *)
(* before createToken (captcha, password, locked account) are left out.    *)
(***************************************************************************)
EXTENDS Naturals

CONSTANTS
    None,
    Users,
    Threads,   \* of the server, each with at most one login or logout at a time
    MaxTokens  \* bound: tokens generated

Tokens == 1..MaxTokens

Rows == [token : Tokens, expired : BOOLEAN]

ASSUME TokenAssumption ==
    /\ None \notin Users /\ None \notin Nat /\ None \notin Rows
    /\ MaxTokens \in Nat

VARIABLES
    row,     \* of sys_user_token: None or a token and whether it has expired
    owner,   \* history: for whom a token was generated; None: not yet generated
    thread,  \* what each thread does
    revoked  \* history: tokens that were accepted and then were not

tokenVars == <<row, owner, thread, revoked>>

Idle == [op |-> "idle", user |-> None, token |-> None, found |-> FALSE]

TokenInit ==
    /\ row = [u \in Users |-> None]
    /\ owner = [t \in Tokens |-> None]
    /\ thread = [r \in Threads |-> Idle]
    /\ revoked = {}

\* doGetAuthenticationInfo: the user that t stands for, if it is accepted.
AcceptedFor(t, u) == row[u] # None /\ row[u].token = t /\ ~row[u].expired

Accepted(t) == \E u \in Users : AcceptedFor(t, u)

Revoked == revoked' = revoked \cup {t \in Tokens : Accepted(t) /\ ~Accepted(t)'}

\* TokenGenerator.generateValue: a new token. They are numbered as they are generated.
Generate(t, u) ==
    /\ \A s \in Tokens : s < t <=> owner[s] # None
    /\ owner' = [owner EXCEPT ![t] = u]

Does(r, op, u, t, found) ==
    thread' = [thread EXCEPT ![r] = [op |-> op, user |-> u, token |-> t, found |-> found]]

-----------------------------------------------------------------------------
\* createToken generates a token and reads the row.
CreateToken(r, u) ==
    /\ thread[r].op = "idle"
    /\ \E t \in Tokens : Generate(t, u) /\ Does(r, "login", u, t, row[u] # None)
    /\ UNCHANGED <<row, revoked>>

\* (Operators named Bad... are faulty forms of the one after them; no
\* specification uses them.  They are there to see the properties fail.)
BadWritten(r) ==
    LET old == row[thread[r].user] IN
    [token |-> IF old = None THEN thread[r].token ELSE old.token, expired |-> FALSE]

\* setToken, setExpireTime: what createToken writes.
Written(r) == [token |-> thread[r].token, expired |-> FALSE]

\* save fails if another login of the user has inserted a row since; a row is never
\* deleted, updateById finds it.
Save(r) ==
    LET u == thread[r].user IN
    /\ thread[r].op = "login"
    /\ IF ~thread[r].found /\ row[u] # None
       THEN Does(r, "failed", u, None, FALSE) /\ UNCHANGED <<row, revoked>>
       ELSE /\ row' = [row EXCEPT ![u] = Written(r)]
            /\ Does(r, "loggedIn", u, thread[r].token, FALSE)
            /\ Revoked
    /\ UNCHANGED owner

\* The filter lets a logout with an accepted token pass ...
Logout(r, t) ==
    /\ thread[r].op = "idle"
    /\ IF Accepted(t)
       THEN \E u \in Users : AcceptedFor(t, u) /\ Does(r, "logout", u, t, TRUE)
       ELSE Does(r, "failed", None, None, FALSE)
    /\ UNCHANGED <<row, owner, revoked>>

BadReplaced(u, t) == row[u]

\* updateById leaves a field that is null as it is: here the expiry.
Replaced(u, t) == [row[u] EXCEPT !.token = t]

\* ... which then replaces the token of the user by one that nobody is told.
ReplaceToken(r) ==
    LET u == thread[r].user IN
    /\ thread[r].op = "logout"
    /\ \E t \in Tokens : Generate(t, u) /\ row' = [row EXCEPT ![u] = Replaced(u, t)]
    /\ Does(r, "loggedOut", u, thread[r].token, FALSE)
    /\ Revoked

\* The answer is sent.
Answer(r) ==
    /\ thread[r].op \in {"loggedIn", "loggedOut", "failed"}
    /\ thread' = [thread EXCEPT ![r] = Idle]
    /\ UNCHANGED <<row, owner, revoked>>

\* The clock passes the expiry time of a row.
Expire(u) ==
    /\ row[u] # None /\ ~row[u].expired
    /\ row' = [row EXCEPT ![u].expired = TRUE]
    /\ Revoked
    /\ UNCHANGED <<owner, thread>>

TokenNext ==
    \/ \E r \in Threads :
          \/ \E u \in Users : CreateToken(r, u)
          \/ \E t \in Tokens : owner[t] # None /\ Logout(r, t)
          \/ Save(r) \/ ReplaceToken(r) \/ Answer(r)
    \/ \E u \in Users : Expire(u)

TokenSpec == TokenInit /\ [][TokenNext]_tokenVars

-----------------------------------------------------------------------------
TokenTypeOK ==
    /\ row \in [Users -> {None} \cup Rows]
    /\ owner \in [Tokens -> Users \cup {None}]
    /\ thread \in [Threads -> [op : {"idle", "login", "loggedIn", "logout", "loggedOut", "failed"},
                               user : Users \cup {None}, token : Tokens \cup {None},
                               found : BOOLEAN]]
    /\ revoked \subseteq Tokens

\* A token that was replaced by a login elsewhere, logged out or expired is never
\* accepted again, whatever logins and logouts are under way.
RevokedStaysRevoked == \A t \in revoked : ~Accepted(t)

\* The token that asked for a logout is not accepted when the logout is answered, also
\* if another login or logout of the user came between its check and its update.
LogoutRevokes == \A r \in Threads : thread[r].op = "loggedOut" => ~Accepted(thread[r].token)
=============================================================================
