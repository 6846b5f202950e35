-------------------------- MODULE WebSessionProofs --------------------------
(***************************************************************************)
(* Proofs about LoginTokens and WebSession: what holds of the tokens       *)
(* whatever the threads do, and of the tab that uses them.                 *)
(***************************************************************************)
EXTENDS WebSession, TLAPS

\* A token in a row is that of the row's user; one that was revoked is in no row, or
\* in one that has expired.
RowsOwned == \A u \in Users : row[u] # None => owner[row[u].token] = u

RevokedGone ==
    \A t \in revoked :
        /\ owner[t] # None
        /\ \A u \in Users : row[u] # None /\ row[u].token = t => row[u].expired

\* A thread that logs in has a token of its own that is in no row yet.
OwnToken(r) ==
    LET t == thread[r].token IN
    /\ t \in Tokens /\ thread[r].user \in Users
    /\ owner[t] = thread[r].user
    /\ t \notin revoked
    /\ \A u \in Users : row[u] # None => row[u].token # t
    /\ \A q \in Threads : q # r => thread[q].token # t

\* One that logs out has a token of the user, whose row does not have it any more when
\* the logout is answered.
Asker(r) ==
    /\ thread[r].token \in Tokens /\ thread[r].user \in Users
    /\ owner[thread[r].token] = thread[r].user
    /\ row[thread[r].user] # None

Gone(r) == Asker(r) /\ row[thread[r].user].token # thread[r].token

ThreadsInv ==
    \A r \in Threads :
        /\ thread[r].op = "login" => OwnToken(r)
        /\ thread[r].op = "logout" => Asker(r)
        /\ thread[r].op = "loggedOut" => Gone(r)
        /\ thread[r].op = "loggedIn" => thread[r].token \in Tokens
        /\ thread[r].token # None => owner[thread[r].token] # None

TokenInv == TokenTypeOK /\ RowsOwned /\ RevokedGone /\ ThreadsInv

-----------------------------------------------------------------------------
\* A generated token is new: it is in no row, with no thread and not revoked.
LEMMA Fresh ==
    ASSUME TokenInv, NEW t \in Tokens, NEW u \in Users, Generate(t, u)
    PROVE  /\ \A v \in Users : row[v] # None => row[v].token # t
           /\ \A r \in Threads : thread[r].token # t
           /\ t \notin revoked
           /\ owner[t] = None /\ owner' = [owner EXCEPT ![t] = u]
<1>1. owner[t] = None /\ owner' = [owner EXCEPT ![t] = u]
  BY DEF Generate, Tokens
<1>2. t # None  BY TokenAssumption DEF Tokens
<1> QED  BY <1>1, <1>2, TokenAssumption DEF TokenInv, RowsOwned, RevokedGone, ThreadsInv

\* Revoked adds tokens of rows, which then have expired or have another token.
LEMMA RevokedTypes ==
    ASSUME TokenTypeOK, Revoked
    PROVE  revoked' \subseteq Tokens
BY DEF TokenTypeOK, Revoked

LEMMA InitTokens == TokenInit => TokenInv
BY TokenAssumption DEF TokenInit, TokenInv, TokenTypeOK, RowsOwned, RevokedGone, ThreadsInv, Idle

LEMMA CreateTokenKeeps ==
    ASSUME TokenInv, NEW r \in Threads, NEW u \in Users, CreateToken(r, u)
    PROVE  TokenInv'
<1>1. PICK t \in Tokens : Generate(t, u) /\ Does(r, "login", u, t, row[u] # None)
  BY DEF CreateToken
<1>2. /\ \A v \in Users : row[v] # None => row[v].token # t
      /\ \A q \in Threads : thread[q].token # t
      /\ t \notin revoked
      /\ owner[t] = None /\ owner' = [owner EXCEPT ![t] = u]
  BY <1>1, Fresh
<1>3. UNCHANGED <<row, revoked>>  BY DEF CreateToken
<1>4. thread' = [thread EXCEPT ![r] = [op |-> "login", user |-> u, token |-> t, found |-> (row[u] # None)]]
  BY <1>1 DEF Does
<1>5. TokenTypeOK'
  BY <1>2, <1>3, <1>4 DEF TokenInv, TokenTypeOK, Rows
<1>6. RowsOwned' /\ RevokedGone'
  BY <1>2, <1>3, TokenAssumption DEF TokenInv, TokenTypeOK, Rows, RowsOwned, RevokedGone
<1>7. ThreadsInv'
  <2> SUFFICES ASSUME NEW q \in Threads
               PROVE  /\ thread'[q].op = "login" => OwnToken(q)'
                      /\ thread'[q].op = "logout" => Asker(q)'
                      /\ thread'[q].op = "loggedOut" => Gone(q)'
                      /\ thread'[q].op = "loggedIn" => thread'[q].token \in Tokens
                      /\ thread'[q].token # None => owner'[thread'[q].token] # None
    BY DEF ThreadsInv
  <2>1. CASE q = r
    BY <2>1, <1>2, <1>3, <1>4, TokenAssumption DEF TokenInv, TokenTypeOK, Rows, OwnToken
  <2>2. CASE q # r
    <3>1. thread'[q] = thread[q]  BY <2>2, <1>4 DEF TokenInv, TokenTypeOK, Rows
    <3>2. thread[q].token # None => thread[q].token \in Tokens /\ owner'[thread[q].token] = owner[thread[q].token]
      BY <1>2 DEF TokenInv, TokenTypeOK, Rows
    <3>3. thread[q].op = "login" => OwnToken(q)'
      BY <3>1, <3>2, <1>2, <1>3, <1>4, TokenAssumption DEF TokenInv, ThreadsInv, TokenTypeOK, OwnToken, Tokens
    <3> QED  BY <3>1, <3>2, <3>3, <1>3, TokenAssumption DEF TokenInv, ThreadsInv, Asker, Gone, Tokens
  <2> QED  BY <2>1, <2>2
<1> QED  BY <1>5, <1>6, <1>7 DEF TokenInv

\* A thread that takes up no login changes nothing for the others.
LEMMA OthersKeep ==
    ASSUME TokenInv, NEW r \in Threads, UNCHANGED <<row, owner, revoked>>,
           NEW x \in [op : {"idle", "logout", "failed"}, user : Users \cup {None},
                      token : Tokens \cup {None}, found : BOOLEAN],
           x.op = "logout" => /\ x.token \in Tokens /\ x.user \in Users
                              /\ row[x.user] # None /\ row[x.user].token = x.token,
           x.op # "logout" => x.token = None,
           thread' = [thread EXCEPT ![r] = x]
    PROVE  TokenInv'
<1>1. TokenTypeOK' /\ RowsOwned' /\ RevokedGone'
  BY DEF TokenInv, TokenTypeOK, RowsOwned, RevokedGone
<1>2. ThreadsInv'
  <2> SUFFICES ASSUME NEW q \in Threads
               PROVE  /\ thread'[q].op = "login" => OwnToken(q)'
                      /\ thread'[q].op = "logout" => Asker(q)'
                      /\ thread'[q].op = "loggedOut" => Gone(q)'
                      /\ thread'[q].op = "loggedIn" => thread'[q].token \in Tokens
                      /\ thread'[q].token # None => owner'[thread'[q].token] # None
    BY DEF ThreadsInv
  <2>1. CASE q = r
    <3>1. thread'[q] = x  BY <2>1 DEF TokenInv, TokenTypeOK
    <3>2. x.op = "logout" => owner[x.token] = x.user  BY DEF TokenInv, RowsOwned
    <3> QED  BY <3>1, <3>2, TokenAssumption DEF Asker
  <2>2. CASE q # r
    <3>1. thread'[q] = thread[q]  BY <2>2 DEF TokenInv, TokenTypeOK
    <3>2. thread[q].op = "login" => OwnToken(q)'
      <4> SUFFICES ASSUME thread[q].op = "login" PROVE OwnToken(q)'  OBVIOUS
      <4>1. OwnToken(q)  BY DEF TokenInv, ThreadsInv
      <4>2. x.token # thread[q].token
        BY <4>1, TokenAssumption DEF OwnToken, Tokens
      <4>3. \A p \in Threads : p # q => thread'[p].token # thread'[q].token
        BY <3>1, <4>1, <4>2 DEF OwnToken, TokenInv, TokenTypeOK
      <4> QED  BY <3>1, <4>1, <4>3 DEF OwnToken
    <3> QED  BY <3>1, <3>2 DEF TokenInv, ThreadsInv, Asker, Gone
  <2> QED  BY <2>1, <2>2
<1> QED  BY <1>1, <1>2 DEF TokenInv

LEMMA SaveKeeps ==
    ASSUME TokenInv, NEW r \in Threads, Save(r)
    PROVE  TokenInv'
<1> DEFINE u == thread[r].user
           t == thread[r].token
<1>1. OwnToken(r) /\ thread[r].op = "login"  BY DEF Save, TokenInv, ThreadsInv
<1>2. UNCHANGED owner  BY DEF Save
<1>3. CASE ~thread[r].found /\ row[u] # None
  <2>1. Does(r, "failed", u, None, FALSE) /\ UNCHANGED <<row, revoked>>  BY <1>3 DEF Save
  <2> DEFINE x == [op |-> "failed", user |-> u, token |-> None, found |-> FALSE]
  <2>2. x \in [op : {"idle", "logout", "failed"}, user : Users \cup {None},
               token : Tokens \cup {None}, found : BOOLEAN]
    BY <1>1 DEF OwnToken
  <2>3. thread' = [thread EXCEPT ![r] = x] /\ x.op = "failed" /\ x.token = None
    BY <2>1 DEF Does
  <2> HIDE DEF x
  <2> QED  BY <2>1, <2>2, <2>3, <1>2, OthersKeep
<1>4. CASE ~(~thread[r].found /\ row[u] # None)
  <2>1. row' = [row EXCEPT ![u] = [token |-> t, expired |-> FALSE]]
    BY <1>4 DEF Save, Written
  <2>2. thread' = [thread EXCEPT ![r] = [op |-> "loggedIn", user |-> u, token |-> t, found |-> FALSE]]
    BY <1>4 DEF Save, Does
  <2>3. revoked' = revoked \cup {s \in Tokens : Accepted(s) /\ ~Accepted(s)'}
    BY <1>4 DEF Save, Revoked
  <2>4. TokenTypeOK'
    BY <2>1, <2>2, <2>3, <1>1, <1>2 DEF TokenInv, TokenTypeOK, Rows, OwnToken
  <2>5. RowsOwned'
    BY <2>1, <1>1, <1>2 DEF TokenInv, TokenTypeOK, Rows, RowsOwned, OwnToken
  <2>6. \A s \in Tokens : Accepted(s) => owner[s] # None /\ \E v \in Users : row[v] # None /\ row[v].token = s
    BY TokenAssumption DEF Accepted, AcceptedFor, TokenInv, RowsOwned
  <2>7. t \notin revoked'
    BY <2>3, <2>6, <1>1 DEF OwnToken
  <2>8. RevokedGone'
    <3> SUFFICES ASSUME NEW s \in revoked'
                 PROVE  owner'[s] # None /\ \A v \in Users : row'[v] # None /\ row'[v].token = s => row'[v].expired
      BY DEF RevokedGone
    <3>1. s # t  BY <2>7
    <3>2. CASE s \in revoked
      BY <3>1, <3>2, <2>1, <1>1, <1>2 DEF TokenInv, TokenTypeOK, Rows, RevokedGone, OwnToken
    <3>3. CASE s \in Tokens /\ Accepted(s) /\ ~Accepted(s)'
      BY <3>1, <3>3, <2>6, <1>2 DEF Accepted, AcceptedFor
    <3> QED  BY <3>2, <3>3, <2>3
  <2>9. ThreadsInv'
    <3> SUFFICES ASSUME NEW q \in Threads
                 PROVE  /\ thread'[q].op = "login" => OwnToken(q)'
                        /\ thread'[q].op = "logout" => Asker(q)'
                        /\ thread'[q].op = "loggedOut" => Gone(q)'
                        /\ thread'[q].op = "loggedIn" => thread'[q].token \in Tokens
                        /\ thread'[q].token # None => owner'[thread'[q].token] # None
      BY DEF ThreadsInv
    <3>1. CASE q = r
      BY <3>1, <2>2, <1>1, <1>2, TokenAssumption DEF TokenInv, TokenTypeOK, Rows, OwnToken, ThreadsInv
    <3>2. CASE q # r
      <4>1. thread'[q] = thread[q] /\ thread[q].token # t
        BY <3>2, <2>2, <1>1 DEF TokenInv, TokenTypeOK, Rows, OwnToken
      <4>2. thread[q].op = "login" => OwnToken(q)'
        <5> SUFFICES ASSUME thread[q].op = "login" PROVE OwnToken(q)'  OBVIOUS
        <5>1. OwnToken(q)  BY DEF TokenInv, ThreadsInv
        <5>2. thread[q].token \notin revoked'
          BY <5>1, <2>3, <2>6 DEF OwnToken
        <5>3. \A v \in Users : row'[v] # None => row'[v].token # thread[q].token
          BY <5>1, <2>1, <4>1, <1>1 DEF OwnToken, TokenInv, TokenTypeOK
        <5>4. \A p \in Threads : p # q => thread'[p].token # thread[q].token
          BY <5>1, <2>2, <4>1 DEF OwnToken, TokenInv, TokenTypeOK
        <5> QED  BY <5>1, <5>2, <5>3, <5>4, <4>1, <1>2 DEF OwnToken
      <4>3. thread[q].op \in {"logout", "loggedOut"} => Asker(q)' /\ (Gone(q) => Gone(q)')
        <5> SUFFICES ASSUME Asker(q) PROVE Asker(q)' /\ (Gone(q) => Gone(q)')
          BY DEF TokenInv, ThreadsInv, Gone
        <5>3. [token |-> t, expired |-> FALSE] \in Rows  BY <1>1 DEF OwnToken, Rows
        <5>4. [token |-> t, expired |-> FALSE] # None  BY <5>3, TokenAssumption
        <5>1. row'[thread[q].user] # None
          BY <2>1, <5>4, <1>1 DEF Asker, OwnToken, TokenInv, TokenTypeOK
        <5>2. row[thread[q].user].token # thread[q].token => row'[thread[q].user].token # thread[q].token
          BY <2>1, <4>1, <1>1 DEF Asker, OwnToken, TokenInv, TokenTypeOK
        <5> QED  BY <5>1, <5>2, <4>1, <1>2 DEF Asker, Gone
      <4> QED  BY <4>1, <4>2, <4>3, <1>2 DEF TokenInv, ThreadsInv
    <3> QED  BY <3>1, <3>2
  <2> QED  BY <2>4, <2>5, <2>8, <2>9 DEF TokenInv
<1> QED  BY <1>3, <1>4

LEMMA LogoutKeeps ==
    ASSUME TokenInv, NEW r \in Threads, NEW t \in Tokens, Logout(r, t)
    PROVE  TokenInv'
<1> DEFINE X == [op : {"idle", "logout", "failed"}, user : Users \cup {None},
                 token : Tokens \cup {None}, found : BOOLEAN]
<1>1. CASE Accepted(t)
  <2>1. PICK u \in Users : AcceptedFor(t, u) /\ Does(r, "logout", u, t, TRUE)
    BY <1>1 DEF Logout
  <2> DEFINE x == [op |-> "logout", user |-> u, token |-> t, found |-> TRUE]
  <2>2. x \in X /\ x.op = "logout" /\ x.token = t /\ x.user = u  OBVIOUS
  <2>3. thread' = [thread EXCEPT ![r] = x]  BY <2>1 DEF Does
  <2> HIDE DEF x
  <2> QED  BY <2>1, <2>2, <2>3, OthersKeep DEF Logout, AcceptedFor
<1>2. CASE ~Accepted(t)
  <2> DEFINE x == [op |-> "failed", user |-> None, token |-> None, found |-> FALSE]
  <2>1. x \in X /\ x.op = "failed" /\ x.token = None  OBVIOUS
  <2>2. thread' = [thread EXCEPT ![r] = x]  BY <1>2 DEF Logout, Does
  <2> HIDE DEF x
  <2> QED  BY <2>1, <2>2, OthersKeep DEF Logout
<1> QED  BY <1>1, <1>2

LEMMA AnswerKeeps ==
    ASSUME TokenInv, NEW r \in Threads, Answer(r)
    PROVE  TokenInv'
<1>1. Idle \in [op : {"idle", "logout", "failed"}, user : Users \cup {None},
               token : Tokens \cup {None}, found : BOOLEAN]
      /\ Idle.op = "idle" /\ Idle.token = None
  BY DEF Idle
<1> QED  BY <1>1, OthersKeep DEF Answer

\* What a step that replaces the token of u by a fresh one, or makes it expire, does to
\* the revoked tokens.
LEMMA RevokedGrows ==
    ASSUME TokenInv, Revoked, NEW s \in revoked', s \notin revoked
    PROVE  /\ s \in Tokens /\ owner[s] # None /\ ~Accepted(s)'
           /\ \E u \in Users : row[u] # None /\ row[u].token = s
BY TokenAssumption DEF Revoked, Accepted, AcceptedFor, TokenInv, RowsOwned

LEMMA ReplaceTokenKeeps ==
    ASSUME TokenInv, NEW r \in Threads, ReplaceToken(r)
    PROVE  TokenInv'
<1> DEFINE u == thread[r].user
           a == thread[r].token
<1>1. Asker(r) /\ thread[r].op = "logout"  BY DEF ReplaceToken, TokenInv, ThreadsInv
<1>2. PICK t \in Tokens : Generate(t, u) /\ row' = [row EXCEPT ![u] = [row[u] EXCEPT !.token = t]]
  BY DEF ReplaceToken, Replaced
<1>3. /\ \A v \in Users : row[v] # None => row[v].token # t
      /\ \A q \in Threads : thread[q].token # t
      /\ t \notin revoked
      /\ owner[t] = None /\ owner' = [owner EXCEPT ![t] = u]
  BY <1>1, <1>2, Fresh DEF Asker
<1>4. thread' = [thread EXCEPT ![r] = [op |-> "loggedOut", user |-> u, token |-> a, found |-> FALSE]]
  BY DEF ReplaceToken, Does
<1>5. Revoked  BY DEF ReplaceToken
<1>6. row[u] \in Rows /\ row'[u] \in Rows /\ row'[u].token = t /\ row'[u].expired = row[u].expired
  BY <1>1, <1>2 DEF Asker, TokenInv, TokenTypeOK, Rows
<1>7. \A v \in Users : v # u => row'[v] = row[v]
  BY <1>2 DEF TokenInv, TokenTypeOK
<1>8. row' \in [Users -> {None} \cup Rows]
  BY <1>1, <1>2, <1>6 DEF Asker, TokenInv, TokenTypeOK
<1>9. owner' \in [Tokens -> Users \cup {None}] /\ \A s \in Tokens : s # t => owner'[s] = owner[s]
  BY <1>1, <1>3 DEF Asker, TokenInv, TokenTypeOK
<1>10. owner'[t] = u /\ u \in Users /\ u # None /\ a # t /\ a \in Tokens
  BY <1>1, <1>3, TokenAssumption DEF Asker, TokenInv, TokenTypeOK
<1>11. TokenTypeOK'
  BY <1>1, <1>4, <1>5, <1>8, <1>9, RevokedTypes DEF Asker, TokenInv, TokenTypeOK
<1>12. RowsOwned'
  <2> SUFFICES ASSUME NEW v \in Users, row'[v] # None PROVE owner'[row'[v].token] = v  BY DEF RowsOwned
  <2>1. CASE v = u  BY <2>1, <1>6, <1>10
  <2>2. CASE v # u
    <3>1. row[v] # None /\ row[v] \in Rows /\ row'[v] = row[v]
      BY <2>2, <1>7 DEF TokenInv, TokenTypeOK
    <3>2. row[v].token \in Tokens /\ row[v].token # t  BY <3>1, <1>3 DEF Rows
    <3> QED  BY <3>1, <3>2, <1>9 DEF TokenInv, RowsOwned
  <2> QED  BY <2>1, <2>2
<1>13. t \notin revoked'
  BY <1>3, <1>5, RevokedGrows
<1>14. RevokedGone'
  <2> SUFFICES ASSUME NEW s \in revoked'
               PROVE  owner'[s] # None /\ \A v \in Users : row'[v] # None /\ row'[v].token = s => row'[v].expired
    BY DEF RevokedGone
  <2>1. s # t /\ s \in Tokens  BY <1>13, <1>11 DEF TokenTypeOK
  <2>2. CASE s \in revoked
    <3>1. owner'[s] # None  BY <2>1, <2>2, <1>9 DEF TokenInv, RevokedGone
    <3>2. \A v \in Users : row'[v] # None /\ row'[v].token = s => v # u  BY <2>1, <1>6
    <3> QED  BY <3>1, <3>2, <2>2, <1>7 DEF TokenInv, RevokedGone
  <2>3. CASE s \notin revoked
    BY <2>1, <2>3, <1>5, <1>9, RevokedGrows DEF Accepted, AcceptedFor
  <2> QED  BY <2>2, <2>3
<1>15. ThreadsInv'
  <2> SUFFICES ASSUME NEW q \in Threads
               PROVE  /\ thread'[q].op = "login" => OwnToken(q)'
                      /\ thread'[q].op = "logout" => Asker(q)'
                      /\ thread'[q].op = "loggedOut" => Gone(q)'
                      /\ thread'[q].op = "loggedIn" => thread'[q].token \in Tokens
                      /\ thread'[q].token # None => owner'[thread'[q].token] # None
    BY DEF ThreadsInv
  <2>0. row'[u] # None  BY <1>6, TokenAssumption
  <2>1. CASE q = r
    <3>1. thread'[q] = [op |-> "loggedOut", user |-> u, token |-> a, found |-> FALSE]
      BY <2>1, <1>4 DEF TokenInv, TokenTypeOK
    <3>2. owner'[a] = u  BY <1>1, <1>9, <1>10 DEF Asker
    <3> QED  BY <3>1, <3>2, <2>0, <1>6, <1>10 DEF Gone, Asker
  <2>2. CASE q # r
    <3>1. thread'[q] = thread[q] /\ thread[q].token # t
      BY <2>2, <1>3, <1>4 DEF TokenInv, TokenTypeOK
    <3>2. thread[q].token # None => thread[q].token \in Tokens /\ owner'[thread[q].token] = owner[thread[q].token]
      BY <3>1, <1>9 DEF TokenInv, TokenTypeOK
    <3>3. thread[q].op = "login" => OwnToken(q)'
      <4> SUFFICES ASSUME thread[q].op = "login" PROVE OwnToken(q)'  OBVIOUS
      <4>1. OwnToken(q)  BY DEF TokenInv, ThreadsInv
      <4>2. thread[q].token \notin revoked'
        BY <4>1, <1>5, RevokedGrows DEF OwnToken
      <4>3. \A v \in Users : row'[v] # None => row'[v].token # thread[q].token
        BY <4>1, <3>1, <1>6, <1>7 DEF OwnToken
      <4>4. \A p \in Threads : p # q => thread'[p].token # thread[q].token
        <5> SUFFICES ASSUME NEW p \in Threads, p # q PROVE thread'[p].token # thread[q].token  OBVIOUS
        <5>1. thread'[p].token = thread[p].token
          BY <1>4 DEF TokenInv, TokenTypeOK
        <5> QED  BY <5>1, <4>1 DEF OwnToken
      <4>5. thread[q].token \in Tokens  BY <4>1 DEF OwnToken
      <4> QED  BY <4>1, <4>2, <4>3, <4>4, <4>5, <3>1, <1>9 DEF OwnToken
    <3>4. Asker(q) => Asker(q)' /\ (Gone(q) => Gone(q)')
      <4> SUFFICES ASSUME Asker(q) PROVE Asker(q)' /\ (Gone(q) => Gone(q)')  OBVIOUS
      <4>1. row'[thread[q].user] # None  BY <2>0, <1>7 DEF Asker
      <4>2. row[thread[q].user].token # thread[q].token => row'[thread[q].user].token # thread[q].token
        BY <3>1, <1>6, <1>7 DEF Asker
      <4>3. owner'[thread[q].token] = thread[q].user  BY <3>1, <1>9 DEF Asker
      <4> QED  BY <4>1, <4>2, <4>3, <3>1 DEF Asker, Gone
    <3> QED  BY <3>1, <3>2, <3>3, <3>4 DEF TokenInv, ThreadsInv, Gone
  <2> QED  BY <2>1, <2>2
<1> QED  BY <1>11, <1>12, <1>14, <1>15 DEF TokenInv

LEMMA ExpireKeeps ==
    ASSUME TokenInv, NEW u \in Users, Expire(u)
    PROVE  TokenInv'
<1>1. row[u] \in Rows /\ row' = [row EXCEPT ![u] = [row[u] EXCEPT !.expired = TRUE]]
  BY DEF Expire, TokenInv, TokenTypeOK
<1>2. row'[u] \in Rows /\ row'[u].token = row[u].token /\ row'[u].expired /\ row[u] # None /\ row'[u] # None
  <2>1. row'[u] = [row[u] EXCEPT !.expired = TRUE]  BY <1>1 DEF TokenInv, TokenTypeOK
  <2>2. [row[u] EXCEPT !.expired = TRUE] \in Rows  BY <1>1 DEF Rows
  <2>3. row'[u].token = row[u].token /\ row'[u].expired  BY <1>1, <2>1 DEF Rows
  <2> QED  BY <2>1, <2>2, <2>3, TokenAssumption DEF Expire
<1>3. \A v \in Users : v # u => row'[v] = row[v]
  BY <1>1 DEF TokenInv, TokenTypeOK
<1>4. \A v \in Users : /\ row'[v] # None <=> row[v] # None
                       /\ row[v] # None => row'[v].token = row[v].token /\ (row[v].expired => row'[v].expired)
  BY <1>2, <1>3
<1>5. UNCHANGED <<owner, thread>> /\ Revoked  BY DEF Expire
<1>6. row' \in [Users -> {None} \cup Rows]
  BY <1>1, <1>2 DEF TokenInv, TokenTypeOK
<1>7. TokenTypeOK'  BY <1>5, <1>6, RevokedTypes DEF TokenInv, TokenTypeOK
<1>8. RowsOwned'  BY <1>4, <1>5 DEF TokenInv, RowsOwned
<1>9. RevokedGone'
  <2> SUFFICES ASSUME NEW s \in revoked'
               PROVE  owner'[s] # None /\ \A v \in Users : row'[v] # None /\ row'[v].token = s => row'[v].expired
    BY DEF RevokedGone
  <2>1. CASE s \in revoked  BY <2>1, <1>4, <1>5 DEF TokenInv, RevokedGone
  <2>2. CASE s \notin revoked
    BY <2>2, <1>5, RevokedGrows DEF Accepted, AcceptedFor
  <2> QED  BY <2>1, <2>2
<1>10. ThreadsInv'
  <2> SUFFICES ASSUME NEW q \in Threads
               PROVE  /\ thread[q].op = "login" => OwnToken(q)'
                      /\ thread[q].op = "logout" => Asker(q)'
                      /\ thread[q].op = "loggedOut" => Gone(q)'
    BY <1>5 DEF TokenInv, ThreadsInv
  <2>1. thread[q].op = "login" => OwnToken(q)'
    BY <1>4, <1>5, RevokedGrows DEF TokenInv, ThreadsInv, OwnToken
  <2>2. Asker(q) => Asker(q)' /\ (Gone(q) => Gone(q)')
    BY <1>4, <1>5 DEF Asker, Gone
  <2> QED  BY <2>1, <2>2 DEF TokenInv, ThreadsInv, Gone
<1> QED  BY <1>7, <1>8, <1>9, <1>10 DEF TokenInv

LEMMA TokenStep ==
    ASSUME TokenInv, [TokenNext]_tokenVars
    PROVE  TokenInv'
<1>1. ASSUME NEW r \in Threads, NEW u \in Users, CreateToken(r, u) PROVE TokenInv'
  BY <1>1, CreateTokenKeeps
<1>2. ASSUME NEW r \in Threads, NEW t \in Tokens, Logout(r, t) PROVE TokenInv'
  BY <1>2, LogoutKeeps
<1>3. ASSUME NEW r \in Threads, Save(r) \/ ReplaceToken(r) \/ Answer(r) PROVE TokenInv'
  BY <1>3, SaveKeeps, ReplaceTokenKeeps, AnswerKeeps
<1>4. ASSUME NEW u \in Users, Expire(u) PROVE TokenInv'  BY <1>4, ExpireKeeps
<1>5. CASE UNCHANGED tokenVars
  BY <1>5 DEF tokenVars, TokenInv, TokenTypeOK, RowsOwned, RevokedGone, ThreadsInv, OwnToken, Asker, Gone
<1> QED  BY <1>1, <1>2, <1>3, <1>4, <1>5 DEF TokenNext

\* What the properties say follows from the invariant.
LEMMA TokenInvSuffices == TokenInv => TokenTypeOK /\ RevokedStaysRevoked /\ LogoutRevokes
<1> SUFFICES ASSUME TokenInv PROVE RevokedStaysRevoked /\ LogoutRevokes  BY DEF TokenInv
<1>1. RevokedStaysRevoked
  BY DEF TokenInv, RevokedGone, RevokedStaysRevoked, Accepted, AcceptedFor
<1>2. LogoutRevokes
  <2> SUFFICES ASSUME NEW r \in Threads, thread[r].op = "loggedOut", NEW u \in Users,
                      AcceptedFor(thread[r].token, u)
               PROVE  FALSE
    BY DEF LogoutRevokes, Accepted
  <2>1. Gone(r)  BY DEF TokenInv, ThreadsInv
  <2>2. u = thread[r].user
    BY <2>1 DEF Gone, Asker, AcceptedFor, TokenInv, RowsOwned
  <2> QED  BY <2>1, <2>2 DEF Gone, AcceptedFor
<1> QED  BY <1>1, <1>2

-----------------------------------------------------------------------------
(* The tab                                                                 *)

\* An answer with menus is for the user of a token that was generated.
Answers(b) ==
    \A s \in Slots : b.asked[s] # None =>
        /\ b.asked[s].token # None => owner[b.asked[s].token] # None
        /\ b.asked[s].answer = "menus" =>
              b.asked[s].token # None /\ b.asked[s].menus = owner[b.asked[s].token]

Basic(b) ==
    /\ b \in Tabs
    /\ Answers(b)
    /\ b.cookie # None => owner[b.cookie] # None

\* A page that was opened passes the guard of main with a token only.
Guarded(b) == b.current = "start" /\ b.pending = "main" /\ b.loads => b.cookie # None

\* In an orderly tab menus are asked for with the token it has, and are its user's.
Own(b) ==
    /\ b.cookie = None => ~b.added
    /\ \A s \in Slots : b.asked[s] # None => b.asked[s].token = b.cookie
    /\ b.added => b.menus \in {None, owner[b.cookie]}

LEMMA ClearBasic ==
    ASSUME NEW b, Basic(b)
    PROVE  /\ Basic(ClearLoginInfo(b))
           /\ ClearLoginInfo(b).current = b.current
           /\ Own(b) /\ (b.cookie = None \/ Free(b) = Slots) => Own(ClearLoginInfo(b))
<1> DEFINE c == ClearLoginInfo(b)
<1>1. c \in Tabs /\ c.asked = b.asked /\ c.cookie = None /\ ~c.added /\ c.current = b.current
  BY DEF Basic, Tabs, ClearLoginInfo
<1> HIDE DEF c
<1>2. Basic(c)  BY <1>1 DEF Basic, Answers
<1>3. Own(b) /\ (b.cookie = None \/ Free(b) = Slots) => Own(c)  BY <1>1 DEF Own, Free
<1> QED  BY <1>1, <1>2, <1>3 DEF c

\* A new navigation makes the requests of the one before stale.
LEMMA BeginBasic ==
    ASSUME NEW b, Basic(b), NEW page \in {"login", "main"}
    PROVE  /\ Basic(Begin(b, page))
           /\ Begin(b, page).pending = page /\ ~Begin(b, page).loads
           /\ Begin(b, page).current = b.current /\ Begin(b, page).cookie = b.cookie
           /\ Own(b) => Own(Begin(b, page))
<1> DEFINE c == Begin(b, page)
           Stale(s) == IF b.asked[s] = None THEN None ELSE [b.asked[s] EXCEPT !.stale = TRUE]
<1>1. \A s \in Slots : b.asked[s] \in {None} \cup Requests  BY DEF Basic, Tabs
<1>2. \A s \in Slots : b.asked[s] # None =>
         /\ Stale(s) \in Requests /\ Stale(s).token = b.asked[s].token
         /\ Stale(s).answer = b.asked[s].answer /\ Stale(s).menus = b.asked[s].menus
  BY <1>1 DEF Requests
<1>3. c = [b EXCEPT !.pending = page, !.loads = FALSE, !.asked = [s \in Slots |-> Stale(s)]]
  BY DEF Begin, Basic, Tabs
<1>4. c.asked = [s \in Slots |-> Stale(s)]  BY <1>3 DEF Basic, Tabs
<1>5. c.asked \in [Slots -> {None} \cup Requests]  BY <1>2, <1>4
<1>6. c \in Tabs /\ c.cookie = b.cookie /\ c.added = b.added /\ c.menus = b.menus
      /\ c.current = b.current /\ c.pending = page /\ ~c.loads
  BY <1>3, <1>4, <1>5 DEF Basic, Tabs
<1>7. \A s \in Slots : c.asked[s] # None =>
         /\ b.asked[s] # None /\ c.asked[s].token = b.asked[s].token
         /\ c.asked[s].answer = b.asked[s].answer /\ c.asked[s].menus = b.asked[s].menus
  BY <1>2, <1>4
<1> HIDE DEF c
<1>8. Basic(c)  BY <1>6, <1>7 DEF Basic, Answers
<1>9. Own(b) => Own(c)  BY <1>6, <1>7 DEF Own
<1> QED  BY <1>6, <1>8, <1>9 DEF c

LEMMA LoadBasic ==
    ASSUME NEW b, Basic(b)
    PROVE  /\ Basic(Load(b)) /\ (Own(b) => Own(Load(b)))
           /\ Load(b).current = b.current /\ Load(b).pending = b.pending /\ Load(b).cookie = b.cookie
<1> DEFINE c == Load(b)
<1>1. c \in Tabs /\ c.cookie = b.cookie /\ c.added = b.added /\ c.menus = b.menus
      /\ c.asked = b.asked /\ c.current = b.current /\ c.pending = b.pending
  BY DEF Basic, Tabs, Load
<1> HIDE DEF c
<1>2. Basic(c) /\ (Own(b) => Own(c))  BY <1>1 DEF Basic, Answers, Own
<1> QED  BY <1>1, <1>2 DEF c

LEMMA GoLoginBasic ==
    ASSUME NEW b, Basic(b)
    PROVE  /\ Basic(GoLogin(b)) /\ Guarded(GoLogin(b)) /\ (Own(b) => Own(GoLogin(b)))
           /\ GoLogin(b).current = b.current
<1>1. CASE b.current = "login"  BY <1>1 DEF GoLogin, Guarded
<1>2. CASE b.current # "login"
  <2>1. GoLogin(b) = Load(Begin(b, "login"))  BY <1>2 DEF GoLogin
  <2>2. Basic(Begin(b, "login")) /\ (Own(b) => Own(Begin(b, "login")))
        /\ Begin(b, "login").pending = "login" /\ Begin(b, "login").current = b.current
    BY BeginBasic
  <2> QED  BY <2>1, <2>2, LoadBasic DEF Guarded
<1> QED  BY <1>1, <1>2

LEMMA BeforeEnterBasic ==
    ASSUME NEW b, Basic(b)
    PROVE  /\ Basic(BeforeEnter(b)) /\ Guarded(BeforeEnter(b)) /\ (Own(b) => Own(BeforeEnter(b)))
           /\ BeforeEnter(b).current = b.current
<1>1. CASE b.cookie # None
  BY <1>1, LoadBasic DEF BeforeEnter, Guarded
<1>2. CASE b.cookie = None
  <2> DEFINE c == ClearLoginInfo(b)
  <2>1. Basic(c) /\ c.current = b.current /\ (Own(b) => Own(c))  BY <1>2, ClearBasic
  <2> HIDE DEF c
  <2>2. CASE b.current = "login"
    <3>1. BeforeEnter(b) = Load(c)  BY <1>2, <2>2 DEF BeforeEnter, c
    <3> QED  BY <2>1, <2>2, <3>1, LoadBasic DEF Guarded
  <2>3. CASE b.current # "login"
    <3>1. BeforeEnter(b) = GoLogin(c)  BY <1>2, <2>3 DEF BeforeEnter, c
    <3> QED  BY <2>1, <3>1, GoLoginBasic
  <2> QED  BY <2>2, <2>3
<1> QED  BY <1>1, <1>2

LEMMA AskBasic ==
    ASSUME NEW b, Basic(b), NEW t \in Slots
    PROVE  /\ Basic(Ask(b, t)) /\ (Own(b) => Own(Ask(b, t)))
           /\ Ask(b, t).current = b.current /\ Ask(b, t).loads = b.loads
<1> DEFINE new == [token |-> b.cookie, answer |-> "none", menus |-> None, stale |-> FALSE]
           c == Ask(b, t)
<1>1. new \in Requests /\ new.token = b.cookie /\ new.answer = "none"
  BY DEF Basic, Tabs, Requests
<1> HIDE DEF new
<1>2. c = [b EXCEPT !.asked[t] = new]  BY DEF Ask, new
<1>5. c \in Tabs /\ c.cookie = b.cookie /\ c.added = b.added /\ c.menus = b.menus
      /\ c.current = b.current /\ c.loads = b.loads /\ c.asked = [b.asked EXCEPT ![t] = new]
  BY <1>1, <1>2 DEF Basic, Tabs
<1>3. \A s \in Slots : c.asked[s] = IF s = t THEN new ELSE b.asked[s]
  BY <1>5 DEF Basic, Tabs
<1> HIDE DEF c
<1>4. Basic(c)  BY <1>1, <1>3, <1>5 DEF Basic, Answers
<1>6. Own(b) => Own(c)  BY <1>1, <1>3, <1>5 DEF Own
<1> QED  BY <1>4, <1>5, <1>6 DEF c

LEMMA GoMainBasic ==
    ASSUME NEW b, Basic(b), b.added \/ Free(b) # {}
    PROVE  /\ Basic(GoMain(b)) /\ Guarded(GoMain(b)) /\ (Own(b) => Own(GoMain(b)))
           /\ GoMain(b).current = b.current
<1> DEFINE c == Begin(b, "main")
           f == CHOOSE s \in Free(b) : TRUE
<1>1. Basic(c) /\ (Own(b) => Own(c)) /\ c.current = b.current /\ ~c.loads
  BY BeginBasic
<1>2. CASE b.current = "main"  BY <1>2 DEF GoMain, Guarded
<1>3. CASE b.current # "main" /\ b.added
  BY <1>1, <1>3, BeforeEnterBasic DEF GoMain
<1>4. CASE b.current # "main" /\ ~b.added
  <2>1. f \in Slots  BY <1>4 DEF Free
  <2>2. GoMain(b) = Ask(c, f)  BY <1>4 DEF GoMain
  <2> HIDE DEF c, f
  <2> QED  BY <1>1, <2>1, <2>2, AskBasic DEF Guarded
<1> QED  BY <1>2, <1>3, <1>4

LEMMA DoneBasic ==
    ASSUME NEW b, Basic(b), NEW t \in Slots
    PROVE  /\ Basic(Done(b, t)) /\ (Own(b) => Own(Done(b, t)))
           /\ Done(b, t).current = b.current /\ Done(b, t).pending = b.pending
           /\ Done(b, t).loads = b.loads /\ Done(b, t).cookie = b.cookie
           /\ Free(Done(b, t)) # {}
<1> DEFINE c == Done(b, t)
<1>1. c \in Tabs /\ c.cookie = b.cookie /\ c.added = b.added /\ c.menus = b.menus
      /\ c.current = b.current /\ c.pending = b.pending /\ c.loads = b.loads
      /\ c.asked = [b.asked EXCEPT ![t] = None]
  BY DEF Basic, Tabs, Done
<1>2. \A s \in Slots : c.asked[s] = IF s = t THEN None ELSE b.asked[s]
  BY <1>1 DEF Basic, Tabs
<1> HIDE DEF c
<1>3. Basic(c)  BY <1>1, <1>2 DEF Basic, Answers
<1>4. Own(b) => Own(c)  BY <1>1, <1>2 DEF Own
<1>5. t \in Free(c)  BY <1>2 DEF Free
<1> QED  BY <1>1, <1>3, <1>4, <1>5 DEF c

LEMMA WithMenusBasic ==
    ASSUME NEW b, Basic(b), NEW t \in Slots, b.asked[t] # None, b.asked[t].answer = "menus"
    PROVE  Basic(WithMenus(b, t)) /\ (Own(b) => Own(WithMenus(b, t)))
           /\ WithMenus(b, t).current = b.current
<1> DEFINE c == WithMenus(b, t)
<1>1. b.asked[t] \in Requests  BY DEF Basic, Tabs
<1>2. c \in Tabs /\ c.cookie = b.cookie /\ c.added /\ c.menus = b.asked[t].menus
      /\ c.asked = b.asked /\ c.current = b.current
  BY <1>1 DEF Basic, Tabs, WithMenus, Requests
<1>3. b.asked[t].token # None /\ b.asked[t].menus = owner[b.asked[t].token]
  BY DEF Basic, Answers
<1> HIDE DEF c
<1>4. Basic(c)  BY <1>2 DEF Basic, Answers
<1>5. Own(b) => Own(c)  BY <1>2, <1>3 DEF Own
<1> QED  BY <1>2, <1>4, <1>5 DEF c

LEMMA EmptyBasic ==
    ASSUME NEW b, Basic(b)
    PROVE  LET c == [b EXCEPT !.menus = None]
           IN  /\ Basic(c) /\ (Own(b) => Own(c)) /\ c.current = b.current
               /\ c.pending = b.pending /\ c.loads = b.loads /\ c.cookie = b.cookie
<1> DEFINE c == [b EXCEPT !.menus = None]
<1>1. c \in Tabs /\ c.cookie = b.cookie /\ c.added = b.added /\ c.menus = None
      /\ c.asked = b.asked /\ c.current = b.current /\ c.pending = b.pending /\ c.loads = b.loads
  BY DEF Basic, Tabs
<1> HIDE DEF c
<1>2. Basic(c) /\ (Own(b) => Own(c))  BY <1>1 DEF Basic, Answers, Own
<1> QED  BY <1>1, <1>2 DEF c

LEMMA WithAnswerBasic ==
    ASSUME NEW b, Basic(b), Guarded(b), NEW t \in Slots, b.asked[t] # None, b.asked[t].answer # "none"
    PROVE  /\ Basic(WithAnswer(b, t)) /\ Guarded(WithAnswer(b, t))
           /\ Own(b) => Own(WithAnswer(b, t))
           /\ WithAnswer(b, t).current = b.current
<1>1. b.asked[t].answer \in {"menus", "refused", "error"}
  BY DEF Basic, Tabs, Requests
<1>2. CASE b.asked[t].answer = "menus"
  <2> DEFINE c == WithMenus(b, t)
             d == Done(c, t)
  <2>1. Basic(c) /\ (Own(b) => Own(c)) /\ c.current = b.current  BY <1>2, WithMenusBasic
  <2>2. WithAnswer(b, t) = GoMain(d)  BY <1>2 DEF WithAnswer
  <2> HIDE DEF c
  <2>3. Basic(d) /\ (Own(b) => Own(d)) /\ d.current = b.current /\ Free(d) # {}  BY <2>1, DoneBasic
  <2> HIDE DEF d
  <2> QED  BY <2>2, <2>3, GoMainBasic
<1>3. CASE b.asked[t].answer = "refused"
  <2> DEFINE e == [b EXCEPT !.menus = None]
             c == Done(e, t)
  <2>1. Basic(e) /\ (Own(b) => Own(e)) /\ e.current = b.current
        /\ e.pending = b.pending /\ e.loads = b.loads /\ e.cookie = b.cookie
    BY EmptyBasic
  <2>2. WithAnswer(b, t) = IF b.asked[t].stale THEN c ELSE BeforeEnter(c)
    BY <1>3 DEF WithAnswer, Refused
  <2> HIDE DEF e
  <2>3. Basic(c) /\ (Own(b) => Own(c)) /\ c.current = b.current
        /\ c.pending = b.pending /\ c.loads = b.loads /\ c.cookie = b.cookie
    BY <2>1, DoneBasic
  <2> HIDE DEF c
  <2>4. Guarded(c)  BY <2>3 DEF Guarded
  <2> QED  BY <2>2, <2>3, <2>4, BeforeEnterBasic
<1>4. CASE b.asked[t].answer = "error"
  <2> DEFINE c == Done(b, t)
  <2>1. Basic(c) /\ (Own(b) => Own(c)) /\ c.current = b.current  BY DoneBasic
  <2>2. WithAnswer(b, t) = GoLogin(c)  BY <1>4 DEF WithAnswer, AfterError
  <2> HIDE DEF c
  <2> QED  BY <2>1, <2>2, GoLoginBasic
<1> QED  BY <1>1, <1>2, <1>3, <1>4

-----------------------------------------------------------------------------
(* Steps                                                                   *)

TabInv == Basic(tab) /\ Guarded(tab) /\ (tab.current = "start" => ~posted) /\ (orderly => Own(tab))

LEMMA OwnersStay ==
    ASSUME TokenInv, [TokenNext]_tokenVars, NEW t \in Tokens, owner[t] # None
    PROVE  owner'[t] = owner[t]
<1>1. ASSUME NEW s \in Tokens, NEW u, Generate(s, u) PROVE owner'[t] = owner[t]
  <2>1. owner[s] = None /\ owner' = [owner EXCEPT ![s] = u]  BY <1>1 DEF Generate, Tokens
  <2> QED  BY <2>1 DEF TokenInv, TokenTypeOK
<1>2. UNCHANGED owner \/ \E s \in Tokens : \E u : Generate(s, u)
  BY DEF TokenNext, tokenVars, CreateToken, Save, Logout, ReplaceToken, Answer, Expire
<1> QED  BY <1>1, <1>2

LEMMA WebIsToken ==
    ASSUME Basic(tab), [WebNext]_webVars
    PROVE  [TokenNext]_tokenVars
<1>1. ASSUME NEW page, Open(page) \/ Visit(page) PROVE UNCHANGED tokenVars
  BY <1>1 DEF Open, Visit, tokenVars
<1>2. ASSUME NEW u \in Users, SubmitLogin(u) PROVE TokenNext
  BY <1>2, TabAssumption DEF SubmitLogin, TokenNext
<1>3. CASE SubmitLogout
  <2>1. Logout(Tab, tab.cookie) /\ tab.cookie # None  BY <1>3 DEF SubmitLogout
  <2>2. tab.cookie \in Tokens /\ owner[tab.cookie] # None  BY <2>1 DEF Basic, Tabs
  <2> QED  BY <2>1, <2>2, TabAssumption DEF TokenNext
<1>4. CASE Answered
  BY <1>4, TabAssumption DEF Answered, TokenNext
<1>5. CASE Page
  BY <1>5 DEF Page, Confirm, Nav, MenusArrive, tokenVars
<1>6. CASE Elsewhere
  BY <1>6, TabAssumption DEF Elsewhere, TokenNext
<1>7. CASE UNCHANGED webVars
  BY <1>7 DEF webVars, tokenVars
<1> QED  BY <1>1, <1>2, <1>3, <1>4, <1>5, <1>6, <1>7 DEF WebNext

LEMMA InitTab == WebInit => TabInv
<1> SUFFICES ASSUME WebInit PROVE TabInv  OBVIOUS
<1>1. tab \in Tabs  BY DEF WebInit, Tabs
<1> QED  BY <1>1 DEF WebInit, TabInv, Basic, Answers, Guarded, Own

\* A step that leaves the tab as it is keeps what is known of it: owners stay.
LEMMA TabStays ==
    ASSUME TokenInv, TabInv, [TokenNext]_tokenVars, UNCHANGED tab,
           orderly' => orderly, posted' => posted \/ tab.current # "start"
    PROVE  TabInv'
<1>1. \A t \in Tokens : owner[t] # None => owner'[t] = owner[t]  BY OwnersStay
<1>2. tab.cookie \in Tokens \cup {None}  BY DEF TabInv, Basic, Tabs
<1>3. \A s \in Slots : tab.asked[s] # None => tab.asked[s].token \in Tokens \cup {None}
  BY DEF TabInv, Basic, Tabs, Requests
<1>4. tab.cookie # None => owner'[tab.cookie] = owner[tab.cookie]
  BY <1>1, <1>2 DEF TabInv, Basic
<1>5. \A s \in Slots : tab.asked[s] # None /\ tab.asked[s].token # None =>
         owner'[tab.asked[s].token] = owner[tab.asked[s].token]
  BY <1>1, <1>3 DEF TabInv, Basic, Answers
<1>6. Answers(tab)'  BY <1>5 DEF TabInv, Basic, Answers
<1>7. Basic(tab)'  BY <1>4, <1>6 DEF TabInv, Basic
<1>8. orderly' => Own(tab)'  BY <1>4 DEF TabInv, Own
<1> QED  BY <1>7, <1>8 DEF TabInv, Guarded

\* A step of the tab itself: the tokens stay as they are.
LEMMA TabBecomes ==
    ASSUME UNCHANGED owner, Basic(tab'), Guarded(tab'), tab'.current = "start" => ~posted',
           orderly' => Own(tab')
    PROVE  TabInv'
<1>1. Basic(tab)'  BY DEF Basic, Answers
<1>2. orderly' => Own(tab)'  BY DEF Own
<1> QED  BY <1>1, <1>2 DEF TabInv, Guarded

LEMMA GoBasic ==
    ASSUME NEW b, Basic(b), NEW page \in {"login", "main"},
           page = "main" => b.added \/ Free(b) # {}
    PROVE  /\ Basic(Go(b, page)) /\ Guarded(Go(b, page)) /\ (Own(b) => Own(Go(b, page)))
           /\ Go(b, page).current = b.current
BY GoLoginBasic, GoMainBasic DEF Go

LEMMA OpenKeeps ==
    ASSUME TabInv, NEW page \in {"login", "main"}, Open(page)
    PROVE  TabInv' /\ tab'.current = "start"
<1> DEFINE b == [tab EXCEPT !.added = FALSE, !.current = "start", !.pending = None,
                            !.loads = FALSE, !.asked = [s \in Slots |-> None]]
<1>1. b \in Tabs /\ b.cookie = tab.cookie /\ ~b.added /\ b.current = "start"
      /\ b.asked = [s \in Slots |-> None]
  BY DEF TabInv, Basic, Tabs
<1>2. tab' = Go(b, page) /\ posted' = FALSE /\ UNCHANGED owner  BY DEF Open
<1> HIDE DEF b
<1>3. Basic(b) /\ Own(b)  BY <1>1 DEF TabInv, Basic, Answers, Own
<1>4. Slots # {} => Free(b) # {}  BY <1>1 DEF Free
<1>5. page = "main" => b.added \/ Free(b) # {}
  BY <1>4, TabAssumption
<1> QED  BY <1>1, <1>2, <1>3, <1>5, GoBasic, TabBecomes

LEMMA VisitKeeps ==
    ASSUME TabInv, NEW page \in {"login", "main"}, Visit(page)
    PROVE  TabInv' /\ tab'.current = tab.current
<1>1. tab' = Go(tab, page) /\ UNCHANGED <<owner, posted, orderly>> /\ tab.current # "start"
      /\ (page = "main" => tab.added \/ Free(tab) # {})
  BY DEF Visit
<1> QED  BY <1>1, GoBasic, TabBecomes DEF TabInv

LEMMA AnsweredKeeps ==
    ASSUME TokenInv, TabInv, Answered
    PROVE  TabInv' /\ tab'.current = tab.current
<1> DEFINE answer == thread[Tab]
<1>1. UNCHANGED owner /\ posted' = FALSE  BY DEF Answered, Answer
<1>2. CASE posted /\ answer.op = "loggedIn"
  <2> DEFINE b == [tab EXCEPT !.cookie = answer.token]
  <2>1. answer.token \in Tokens /\ owner[answer.token] # None /\ answer.token # None
    BY <1>2, TabAssumption, TokenAssumption DEF TokenInv, ThreadsInv, Tokens
  <2>2. b \in Tabs /\ b.cookie = answer.token /\ b.added = tab.added /\ b.asked = tab.asked
        /\ b.current = tab.current
    BY <2>1 DEF TabInv, Basic, Tabs
  <2>3. tab' = GoMain(b) /\ (tab.added \/ Free(tab) # {})
        /\ orderly' = (orderly /\ tab.cookie = None /\ Free(tab) = Slots)
    BY <1>2 DEF Answered
  <2> HIDE DEF b
  <2>4. Basic(b)  BY <2>1, <2>2 DEF TabInv, Basic, Answers
  <2>5. b.added \/ Free(b) # {}  BY <2>2, <2>3 DEF Free
  <2>6. orderly' => Own(b)  BY <2>1, <2>2, <2>3 DEF TabInv, Own, Free
  <2> QED  BY <1>1, <2>2, <2>3, <2>4, <2>5, <2>6, GoMainBasic, TabBecomes
<1>3. CASE posted /\ answer.op = "loggedOut"
  <2> DEFINE b == ClearLoginInfo(tab)
  <2>1. tab' = GoLogin(b) /\ orderly' = (orderly /\ Free(tab) = Slots)
    BY <1>3 DEF Answered
  <2>2. Basic(b) /\ b.current = tab.current /\ (orderly' => Own(b))
    BY <2>1, ClearBasic DEF TabInv
  <2> HIDE DEF b
  <2> QED  BY <1>1, <2>1, <2>2, GoLoginBasic, TabBecomes
<1>4. CASE ~(posted /\ answer.op \in {"loggedIn", "loggedOut"})
  <2>1. UNCHANGED <<tab, orderly>>  BY <1>4 DEF Answered
  <2> QED  BY <1>1, <2>1, TabBecomes DEF TabInv
<1> QED  BY <1>2, <1>3, <1>4

LEMMA NavKeeps ==
    ASSUME TokenInv, TabInv, NEW t \in Slots, Nav(t)
    PROVE  TabInv' /\ tab'.current = tab.current
<1> DEFINE q == tab.asked[t]
<1>1. q \in Requests  BY DEF Nav, TabInv, Basic, Tabs
<1>2. UNCHANGED <<owner, posted, orderly>>  BY DEF Nav
<1>3. ASSUME NEW n, n \in Requests, n.token = q.token,
             n.answer = "menus" => n.token # None /\ n.menus = owner[n.token],
             tab' = [tab EXCEPT !.asked[t] = n]
      PROVE  TabInv' /\ tab'.current = tab.current
  <2>1. /\ tab' \in Tabs /\ tab'.cookie = tab.cookie /\ tab'.added = tab.added
        /\ tab'.menus = tab.menus /\ tab'.current = tab.current /\ tab'.pending = tab.pending
        /\ tab'.loads = tab.loads /\ tab'.asked = [tab.asked EXCEPT ![t] = n]
    BY <1>3 DEF TabInv, Basic, Tabs
  <2>2. \A s \in Slots : tab'.asked[s] = IF s = t THEN n ELSE tab.asked[s]
    BY <2>1 DEF TabInv, Basic, Tabs
  <2>3. q # None  BY DEF Nav
  <2>4. Basic(tab')  BY <1>3, <2>1, <2>2, <2>3 DEF TabInv, Basic, Answers
  <2>5. Guarded(tab')  BY <2>1 DEF TabInv, Guarded
  <2>6. orderly => Own(tab')  BY <1>3, <2>1, <2>2, <2>3 DEF TabInv, Own
  <2> QED  BY <1>2, <2>1, <2>4, <2>5, <2>6, TabBecomes DEF TabInv
<1>4. ASSUME NEW u \in Users, AcceptedFor(q.token, u),
             tab' = [tab EXCEPT !.asked[t].answer = "menus", !.asked[t].menus = u]
      PROVE  TabInv' /\ tab'.current = tab.current
  <2> DEFINE n == [q EXCEPT !.answer = "menus", !.menus = u]
  <2>1. n \in Requests /\ n.token = q.token /\ n.menus = u  BY <1>1 DEF Requests
  <2>2. row[u] \in Rows /\ q.token \in Tokens /\ q.token # None /\ owner[q.token] = u
    BY <1>4, TokenAssumption DEF AcceptedFor, TokenInv, TokenTypeOK, RowsOwned, Rows, Tokens
  <2>3. tab' = [tab EXCEPT !.asked[t] = n]
    BY <1>1, <1>4 DEF TabInv, Basic, Tabs, Requests
  <2> HIDE DEF n
  <2> QED  BY <1>3, <2>1, <2>2, <2>3
<1>5. ASSUME NEW a \in {"refused", "error"}, tab' = [tab EXCEPT !.asked[t].answer = a]
      PROVE  TabInv' /\ tab'.current = tab.current
  <2> DEFINE n == [q EXCEPT !.answer = a]
  <2>1. n \in Requests /\ n.token = q.token /\ n.answer = a  BY <1>1 DEF Requests
  <2>2. tab' = [tab EXCEPT !.asked[t] = n]
    BY <1>1, <1>5 DEF TabInv, Basic, Tabs, Requests
  <2> HIDE DEF n
  <2> QED  BY <1>3, <2>1, <2>2
<1> QED  BY <1>4, <1>5 DEF Nav

LEMMA MenusArriveKeeps ==
    ASSUME TabInv, NEW t \in Slots, MenusArrive(t)
    PROVE  TabInv' /\ tab'.current = tab.current
<1>1. tab' = WithAnswer(tab, t) /\ UNCHANGED <<owner, posted, orderly>>
      /\ tab.asked[t] # None /\ tab.asked[t].answer # "none"
  BY DEF MenusArrive
<1> QED  BY <1>1, WithAnswerBasic, TabBecomes DEF TabInv

LEMMA ConfirmKeeps ==
    ASSUME TabInv, Confirm
    PROVE  TabInv' /\ (tab.current = "start" /\ tab'.current = "main" => tab.cookie # None)
<1>1. /\ tab' \in Tabs /\ tab'.cookie = tab.cookie /\ tab'.added = tab.added
      /\ tab'.menus = tab.menus /\ tab'.asked = tab.asked /\ tab'.current = tab.pending
      /\ tab'.current # "start"
  BY TabAssumption DEF Confirm, TabInv, Basic, Tabs
<1>2. UNCHANGED <<owner, posted, orderly>> /\ tab.loads  BY DEF Confirm
<1>3. Basic(tab') /\ Guarded(tab') /\ (orderly => Own(tab'))
  BY <1>1 DEF TabInv, Basic, Answers, Guarded, Own
<1> QED  BY <1>1, <1>2, <1>3, TabBecomes DEF TabInv, Guarded

Inv == TokenInv /\ TabInv /\ WebTypeOK

LEMMA Step ==
    ASSUME Inv, [WebNext]_webVars
    PROVE  /\ Inv'
           /\ tab.current = "start" /\ tab'.current = "main" => tab.cookie # None
<1>1. [TokenNext]_tokenVars  BY WebIsToken DEF Inv, TabInv
<1>2. TokenInv'  BY <1>1, TokenStep DEF Inv
<1> DEFINE Goal == TabInv' /\ (tab.current = "start" /\ tab'.current = "main" => tab.cookie # None)
           Types == posted' \in BOOLEAN /\ moves' \in 0..MaxMoves /\ orderly' \in BOOLEAN
<1>3. ASSUME NEW page \in {"login", "main"}, Open(page) \/ Visit(page) PROVE Goal /\ Types
  <2>1. CASE Open(page)
    <3>1. Goal  BY <2>1, OpenKeeps, TabAssumption DEF Inv
    <3>2. moves' \in 0..MaxMoves  BY <2>1, TabAssumption DEF Inv, WebTypeOK, Open, Moves
    <3> QED  BY <2>1, <3>1, <3>2 DEF Open
  <2>2. CASE Visit(page)
    <3>1. Goal  BY <2>2, VisitKeeps DEF Inv, Visit
    <3>2. moves' \in 0..MaxMoves  BY <2>2, TabAssumption DEF Inv, WebTypeOK, Visit, Moves
    <3> QED  BY <2>2, <3>1, <3>2 DEF Visit, Inv, WebTypeOK
  <2> QED  BY <1>3, <2>1, <2>2
<1>4. ASSUME NEW u \in Users, SubmitLogin(u) PROVE Goal /\ Types
  BY <1>1, <1>4, TabStays, TabAssumption DEF Inv, WebTypeOK, SubmitLogin, Moves
<1>5. ASSUME SubmitLogout PROVE Goal /\ Types
  BY <1>1, <1>5, TabStays, TabAssumption DEF Inv, WebTypeOK, SubmitLogout, Moves
<1>6. ASSUME Answered PROVE Goal /\ Types
  <2>1. Goal  BY <1>6, AnsweredKeeps DEF Inv
  <2>2. Types  BY <1>6 DEF Answered, Inv, WebTypeOK
  <2> QED  BY <2>1, <2>2
<1>7. ASSUME Page PROVE Goal /\ Types
  <2>1. Goal  BY <1>7, NavKeeps, MenusArriveKeeps, ConfirmKeeps DEF Page, Inv
  <2>2. UNCHANGED <<posted, moves, orderly>>  BY <1>7 DEF Page, Nav, MenusArrive, Confirm
  <2> QED  BY <2>1, <2>2 DEF Inv, WebTypeOK
<1>8. ASSUME Elsewhere PROVE Goal /\ Types
  BY <1>1, <1>8, TabStays DEF Inv, WebTypeOK, Elsewhere
<1>9. ASSUME UNCHANGED webVars PROVE Goal /\ Types
  <2>1. UNCHANGED <<tab, posted, moves, orderly>>  BY <1>9 DEF webVars
  <2> QED  BY <1>1, <2>1, TabStays DEF Inv, WebTypeOK
<1>10. Goal /\ Types
  BY <1>3, <1>4, <1>5, <1>6, <1>7, <1>8, <1>9 DEF WebNext
<1> QED  BY <1>2, <1>10 DEF Inv, WebTypeOK, TokenInv, TabInv, Basic

LEMMA InvHolds == WebSpec => []Inv
<1>1. WebInit => Inv
  <2> SUFFICES ASSUME WebInit PROVE Inv  OBVIOUS
  <2>1. TokenInv  BY InitTokens DEF WebInit
  <2>2. TabInv  BY InitTab
  <2>3. posted \in BOOLEAN /\ moves \in 0..MaxMoves /\ orderly \in BOOLEAN
    <3>1. posted = FALSE /\ moves = 0 /\ orderly = TRUE  BY DEF WebInit
    <3>2. MaxMoves \in Nat  BY TabAssumption
    <3>3. moves \in 0..MaxMoves  BY <3>1, <3>2
    <3> QED  BY <3>1, <3>3
  <2>4. TokenTypeOK /\ tab \in Tabs  BY <2>1, <2>2 DEF TokenInv, TabInv, Basic
  <2> QED  BY <2>1, <2>2, <2>3, <2>4 DEF Inv, WebTypeOK
<1> QED  BY <1>1, Step, PTL DEF WebSpec

-----------------------------------------------------------------------------
(* What a navigation comes to                                              *)

\* As long as nothing is shown a view is on its way, or the menus that are waited for.
Awaits(b) == \E s \in Slots : b.asked[s] # None /\ ~b.asked[s].stale
On(b) == b.current = "start" => b.pending # None /\ (b.loads \/ Awaits(b))

LEMMA LoadGoes ==
    ASSUME NEW b, Basic(b), b.pending # None
    PROVE  On(Load(b))
<1>1. Load(b).loads /\ Load(b).pending = b.pending  BY DEF Basic, Tabs, Load
<1> QED  BY <1>1 DEF On

LEMMA GoLoginGoes ==
    ASSUME NEW b, Basic(b), b.current = "start"
    PROVE  On(GoLogin(b))
<1>1. GoLogin(b) = Load(Begin(b, "login"))  BY DEF GoLogin
<1>2. Basic(Begin(b, "login")) /\ Begin(b, "login").pending = "login"  BY BeginBasic
<1> QED  BY <1>1, <1>2, LoadGoes, TabAssumption

LEMMA BeforeEnterGoes ==
    ASSUME NEW b, Basic(b), b.current = "start", b.pending # None
    PROVE  On(BeforeEnter(b))
<1>1. CASE b.cookie # None
  BY <1>1, LoadGoes DEF BeforeEnter
<1>2. CASE b.cookie = None
  <2>1. BeforeEnter(b) = GoLogin(ClearLoginInfo(b))  BY <1>2 DEF BeforeEnter
  <2>2. Basic(ClearLoginInfo(b)) /\ ClearLoginInfo(b).current = "start"  BY <1>2, ClearBasic
  <2> QED  BY <2>1, <2>2, GoLoginGoes
<1> QED  BY <1>1, <1>2

LEMMA GoMainGoes ==
    ASSUME NEW b, Basic(b), b.current = "start", b.added \/ Free(b) # {}
    PROVE  On(GoMain(b))
<1> DEFINE c == Begin(b, "main")
           f == CHOOSE s \in Free(b) : TRUE
           new == [token |-> c.cookie, answer |-> "none", menus |-> None, stale |-> FALSE]
           d == Ask(c, f)
<1>1. Basic(c) /\ c.current = "start" /\ c.pending = "main" /\ c.pending # None
  BY BeginBasic, TabAssumption
<1>2. CASE b.added
  BY <1>1, <1>2, BeforeEnterGoes DEF GoMain
<1>3. CASE ~b.added
  <2>1. f \in Slots  BY <1>3 DEF Free
  <2>2. GoMain(b) = d  BY <1>3 DEF GoMain
  <2> HIDE DEF c, f
  <2>3. new \in Requests /\ ~new.stale  BY <1>1 DEF Basic, Tabs, Requests
  <2>4. new # None  BY <2>3, TabAssumption
  <2>5. d = [c EXCEPT !.asked[f] = new]  BY DEF Ask
  <2> HIDE DEF new, d
  <2>6. d.asked[f] = new /\ d.pending = c.pending  BY <1>1, <2>1, <2>5 DEF Basic, Tabs
  <2> QED  BY <1>1, <2>1, <2>2, <2>3, <2>4, <2>6 DEF On, Awaits
<1> QED  BY <1>2, <1>3

\* The answer that the navigation waits for takes it on, whatever it is; one that it
\* does not wait for takes nothing away.
LEMMA WithAnswerGoes ==
    ASSUME NEW b, Basic(b), Guarded(b), On(b), NEW t \in Slots, b.asked[t] # None, b.asked[t].answer # "none"
    PROVE  On(WithAnswer(b, t))
<1> SUFFICES ASSUME b.current = "start" PROVE On(WithAnswer(b, t))
  BY WithAnswerBasic DEF On
<1>1. b.asked[t].answer \in {"menus", "refused", "error"}
  BY DEF Basic, Tabs, Requests
<1>2. CASE b.asked[t].answer = "menus"
  <2> DEFINE c == WithMenus(b, t)
             d == Done(c, t)
  <2>1. Basic(c) /\ c.current = "start"  BY <1>2, WithMenusBasic
  <2>2. WithAnswer(b, t) = GoMain(d)  BY <1>2 DEF WithAnswer
  <2> HIDE DEF c
  <2>3. Basic(d) /\ d.current = "start" /\ Free(d) # {}  BY <2>1, DoneBasic
  <2> HIDE DEF d
  <2> QED  BY <2>2, <2>3, GoMainGoes
<1>3. CASE b.asked[t].answer = "refused"
  <2> DEFINE e == [b EXCEPT !.menus = None]
             c == Done(e, t)
  <2>1. Basic(e) /\ e.current = "start" /\ e.pending = b.pending /\ e.loads = b.loads
    BY EmptyBasic
  <2>2. e.asked = b.asked  BY DEF Basic, Tabs
  <2>3. WithAnswer(b, t) = IF b.asked[t].stale THEN c ELSE BeforeEnter(c)
    BY <1>3 DEF WithAnswer, Refused
  <2>4. \A s \in Slots : c.asked[s] = IF s = t THEN None ELSE b.asked[s]
    BY <2>2 DEF Basic, Tabs, Done
  <2> HIDE DEF e
  <2>5. Basic(c) /\ c.current = "start" /\ c.pending = b.pending /\ c.loads = b.loads
    BY <2>1, DoneBasic
  <2> HIDE DEF c
  <2>6. CASE b.asked[t].stale
    <3>1. b.loads \/ Awaits(c)  BY <2>4, <2>6 DEF On, Awaits
    <3> QED  BY <2>3, <2>5, <2>6, <3>1 DEF On
  <2>7. CASE ~b.asked[t].stale
    BY <2>3, <2>5, <2>7, BeforeEnterGoes DEF On
  <2> QED  BY <2>6, <2>7
<1>4. CASE b.asked[t].answer = "error"
  <2> DEFINE c == Done(b, t)
  <2>1. Basic(c) /\ c.current = "start"  BY DoneBasic
  <2>2. WithAnswer(b, t) = GoLogin(c)  BY <1>4 DEF WithAnswer, AfterError
  <2> HIDE DEF c
  <2> QED  BY <2>1, <2>2, GoLoginGoes
<1> QED  BY <1>1, <1>2, <1>3, <1>4

LEMMA NavGoes ==
    ASSUME Basic(tab), On(tab), NEW t \in Slots, Nav(t)
    PROVE  On(tab')
<1> DEFINE q == tab.asked[t]
<1>1. q \in Requests /\ q # None  BY DEF Nav, Basic, Tabs
<1>2. ASSUME NEW n, n \in Requests, n.stale = q.stale, tab' = [tab EXCEPT !.asked[t] = n]
      PROVE  On(tab')
  <2>1. /\ tab'.current = tab.current /\ tab'.pending = tab.pending /\ tab'.loads = tab.loads
        /\ \A s \in Slots : tab'.asked[s] = IF s = t THEN n ELSE tab.asked[s]
    BY <1>2 DEF Basic, Tabs
  <2>2. n # None  BY <1>2, TabAssumption
  <2> QED  BY <1>1, <1>2, <2>1, <2>2 DEF On, Awaits
<1>3. ASSUME NEW u \in Users, tab' = [tab EXCEPT !.asked[t].answer = "menus", !.asked[t].menus = u]
      PROVE  On(tab')
  <2> DEFINE n == [q EXCEPT !.answer = "menus", !.menus = u]
  <2>1. n \in Requests /\ n.stale = q.stale  BY <1>1 DEF Requests
  <2>2. tab' = [tab EXCEPT !.asked[t] = n]  BY <1>1, <1>3 DEF Basic, Tabs, Requests
  <2> HIDE DEF n
  <2> QED  BY <1>2, <2>1, <2>2
<1>4. ASSUME NEW a \in {"refused", "error"}, tab' = [tab EXCEPT !.asked[t].answer = a]
      PROVE  On(tab')
  <2> DEFINE n == [q EXCEPT !.answer = a]
  <2>1. n \in Requests /\ n.stale = q.stale  BY <1>1 DEF Requests
  <2>2. tab' = [tab EXCEPT !.asked[t] = n]  BY <1>1, <1>4 DEF Basic, Tabs, Requests
  <2> HIDE DEF n
  <2> QED  BY <1>2, <2>1, <2>2
<1> QED  BY <1>3, <1>4 DEF Nav

LEMMA OpenGoes ==
    ASSUME TabInv, NEW page \in {"login", "main"}, Open(page)
    PROVE  On(tab')
<1> DEFINE b == [tab EXCEPT !.added = FALSE, !.current = "start", !.pending = None,
                            !.loads = FALSE, !.asked = [s \in Slots |-> None]]
<1>1. b \in Tabs /\ b.cookie = tab.cookie /\ ~b.added /\ b.current = "start"
      /\ b.asked = [s \in Slots |-> None]
  BY DEF TabInv, Basic, Tabs
<1>2. tab' = Go(b, page)  BY DEF Open
<1> HIDE DEF b
<1>3. Basic(b)  BY <1>1 DEF TabInv, Basic, Answers
<1>4. Free(b) # {}  BY <1>1, TabAssumption DEF Free
<1> QED  BY <1>1, <1>2, <1>3, <1>4, GoLoginGoes, GoMainGoes DEF Go

NavInv == moves > 0 => On(tab)

LEMMA NavStep ==
    ASSUME Inv, NavInv, [WebNext]_webVars
    PROVE  NavInv'
<1> SUFFICES ASSUME moves' > 0 PROVE On(tab')  BY DEF NavInv, On, Awaits
<1>1. ASSUME NEW page \in {"login", "main"}, Open(page) PROVE On(tab')
  BY <1>1, OpenGoes DEF Inv
<1>2. ASSUME NEW page \in {"login", "main"}, Visit(page) PROVE On(tab')
  <2>1. tab.current # "start"  BY <1>2 DEF Visit
  <2> QED  BY <1>2, <2>1, VisitKeeps DEF Inv, On
<1>3. CASE SubmitLogout \/ \E u \in Users : SubmitLogin(u)
  <2>1. tab' = tab /\ tab.current # "start"  BY <1>3 DEF SubmitLogin, SubmitLogout
  <2> QED  BY <2>1 DEF On
<1>4. CASE Answered
  <2>1. moves > 0  BY <1>4 DEF Answered
  <2>2. CASE posted
    BY <1>4, <2>2, AnsweredKeeps DEF Inv, TabInv, On
  <2>3. CASE ~posted
    BY <1>4, <2>1, <2>3 DEF Answered, NavInv
  <2> QED  BY <2>2, <2>3
<1>5. CASE Page
  <2>1. moves > 0  BY <1>5 DEF Page, Nav, MenusArrive, Confirm
  <2>2. CASE Confirm
    <3>1. tab'.current # "start"
      BY <2>2, TabAssumption DEF Confirm, Inv, TabInv, Basic, Tabs
    <3> QED  BY <3>1 DEF On
  <2>3. ASSUME NEW s \in Slots, Nav(s) PROVE On(tab')
    BY <2>1, <2>3, NavGoes DEF NavInv, Inv, TabInv
  <2>4. ASSUME NEW s \in Slots, MenusArrive(s) PROVE On(tab')
    BY <2>1, <2>4, WithAnswerGoes DEF MenusArrive, NavInv, Inv, TabInv
  <2> QED  BY <1>5, <2>2, <2>3, <2>4 DEF Page
<1>6. CASE Elsewhere \/ UNCHANGED webVars
  <2>1. UNCHANGED <<tab, moves>>  BY <1>6 DEF Elsewhere, webVars
  <2> QED  BY <2>1 DEF NavInv
<1> QED  BY <1>1, <1>2, <1>3, <1>4, <1>5, <1>6 DEF WebNext

-----------------------------------------------------------------------------
\* Types, for any users, threads, tokens and requests: the fields of the tab, and that
\* what is written to a row is a token with its expiry.
THEOREM TypeCorrect == WebSpec => []WebTypeOK
<1>1. Inv => WebTypeOK  BY DEF Inv
<1> QED  BY <1>1, InvHolds, PTL

\* createToken, logout and the expiry never bring back a token that was accepted and
\* then was not.
THEOREM TokensStayRevoked == WebSpec => []RevokedStaysRevoked
<1>1. Inv => RevokedStaysRevoked  BY TokenInvSuffices DEF Inv
<1> QED  BY <1>1, InvHolds, PTL

\* A logout that was answered has put an end to the token that asked for it.
THEOREM LogoutsRevoke == WebSpec => []LogoutRevokes
<1>1. Inv => LogoutRevokes  BY TokenInvSuffices DEF Inv
<1> QED  BY <1>1, InvHolds, PTL

\* The tab of an orderly user has no menus of somebody else, for any number of
\* requests in any order.
THEOREM MenusStayOwn == WebSpec => []MenusAreOwn
<1>1. Inv => MenusAreOwn  BY DEF Inv, TabInv, Own, MenusAreOwn
<1> QED  BY <1>1, InvHolds, PTL

\* A page that is opened enters main with a token only.
THEOREM MainGuarded == WebSpec => EnteredLoggedIn
<1>1. Inv /\ [WebNext]_webVars =>
        [tab.current = "start" /\ tab'.current = "main" => tab.cookie # None]_webVars
  BY Step
<1> QED  BY <1>1, InvHolds, PTL DEF WebSpec, EnteredLoggedIn

\* An opened page does not get stuck on its way to its first view: until one is shown its
\* navigation is pending and either its view or the menus it waits for are on their way,
\* however many requests are open and whatever they are answered.
THEOREM NavigationsGoOn == WebSpec => []NavigationGoesOn
<1>1. WebInit => NavInv  BY DEF WebInit, NavInv
<1>2. Inv /\ NavInv /\ [WebNext]_webVars => NavInv'  BY NavStep
<1>3. NavInv => NavigationGoesOn  BY DEF NavInv, On, Awaits, NavigationGoesOn
<1> QED  BY <1>1, <1>2, <1>3, InvHolds, PTL DEF WebSpec
=============================================================================
