----------------------------- MODULE RemoteCalls -----------------------------
(***************************************************************************)
(* What a proxy promises its callers, with no pools, connections, callback *)
(* maps or event loops: a call is executed in place, or its request is     *)
(* sent once and executed at most once, and the caller returns with the    *)
(* result of its own request or with an exception.  Requests and results   *)
(* may get lost at any time and arrive in any order.  RpcClient implements *)
(* this specification.                                                     *)
(***************************************************************************)
EXTENDS Naturals

CONSTANTS Callers, Calls, Kinds, None

VARIABLES left,     \* calls each caller has still to make
          stage,    \* "idle", "calling" before the request is sent, "waiting" after
          req,      \* the request of each caller's last call
          answer,   \* what that call returned
          sent,     \* requests sent and not executed
          results   \* results of executions under way

rvars == <<left, stage, req, answer, sent, results>>

NoRequest == [caller |-> None, n |-> 0, kind |-> "local"]
Exception == [id |-> NoRequest, value |-> "exception"]
Execution(r) == [id |-> r, value |-> IF r.kind = "throws" THEN "null" ELSE "result"]

RInit ==
    /\ left = [c \in Callers |-> Calls]
    /\ stage = [c \in Callers |-> "idle"]
    /\ req = [c \in Callers |-> NoRequest]
    /\ answer = [c \in Callers |-> Exception]
    /\ sent = {}
    /\ results = {}

\* The call gets a number of its own, and with it its request.
Begin(c, kind) ==
    /\ stage[c] = "idle"
    /\ left[c] > 0
    /\ left' = [left EXCEPT ![c] = @ - 1]
    /\ req' = [req EXCEPT ![c] = [caller |-> c, n |-> left[c], kind |-> kind]]
    /\ UNCHANGED <<sent, results>>

CallRemote(c, kind) ==
    /\ Begin(c, kind)
    /\ stage' = [stage EXCEPT ![c] = "calling"]
    /\ UNCHANGED answer

CallLocal(c) ==
    /\ Begin(c, "local")
    /\ answer' = [answer EXCEPT ![c] = Execution(req'[c])]
    /\ UNCHANGED stage

\* The request is sent, or lost at once.
Send(c) ==
    /\ stage[c] = "calling"
    /\ stage' = [stage EXCEPT ![c] = "waiting"]
    /\ sent' \in {sent, sent \cup {req[c]}}
    /\ UNCHANGED <<left, req, answer, results>>

\* Executing a request uses it up; its result may be lost.
Execute(r) ==
    /\ r \in sent
    /\ sent' = sent \ {r}
    /\ results' \in {results, results \cup {Execution(r)}}
    /\ UNCHANGED <<left, stage, req, answer>>

\* What is under way may get lost; so does a result whose caller has given up.
Lose ==
    /\ sent' \subseteq sent
    /\ results' \subseteq results
    /\ UNCHANGED <<left, stage, req, answer>>

ReturnResult(c) ==
    /\ stage[c] = "waiting"
    /\ \E r \in results :
         /\ r.id = req[c]
         /\ answer' = [answer EXCEPT ![c] = r]
         /\ results' = results \ {r}
    /\ stage' = [stage EXCEPT ![c] = "idle"]
    /\ UNCHANGED <<left, req, sent>>

ThrowException(c) ==
    /\ stage[c] # "idle"
    /\ stage' = [stage EXCEPT ![c] = "idle"]
    /\ answer' = [answer EXCEPT ![c] = Exception]
    /\ UNCHANGED <<left, req, sent, results>>

RNext ==
    \/ \E c \in Callers :
         \/ \E kind \in Kinds : CallRemote(c, kind)
         \/ CallLocal(c) \/ Send(c) \/ ReturnResult(c) \/ ThrowException(c)
    \/ \E r \in sent : Execute(r)
    \/ Lose

RSpec == RInit /\ [][RNext]_rvars
=============================================================================
