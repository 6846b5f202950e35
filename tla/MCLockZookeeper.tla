-------------------------- MODULE MCLockZookeeper --------------------------
(* Model values for LockZookeeper.  Sharing: c1 and c2 live in one JVM, c3 *)
(* in another.  Apart: each client has a JVM of its own, named after it,   *)
(* so that permuting the clients permutes the JVMs with them.              *)
EXTENDS LockZookeeperProperties, TLC

CONSTANTS c1, c2, c3, p1, p2

Sharing == (c1 :> p1) @@ (c2 :> p1) @@ (c3 :> p2)
Apart == [c \in Clients |-> c]
AnyOrder == Permutations(Clients)
=============================================================================
