---------------------------- MODULE MCLockRedis ----------------------------
(* Model values for LockRedis.                                             *)
EXTENDS LockRedis, TLC

AnyOrder == Permutations(Clients)
=============================================================================
