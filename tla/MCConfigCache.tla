--------------------------- MODULE MCConfigCache ---------------------------
(* ConfigCache for TLC: threads are interchangeable, and so are keys. *)
EXTENDS ConfigCache, TLC

AnyOrder == Permutations(Procs) \cup Permutations(Keys)
=============================================================================
