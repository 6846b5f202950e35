------------------------------ MODULE FrontEnd ------------------------------
(***************************************************************************)
(* The page and what is loaded into it later: once the scripts of the page *)
(* have run and the application has started, its router asks the webpack   *)
(* runtime, which the script "manifest" has defined, for views.            *)
(***************************************************************************)
EXTENDS PageLoader, ChunkLoader

frontVars == <<pageVars, chunkVars>>

FrontInit == PageInit /\ ChunkInit

FrontNext ==
    \/ PageNext /\ UNCHANGED chunkVars
    \/ boots > 0 /\ ChunkNext /\ UNCHANGED pageVars

FrontSpec == FrontInit /\ [][FrontNext]_frontVars

FairFrontSpec == FrontSpec /\ PageFairness /\ ChunkFairness
=============================================================================
