-------------------------- MODULE MCPilotFileLock --------------------------
(* Model-checking instances of PilotFileLock.                              *)
EXTENDS PilotFileLock, TLC

CONSTANTS a1, a2, p1, p2

(* Two processes with one caller each.                                     *)
Pair == (a1 :> p1) @@ (a2 :> p2)
=============================================================================
