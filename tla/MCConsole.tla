------------------------------- MODULE MCConsole -------------------------------
(* One mission, whose rows and events no other mission touches.  The store *)
(* treats completed and failed alike.                                       *)
EXTENDS Console

CONSTANT m1

MCMissions == {m1}
================================================================================
