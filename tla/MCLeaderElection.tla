---------------------------- MODULE MCLeaderElection ----------------------------
(***************************************************************************)
(* A small instance of LeaderElection for TLC.                             *)
(***************************************************************************)
EXTENDS LeaderElection

CONSTANTS c1, c2

=============================================================================
