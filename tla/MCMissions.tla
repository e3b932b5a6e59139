------------------------------- MODULE MCMissions -------------------------------
(***************************************************************************)
(* Small instances of Missions for TLC: missions of two targets.           *)
(***************************************************************************)
EXTENDS Missions

CONSTANTS m1, m2, r1, r2, c1, c2

MCTotal == [m \in Missions |-> IF m = m1 THEN 2 ELSE 1]

=============================================================================
