------------------------------ MODULE MCProcessor ------------------------------
(***************************************************************************)
(* Small instances of Processor for TLC: contents that one target returns  *)
(* over time.  A content can arrive again (a redelivery upstream, or the   *)
(* next round of a recurring mission).                                     *)
(***************************************************************************)
EXTENDS Processor

CONSTANTS w1, w2, j1, m1

MCMissionOf == [j \in Jobs |-> m1]
MCUrlOf == [j \in Jobs |-> "url"]
MCHeadOf == [c \in Contents |-> IF c = "b" THEN "other" ELSE "head"]

=============================================================================
