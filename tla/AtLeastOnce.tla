------------------------------ MODULE AtLeastOnce ------------------------------
(***************************************************************************)
(* What a stage of the pipeline, or the whole of it, promises about the    *)
(* items given to it, with its streams, workers, retries and crashes       *)
(* abstracted away:                                                        *)
(*                                                                         *)
(*   open      the items with work still owed to them                      *)
(*   settled   the items with an outcome: handed on, stored, or            *)
(*             dead-lettered                                               *)
(*   lost      the items whose work may be dropped without an outcome      *)
(*                                                                         *)
(* An item is closed only when it is settled or lost, only an open one     *)
(* is lost, what is settled or lost stays so, and every admitted item is   *)
(* in the end closed.  Delivery is at least once: an item that was closed  *)
(* may be opened again.                                                    *)
(***************************************************************************)
CONSTANT Items

VARIABLES open, settled, lost

vars == <<open, settled, lost>>

Init == open = {} /\ settled = {} /\ lost = {}

Admit(i) ==
    /\ i \notin open \cup settled \cup lost
    /\ open' = open \cup {i}
    /\ UNCHANGED <<settled, lost>>

Settle(i) ==
    /\ i \in open \cup lost
    /\ settled' = settled \cup {i}
    /\ UNCHANGED <<open, lost>>

\* All work on an open item is given up.
Lose(i) ==
    /\ i \in open
    /\ lost' = lost \cup {i}
    /\ open' \in {open, open \ {i}}
    /\ UNCHANGED settled

Close(i) ==
    /\ i \in open \cap (settled \cup lost)
    /\ open' = open \ {i}
    /\ UNCHANGED <<settled, lost>>

\* A retry or a redelivery of an item that was closed.
Reopen(i) ==
    /\ i \in settled \cup lost
    /\ open' = open \cup {i}
    /\ UNCHANGED <<settled, lost>>

Next == \E i \in Items : Admit(i) \/ Settle(i) \/ Lose(i) \/ Close(i) \/ Reopen(i)

Spec == Init /\ [][Next]_vars

FairSpec == Spec /\ \A i \in Items : WF_vars(Settle(i)) /\ WF_vars(Close(i))

=============================================================================
