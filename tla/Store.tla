--------------------------------- MODULE Store ---------------------------------
(***************************************************************************)
(* The store stage: services/store/worker.py.  A store worker takes        *)
(* validated fields from validated_data (the stream q), inserts the row    *)
(* and increments the mission's job_done in one transaction; when that     *)
(* fails it increments job_failed in another and dead-letters the message. *)
(* The progress event it publishes after the acknowledgement is best       *)
(* effort: the step is here, the channel is not.                           *)
(***************************************************************************)
EXTENDS StreamWorker

CONSTANTS
    Jobs, Missions, Contents,
    MissionOf      \* MissionOf[j]: the job's mission_id

VARIABLES
    rows,       \* rows[j]: rows of scraped_data stored for job j
    jobDone,    \* jobDone[m]: column job_done of mission m
    jobFailed,  \* jobFailed[m]: column job_failed of mission m
    dead        \* what the dead_letters stream holds

local == <<rows, jobDone, jobFailed, dead>>
vars == <<loopVars, rows, jobDone, jobFailed, dead>>

ValidMessage == [job : Jobs, content : Contents]

DeadLetter == [job : Jobs, reason : Reasons]

HandlerLabels == {"start", "countFailed", "bury", "ack", "publish"}

Init ==
    /\ LoopInit
    /\ faults = 0
    /\ rows = [j \in Jobs |-> 0]
    /\ jobDone = [m \in Missions |-> 0]
    /\ jobFailed = [m \in Missions |-> 0]
    /\ dead = {}

InHandler == UNCHANGED <<after, batch, cur>>

Mission(w) == MissionOf[Msg(w).job]

-----------------------------------------------------------------------------
Loop(w) == LoopStep(w) /\ UNCHANGED local

CommitRow(w) ==
    /\ rows' = [rows EXCEPT ![Msg(w).job] = @ + 1]
    /\ jobDone' = [jobDone EXCEPT ![Mission(w)] = @ + 1]

\* Faulty variant of StoreRow: a row that was stored is dead-lettered as well.
StoreAndBury(w) ==
    /\ pc[w] = "start"
    /\ CommitRow(w)
    /\ Goto(w, "bury")
    /\ InHandler
    /\ UNCHANGED <<q, faults, jobFailed, dead>>

\* Faulty variant of Ack: no XACK.
AckNothing(w) ==
    /\ pc[w] = "ack"
    /\ Goto(w, "publish")
    /\ InHandler
    /\ UNCHANGED <<q, faults, local>>

\* The transaction: insert the row and increment job_done.
StoreRow(w) ==
    /\ pc[w] = "start"
    /\ CommitRow(w)
    /\ Goto(w, "ack")
    /\ InHandler
    /\ UNCHANGED <<q, faults, jobFailed, dead>>

\* It raises: rolled back, or committed with the answer lost.
StoreFails(w) ==
    /\ pc[w] = "start"
    /\ SpendFault
    /\ CommitRow(w) \/ UNCHANGED <<rows, jobDone>>
    /\ Goto(w, "countFailed")
    /\ InHandler
    /\ UNCHANGED <<q, jobFailed, dead>>

CommitFailure(w) == jobFailed' = [jobFailed EXCEPT ![Mission(w)] = @ + 1]

\* The second transaction: increment job_failed.
CountFailed(w) ==
    /\ pc[w] = "countFailed"
    /\ CommitFailure(w)
    /\ Goto(w, "bury")
    /\ InHandler
    /\ UNCHANGED <<q, faults, rows, jobDone, dead>>

\* An error of that transaction, committed or not, is logged and ignored.
CountFailedFails(w) ==
    /\ pc[w] = "countFailed"
    /\ SpendFault
    /\ CommitFailure(w) \/ UNCHANGED jobFailed
    /\ Goto(w, "bury")
    /\ InHandler
    /\ UNCHANGED <<q, rows, jobDone, dead>>

\* await move_to_dead_letters.
Bury(w) ==
    /\ pc[w] = "bury"
    /\ dead' = dead \cup {[job |-> Msg(w).job, reason |-> "db_error"]}
    /\ Goto(w, "ack")
    /\ InHandler
    /\ UNCHANGED <<q, faults, rows, jobDone, jobFailed>>

\* The xack, after which the handler goes on ...
Ack(w) ==
    /\ pc[w] = "ack"
    /\ q' = Xack(q, cur[w])
    /\ Goto(w, "publish")
    /\ InHandler
    /\ UNCHANGED <<faults, local>>

\* ... to the progress event, any error of which is ignored.
PublishProgress(w) ==
    /\ pc[w] = "publish"
    /\ Finish(w)
    /\ UNCHANGED <<q, faults, local>>

Handler(w) ==
    \/ StoreRow(w)
    \/ CountFailed(w)
    \/ Bury(w)
    \/ Ack(w)
    \/ PublishProgress(w)

Abort(w) == LoseBatch(w) /\ UNCHANGED local

ClaimFails(w) == ClaimError(w) /\ UNCHANGED local

Fault(w) == Abort(w) \/ ClaimFails(w) \/ StoreFails(w) \/ CountFailedFails(w)

Clock == ClockStep /\ UNCHANGED local

Next ==
    \/ \E w \in Workers : Loop(w) \/ Handler(w) \/ Fault(w)
    \/ Clock

-----------------------------------------------------------------------------
(* What the steps preserve.                                                *)

TypeOK ==
    /\ LoopTypeOK(ValidMessage, HandlerLabels)
    /\ rows \in [Jobs -> Nat]
    /\ jobDone \in [Missions -> Nat]
    /\ jobFailed \in [Missions -> Nat]
    /\ dead \subseteq DeadLetter

\* Entry i has been dealt with: its job has a row or a dead letter.
HandedOn(i) ==
    \/ rows[q.log[i].job] > 0
    \/ \E d \in dead : d.job = q.log[i].job

\* An entry is acknowledged, or about to be, only when it was dealt with; before
\* the progress event is published, it has been acknowledged.
EntryInv ==
    /\ \A i \in Ids(q) : i \in Unacked(q) \/ HandedOn(i)
    /\ \A w \in Workers : pc[w] = "ack" => HandedOn(cur[w])
    /\ \A w \in Workers : pc[w] = "publish" => cur[w] \notin Unacked(q)

CoreInv == TypeOK /\ WorkInv(HandlerLabels) /\ EntryInv

=============================================================================
