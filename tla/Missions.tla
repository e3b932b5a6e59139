-------------------------------- MODULE Missions --------------------------------
(***************************************************************************)
(* The life of a mission's row: create_mission and cancel_mission of       *)
(* api_gateway/routers/missions.py, and the completion check of            *)
(* coordinator/coordinator.py, over the counters the store increments.     *)
(*                                                                         *)
(* The handlers and the check are coroutines of two services, and each     *)
(* action is one commit or query of theirs.  What happens to an enqueued   *)
(* job is the pipeline's affair (module Pipeline); here it ends counted as *)
(* done, counted as failed, or uncounted.  An update and its commit are    *)
(* one step, since the row is locked between them.  A command that is      *)
(* executed and then seen to fail is the step followed by an abort.        *)
(***************************************************************************)
EXTENDS Integers, FiniteSets

CONSTANTS
    Missions,       \* missions, each created by one request
    Total,          \* Total[m]: number of targets, job_total
    Cancels,        \* cancel requests
    Coordinators,   \* coordinators that take themselves for the leader
    MaxFaults       \* bound on aborted handlers and repeated counts

VARIABLES
    status,     \* status[m]: column status, "none" before the row exists
    done,       \* done[m]: column job_done
    failed,     \* failed[m]: column job_failed
    queued,     \* queued[m]: targets that create_mission has enqueued
    inFlight,   \* inFlight[m]: jobs enqueued that have not ended
    create,     \* create[m]: what create_mission does next
    cancel,     \* cancel[r]: what cancel_mission does next, and its mission
    todo,       \* todo[c]: updates that the completion check of c still makes
    faults,     \* how many faults have happened
    raced       \* history: raced[m], see Outdated

jobVars == <<done, failed, inFlight>>
vars == <<status, jobVars, queued, create, cancel, todo, faults, raced>>

ASSUME MissionsAssumption ==
    /\ Total \in [Missions -> Nat \ {0}]
    /\ MaxFaults \in Nat

\* PAUSED is left out: no code writes it.
Statuses == {"none", "pending", "running", "completed", "failed", "cancelled"}

\* The statuses in which cancel_mission refuses.
Final == {"completed", "cancelled"}

Ended == {"completed", "failed"}

Update == [mission : Missions, status : Ended]

\* Where a cancel request is: waiting to update the row of a mission, or not.
CancelStates == [pc : {"idle", "refused", "accepted"}] \cup [pc : {"update"}, mission : Missions]

Init ==
    /\ status = [m \in Missions |-> "none"]
    /\ done = [m \in Missions |-> 0]
    /\ failed = [m \in Missions |-> 0]
    /\ queued = [m \in Missions |-> 0]
    /\ inFlight = [m \in Missions |-> 0]
    /\ create = [m \in Missions |-> "idle"]
    /\ cancel = [r \in Cancels |-> [pc |-> "idle"]]
    /\ todo = [c \in Coordinators |-> {}]
    /\ faults = 0
    /\ raced = [m \in Missions |-> FALSE]

SpendFault == faults < MaxFaults /\ faults' = faults + 1

\* Some handler will write the status of m by what it read or did before.
Outdated(m) ==
    \/ create[m] \in {"enqueue", "run"}
    \/ \E r \in Cancels : cancel[r] = [pc |-> "update", mission |-> m]
    \/ \E c \in Coordinators : \E u \in todo[c] : u.mission = m

\* Writes the status of m; raced remembers who was about to write it too.
SetStatus(m, s) ==
    /\ status' = [status EXCEPT ![m] = s]
    /\ raced' = [raced EXCEPT ![m] = Outdated(m)']

-----------------------------------------------------------------------------
\* create_mission: the row, with all its counters at zero ...
Insert(m) ==
    /\ create[m] = "idle"
    /\ create' = [create EXCEPT ![m] = "enqueue"]
    /\ UNCHANGED <<jobVars, queued, cancel, todo, faults>>
    /\ SetStatus(m, "pending")

\* ... a job for each target ...
EnqueueTarget(m) ==
    /\ create[m] = "enqueue"
    /\ queued' = [queued EXCEPT ![m] = @ + 1]
    /\ inFlight' = [inFlight EXCEPT ![m] = @ + 1]
    /\ create' = [create EXCEPT ![m] = IF queued'[m] = Total[m] THEN "run" ELSE "enqueue"]
    /\ UNCHANGED <<status, done, failed, cancel, todo, faults, raced>>

\* A faulty variant: RUNNING before all jobs are enqueued.
StartEarly(m) ==
    /\ create[m] \in {"enqueue", "run"}
    /\ create' = [create EXCEPT ![m] = "done"]
    /\ UNCHANGED <<jobVars, queued, cancel, todo, faults>>
    /\ SetStatus(m, "running")

\* ... and the update to RUNNING, whatever the status has become.
Start(m) ==
    /\ create[m] = "run"
    /\ create' = [create EXCEPT ![m] = "done"]
    /\ UNCHANGED <<jobVars, queued, cancel, todo, faults>>
    /\ SetStatus(m, "running")

\* The gateway crashes, or an error ends the request.
AbortCreate(m) ==
    /\ create[m] \in {"enqueue", "run"}
    /\ SpendFault
    /\ create' = [create EXCEPT ![m] = "aborted"]
    /\ UNCHANGED <<status, jobVars, queued, cancel, todo, raced>>

-----------------------------------------------------------------------------
\* cancel_mission reads the row and refuses a final status ...
ReadStatus(r, m) ==
    /\ cancel[r].pc = "idle"
    /\ status[m] # "none"
    /\ cancel' = [cancel EXCEPT ![r] =
           IF status[m] \in Final THEN [pc |-> "refused"]
                                  ELSE [pc |-> "update", mission |-> m]]
    /\ UNCHANGED <<status, jobVars, queued, create, todo, faults, raced>>

\* ... or updates it.
MarkCancelled(r) ==
    \E m \in Missions :
        /\ cancel[r] = [pc |-> "update", mission |-> m]
        /\ cancel' = [cancel EXCEPT ![r] = [pc |-> "accepted"]]
        /\ UNCHANGED <<jobVars, queued, create, todo, faults>>
        /\ SetStatus(m, "cancelled")

AbortCancel(r) ==
    /\ cancel[r].pc = "update"
    /\ SpendFault
    /\ cancel' = [cancel EXCEPT ![r] = [pc |-> "refused"]]
    /\ UNCHANGED <<status, jobVars, queued, create, todo, raced>>

-----------------------------------------------------------------------------
\* A faulty variant: a status that the column does not know.
PartialStatus(m) ==
    IF failed[m] = 0 THEN "completed" ELSE IF done[m] = 0 THEN "failed" ELSE "partial"

\* The status that the counters ask for.
NewStatus(m) == IF failed[m] > 0 /\ done[m] = 0 THEN "failed" ELSE "completed"

\* Faulty variants: one job missing; equality instead of a bound.
OneShort(m) == done[m] + failed[m] >= Total[m] - 1
ExactlyCounted(m) == done[m] + failed[m] = Total[m]

AllCounted(m) == done[m] + failed[m] >= Total[m]

\* A faulty variant: the query leaves out the status.
SelectCounted(c) ==
    /\ todo[c] = {}
    /\ todo' = [todo EXCEPT ![c] =
           {[mission |-> m, status |-> NewStatus(m)] :
                m \in {m \in Missions : status[m] # "none" /\ AllCounted(m)}}]
    /\ UNCHANGED <<status, jobVars, queued, create, cancel, faults, raced>>

\* _check_mission_completion reads the running missions with their counters;
\* what it does about them depends on nothing it reads later.
SelectRunning(c) ==
    /\ todo[c] = {}
    /\ todo' = [todo EXCEPT ![c] =
           {[mission |-> m, status |-> NewStatus(m)] :
                m \in {m \in Missions : status[m] = "running" /\ AllCounted(m)}}]
    /\ UNCHANGED <<status, jobVars, queued, create, cancel, faults, raced>>

\* The update of one of them, in the order the query returned.
MarkEnded(c) ==
    \E u \in todo[c] :
        /\ todo' = [todo EXCEPT ![c] = @ \ {u}]
        /\ UNCHANGED <<jobVars, queued, create, cancel, faults>>
        /\ SetStatus(u.mission, u.status)

\* An error ends the check (or its coordinator); the loop starts another one.
AbortCheck(c) ==
    /\ todo[c] # {}
    /\ SpendFault
    /\ todo' = [todo EXCEPT ![c] = {}]
    /\ UNCHANGED <<status, jobVars, queued, create, cancel, raced>>

-----------------------------------------------------------------------------
Counters == UNCHANGED <<status, queued, create, cancel, todo, raced>>

\* The store stores a job and counts it as done.
JobStored(m) ==
    /\ inFlight[m] > 0
    /\ done' = [done EXCEPT ![m] = @ + 1]
    /\ inFlight' = [inFlight EXCEPT ![m] = @ - 1]
    /\ UNCHANGED <<failed, faults>> /\ Counters

\* The store fails to store a job and counts it as failed: a database error.
JobNotStored(m) ==
    /\ inFlight[m] > 0
    /\ SpendFault
    /\ failed' = [failed EXCEPT ![m] = @ + 1]
    /\ inFlight' = [inFlight EXCEPT ![m] = @ - 1]
    /\ UNCHANGED done /\ Counters

\* A job is dead-lettered before the store, or dropped as a duplicate.
JobUncounted(m) ==
    /\ inFlight[m] > 0
    /\ inFlight' = [inFlight EXCEPT ![m] = @ - 1]
    /\ UNCHANGED <<done, failed, faults>> /\ Counters

\* A job is counted and will be counted again: a redelivery after the store's
\* commit, or a commit whose answer is lost.
JobCountedTwice(m) ==
    /\ inFlight[m] > 0
    /\ SpendFault
    /\ \/ done' = [done EXCEPT ![m] = @ + 1] /\ UNCHANGED failed
       \/ failed' = [failed EXCEPT ![m] = @ + 1] /\ UNCHANGED done
    /\ UNCHANGED inFlight /\ Counters

-----------------------------------------------------------------------------
CreateMission(m) == Insert(m) \/ EnqueueTarget(m) \/ Start(m)

CancelMission(r) == MarkCancelled(r) \/ \E m \in Missions : ReadStatus(r, m)

CheckCompletion(c) == SelectRunning(c) \/ MarkEnded(c)

JobEnds(m) == JobStored(m) \/ JobUncounted(m)

Fault ==
    \/ \E m \in Missions : AbortCreate(m) \/ JobNotStored(m) \/ JobCountedTwice(m)
    \/ \E r \in Cancels : AbortCancel(r)
    \/ \E c \in Coordinators : AbortCheck(c)

Next ==
    \/ \E m \in Missions : CreateMission(m) \/ JobEnds(m)
    \/ \E r \in Cancels : CancelMission(r)
    \/ \E c \in Coordinators : CheckCompletion(c)
    \/ Fault

(***************************************************************************)
(* Fairness.  A request that was begun goes on, the completion loop of a   *)
(* coordinator that leads runs every 10 seconds, and the pipeline ends     *)
(* each job (module Crawler, Delivery).  Nobody has to create or cancel.   *)
(***************************************************************************)
Fairness ==
    /\ \A m \in Missions : /\ WF_vars(EnqueueTarget(m) \/ Start(m))
                           /\ WF_vars(JobEnds(m))
    /\ \A r \in Cancels : WF_vars(MarkCancelled(r))
    /\ \A c \in Coordinators : WF_vars(CheckCompletion(c))

Spec == Init /\ [][Next]_vars

FairSpec == Spec /\ Fairness

-----------------------------------------------------------------------------
(* Properties.                                                             *)

TypeOK ==
    /\ status \in [Missions -> Statuses]
    /\ done \in [Missions -> Nat]
    /\ failed \in [Missions -> Nat]
    /\ queued \in [Missions -> Nat]
    /\ inFlight \in [Missions -> Nat]
    /\ create \in [Missions -> {"idle", "enqueue", "run", "done", "aborted"}]
    /\ cancel \in [Cancels -> CancelStates]
    /\ todo \in [Coordinators -> SUBSET Update]
    /\ faults \in 0 .. MaxFaults
    /\ raced \in [Missions -> BOOLEAN]

\* A mission that the coordinator ended is finished: all its targets were
\* enqueued, and without faults none of its jobs is in flight; and one that
\* it ended as failed has nothing stored.  Each fault, by which the store may
\* count a job twice, makes that wrong by at most one job.
EndedMissionsAreFinished ==
    \A m \in Missions :
        /\ status[m] \in Ended => queued[m] = Total[m] /\ inFlight[m] <= faults
        /\ status[m] = "failed" => done[m] + inFlight[m] <= faults

\* A completed or cancelled mission stays so, as cancel_mission's refusal and
\* its callers take for granted.
FinalStatusIsKept ==
    [][\A m \in Missions : status[m] \in Final => status'[m] = status[m]]_vars

\* Only a handler that was already under way when the status became final can
\* overwrite it: the rest of create_mission, a completion check that read
\* the mission as running, or a cancel request that read it as not final.
OnlyRacesOverwrite ==
    [][\A m \in Missions :
           status[m] \in Final /\ ~raced[m] => status'[m] = status[m]]_vars

Undercounted(m) == queued[m] = Total[m] /\ inFlight[m] = 0 /\ done[m] + failed[m] < Total[m]

\* Every mission that is created ends or is cancelled, for good, unless its
\* create request was lost half way or a job of it ended uncounted.
EveryMissionSettles ==
    \A m \in Missions :
        <>[](\/ status[m] \in {"none", "completed", "failed", "cancelled"}
             \/ create[m] = "aborted"
             \/ Undercounted(m))

-----------------------------------------------------------------------------
(* The invariant that the proofs of MissionsProofs use.                    *)

\* How far create_mission has come is how much it has enqueued.
CreateInv(m) ==
    /\ create[m] = "idle" => status[m] = "none" /\ queued[m] = 0 /\ ~Outdated(m)
    /\ create[m] = "enqueue" => queued[m] < Total[m]
    /\ create[m] \in {"run", "done"} => queued[m] = Total[m]
    /\ status[m] \in {"running"} \cup Ended => queued[m] = Total[m]

\* Only a fault lets the counters exceed the jobs that have ended.
CountInv(m) == done[m] + failed[m] + inFlight[m] <= queued[m] + faults

\* What justified an end: enough was counted, all of it failed.
EndJustified(m, s) ==
    /\ AllCounted(m)
    /\ s = "failed" => failed[m] >= Total[m]

EndInv(m) ==
    /\ status[m] \in Ended => EndJustified(m, status[m])
    /\ \A c \in Coordinators : \A u \in todo[c] :
           u.mission = m => queued[m] = Total[m] /\ EndJustified(m, u.status)

\* A final status that no handler raced with has no handler to overwrite it.
RaceInv(m) == status[m] \in Final /\ ~raced[m] => ~Outdated(m)

\* The inductive invariant: every mission's create request, counters, end and
\* races are as the handlers leave them.
IndInv ==
    /\ TypeOK
    /\ \A m \in Missions : CreateInv(m) /\ CountInv(m) /\ EndInv(m) /\ RaceInv(m)

=============================================================================
