------------------------------- MODULE Validator -------------------------------
(***************************************************************************)
(* The validator stage: services/validator/worker.py.  Validators take     *)
(* extracted fields from clean_data (the stream q), and pass on those that *)
(* are valid with a confidence of at least MIN_CONFIDENCE_THRESHOLD, a     *)
(* function of the fields; the others are dead-lettered.                   *)
(***************************************************************************)
EXTENDS StreamWorker

CONSTANTS
    Jobs, Contents,
    Acceptable     \* the contents whose fields pass validation

VARIABLES
    validated,   \* the validated_data stream
    dead         \* what the dead_letters stream holds

local == <<validated, dead>>
vars == <<loopVars, validated, dead>>

CleanMessage == [job : Jobs, content : Contents]

DeadLetter == [job : Jobs, reason : Reasons]

HandlerLabels == {"start", "ack"}

Init ==
    /\ LoopInit
    /\ faults = 0
    /\ validated = EmptyStream
    /\ dead = {}

InHandler == UNCHANGED <<after, batch, cur>>

-----------------------------------------------------------------------------
Loop(w) == LoopStep(w) /\ UNCHANGED local

\* Faulty variant of Reject: the message is dropped without a dead letter.
RejectSilently(w) ==
    /\ pc[w] = "start"
    /\ Msg(w).content \notin Acceptable
    /\ Goto(w, "ack")
    /\ InHandler
    /\ UNCHANGED <<q, faults, local>>

\* await xadd to validated_data.
Accept(w) ==
    /\ pc[w] = "start"
    /\ Msg(w).content \in Acceptable
    /\ validated' = Xadd(validated, Msg(w))
    /\ Goto(w, "ack")
    /\ InHandler
    /\ UNCHANGED <<q, faults, dead>>

\* await move_to_dead_letters.
Reject(w) ==
    /\ pc[w] = "start"
    /\ Msg(w).content \notin Acceptable
    /\ dead' = dead \cup {[job |-> Msg(w).job, reason |-> "validation_failed"]}
    /\ Goto(w, "ack")
    /\ InHandler
    /\ UNCHANGED <<q, faults, validated>>

\* The xack that ends both paths.
Ack(w) ==
    /\ pc[w] = "ack"
    /\ AckAndFinish(w)
    /\ UNCHANGED local

Handler(w) == Accept(w) \/ Reject(w) \/ Ack(w)

Abort(w) == LoseBatch(w) /\ UNCHANGED local

ClaimFails(w) == ClaimError(w) /\ UNCHANGED local

Fault(w) == Abort(w) \/ ClaimFails(w)

Clock == ClockStep /\ UNCHANGED local

Next ==
    \/ \E w \in Workers : Loop(w) \/ Handler(w) \/ Fault(w)
    \/ Clock

-----------------------------------------------------------------------------
(* What the steps preserve.                                                *)

TypeOK ==
    /\ LoopTypeOK(CleanMessage, HandlerLabels)
    /\ validated \in StreamOf(CleanMessage)
    /\ dead \subseteq DeadLetter

\* Entry i has been dealt with: passed on or dead-lettered.
HandedOn(i) ==
    \/ \E k \in Ids(validated) : validated.log[k].job = q.log[i].job
    \/ \E d \in dead : d.job = q.log[i].job

\* An entry is acknowledged, or about to be, only when it was dealt with.
EntryInv ==
    /\ \A i \in Ids(q) : i \in Unacked(q) \/ HandedOn(i)
    /\ \A w \in Workers : pc[w] = "ack" => HandedOn(cur[w])

\* The label at which a handler only acknowledges its entry.
Acking == {"ack"}

CoreInv == TypeOK /\ WorkInv(HandlerLabels) /\ EntryInv

=============================================================================
