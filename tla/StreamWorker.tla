------------------------------ MODULE StreamWorker ------------------------------
(***************************************************************************)
(* The loop that the crawler, processor, validator and store workers share *)
(* (run() in their worker.py): claim what has been pending too long and    *)
(* process it, read new entries and process them, again.  One handler,     *)
(* _process_message, runs at a time in a worker; a stage's module extends  *)
(* this one with the handler's steps, the first of which is at "start".    *)
(*                                                                         *)
(* A worker's program counter names the await it is about to make.         *)
(***************************************************************************)
EXTENDS RedisStreams

CONSTANTS
    Workers,      \* the replicas of this stage
    ReadCount,    \* count= of xread_group
    ClaimCount,   \* count= of xclaim_pending
    MaxFaults     \* bound on crashes, Redis/DB errors and slow handlers

VARIABLES
    q,        \* the stage's input stream
    pc,       \* pc[w]: what worker w does next
    after,    \* after[w]: where the loop goes when the batch is done
    batch,    \* batch[w]: ids fetched and not yet processed
    cur,      \* cur[w]: id in _process_message, 0 when there is none
    faults    \* how many faults have happened

\* Why a message is in dead_letters, the one stream that all stages write.
Reasons == {"circuit_open", "failed", "validation_failed", "db_error"}

loopVars == <<q, pc, after, batch, cur, faults>>

ASSUME LoopAssumption ==
    /\ Workers # {} /\ IsFiniteSet(Workers)
    /\ ReadCount \in Nat \ {0}
    /\ ClaimCount \in Nat \ {0}
    /\ MaxFaults \in Nat

LoopInit ==
    /\ q = EmptyStream
    /\ pc = [w \in Workers |-> "claim"]
    /\ after = [w \in Workers |-> "claim"]
    /\ batch = [w \in Workers |-> {}]
    /\ cur = [w \in Workers |-> 0]

Msg(w) == q.log[cur[w]]

Goto(w, label) == pc' = [pc EXCEPT ![w] = label]

SpendFault == faults < MaxFaults /\ faults' = faults + 1

-----------------------------------------------------------------------------
\* The for loops of run(): process the ids in order, then go on at next.
ProcessBatch(w, ids, next) ==
    \/ /\ ids = {}
       /\ Goto(w, next)
       /\ after' = [after EXCEPT ![w] = "claim"]
       /\ batch' = [batch EXCEPT ![w] = {}]
       /\ cur' = [cur EXCEPT ![w] = 0]
    \/ \E id \in ids :
       /\ \A other \in ids : id <= other
       /\ Goto(w, "start")
       /\ after' = [after EXCEPT ![w] = next]
       /\ batch' = [batch EXCEPT ![w] = ids \ {id}]
       /\ cur' = [cur EXCEPT ![w] = id]

Finish(w) == ProcessBatch(w, batch[w], after[w])

\* Faulty variant of Claim: what other workers left pending is never claimed.
ClaimNothing(w) ==
    /\ pc[w] = "claim"
    /\ Goto(w, "read")
    /\ UNCHANGED <<q, after, batch, cur, faults>>

\* await xclaim_pending, then the loop over what it returned.
Claim(w) ==
    /\ pc[w] = "claim"
    /\ q' = Xautoclaim(q, ClaimCount)
    /\ ProcessBatch(w, Claimable(q, ClaimCount), "read")
    /\ UNCHANGED faults

\* xclaim_pending swallows every exception and returns []: the command was
\* not executed, or it was and the reply is lost.
ClaimError(w) ==
    /\ pc[w] = "claim"
    /\ SpendFault
    /\ q' \in {q, Xautoclaim(q, ClaimCount)}
    /\ Goto(w, "read")
    /\ UNCHANGED <<after, batch, cur>>

\* await xread_group, then the loop over what it returned.
Read(w) ==
    /\ pc[w] = "read"
    /\ q' = XreadGroup(q, ReadCount)
    /\ ProcessBatch(w, Undelivered(q, ReadCount), "claim")
    /\ UNCHANGED faults

\* The end of a handler that acknowledges its entry.
AckAndFinish(w) ==
    /\ q' = Xack(q, cur[w])
    /\ Finish(w)
    /\ UNCHANGED faults

(***************************************************************************)
(* A worker loses what it is doing: the process is killed and restarted, a *)
(* SIGTERM cancels run() at an await, or an exception leaves               *)
(* _process_message and run() starts its loop again.  Its entries stay     *)
(* pending with no one working on them.                                    *)
(***************************************************************************)
LoseBatch(w) ==
    /\ pc[w] # "claim"
    /\ SpendFault
    /\ Goto(w, "claim")
    /\ after' = [after EXCEPT ![w] = "claim"]
    /\ batch' = [batch EXCEPT ![w] = {}]
    /\ cur' = [cur EXCEPT ![w] = 0]
    /\ UNCHANGED q

Held(id) == \E w \in Workers : id \in batch[w] \cup {cur[w]}

\* An entry that no worker holds reaches the claim timeout.
OrphanGoesIdle ==
    \E id \in q.pel \ q.idle :
        /\ ~Held(id)
        /\ q' = GoIdle(q, id)
        /\ UNCHANGED <<pc, after, batch, cur, faults>>

\* The claim timeout passes while a slow worker still holds the entry.
HeldGoesIdle ==
    \E id \in q.pel \ q.idle :
        /\ Held(id)
        /\ SpendFault
        /\ q' = GoIdle(q, id)
        /\ UNCHANGED <<pc, after, batch, cur>>

-----------------------------------------------------------------------------
LoopStep(w) == Claim(w) \/ Read(w)

ClockStep == OrphanGoesIdle \/ HeldGoesIdle

-----------------------------------------------------------------------------
(* The type of the loop's variables, for a stage whose input stream holds  *)
(* the messages Message and whose handler has the given labels.            *)
LoopTypeOK(Message, Labels) ==
    /\ q \in StreamOf(Message)
    /\ pc \in [Workers -> {"claim", "read"} \cup Labels]
    /\ after \in [Workers -> {"claim", "read"}]
    /\ batch \in [Workers -> SUBSET Nat]
    /\ cur \in [Workers -> Nat]
    /\ faults \in 0 .. MaxFaults

\* Workers hold delivered entries only, each once, and only while a handler runs.
WorkInv(Labels) ==
    \A w \in Workers :
        /\ batch[w] \subseteq 1 .. q.last
        /\ cur[w] \in (0 .. q.last) \ batch[w]
        /\ pc[w] \in Labels => cur[w] # 0
        /\ pc[w] \notin Labels => batch[w] = {} /\ cur[w] = 0

(* How often the messages M can still be handed on, if nothing goes wrong.  *)

\* The entries that somebody will take: not delivered, or due for XAUTOCLAIM.
Waiting(M) ==
    {i \in Ids(q) :
        /\ q.log[i] \in M
        /\ i > q.last \/ i \in q.idle \/ (i \in q.pel /\ ~Held(i))}

\* The entries workers hold, but for those a handler at a label of Spent holds:
\* it has handed its entry on, and has it only to acknowledge it.
InHand(M, Spent) ==
    {a \in Workers \X Ids(q) :
        /\ q.log[a[2]] \in M
        /\ a[2] \in batch[a[1]] \/ (a[2] = cur[a[1]] /\ pc[a[1]] \notin Spent)}

Live(M, Spent) == Cardinality(Waiting(M)) + Cardinality(InHand(M, Spent))

=============================================================================
