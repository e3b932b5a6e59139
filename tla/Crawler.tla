-------------------------------- MODULE Crawler --------------------------------
(***************************************************************************)
(* The crawler stage: services/crawler/worker.py with the fetch loops of   *)
(* its two strategies and the circuit breaker of shared/redis_client.py.   *)
(* Crawlers take job envelopes from crawl_jobs (the stream q), fetch the   *)
(* target, publish the content to raw_data, and requeue or dead-letter the *)
(* jobs that fail.  Each action ends at an await of the handler, which is  *)
(* where another worker, a crash or a redelivery can come between.         *)
(***************************************************************************)
EXTENDS StreamWorker

CONSTANTS
    Jobs,         \* job ids
    Domains,      \* domains, each with a circuit breaker
    DomainOf,     \* DomainOf[j]: the domain of the job's target_url
    Contents,     \* what a fetch can return
    MaxRetries,   \* MAX_RETRIES of the worker
    MaxAttempts   \* max_retries of the fetch strategies

VARIABLES
    attempt,   \* attempt[w]: loop variable of the strategy's fetch
    circuit,   \* circuit[d]: the hash circuit:<domain>, see Circuits
    raw,       \* the raw_data stream
    dead,      \* what the dead_letters stream holds
    tried      \* history: tried[j] is the set of retry counts j was fetched with

vars == <<loopVars, attempt, circuit, raw, dead, tried>>

ASSUME CrawlerAssumption ==
    /\ DomainOf \in [Jobs -> Domains]
    /\ Contents # {}
    /\ MaxRetries \in Nat
    /\ MaxAttempts \in Nat

Envelope == [job : Jobs, retry : 0 .. MaxRetries]

RawMessage == [job : Jobs, content : Contents]

\* A crawler's reasons are circuit_open:<domain>, and http_error:<status> or the
\* text of any other exception, both "failed" here.
DeadLetter == [job : Jobs, reason : Reasons]

\* No key, state OPEN with a TTL, or state OPEN without one.
Circuits == {"closed", "open", "openNoTTL"}

HandlerLabels ==
    {"start", "buryOpen", "ackOpen", "fetch", "publish", "ackOk",
     "setCircuit", "expireCircuit", "retry", "ack"}

Init ==
    /\ LoopInit
    /\ faults = 0
    /\ attempt = [w \in Workers |-> 0]
    /\ circuit = [d \in Domains |-> "closed"]
    /\ raw = EmptyStream
    /\ dead = {}
    /\ tried = [j \in Jobs |-> {}]

Domain(w) == DomainOf[Msg(w).job]

\* The steps of a handler that leave the run() loop where it is.
InHandler == UNCHANGED <<after, batch, cur>>

-----------------------------------------------------------------------------
(* Faulty variants of the actions below, which the properties must reject. *)

\* CheckCircuit that acknowledges a job of an open circuit without burying it.
SkipOpenCircuit(w) ==
    /\ pc[w] = "start"
    /\ Goto(w, IF circuit[Domain(w)] = "closed" THEN "fetch" ELSE "ackOpen")
    /\ InHandler
    /\ UNCHANGED <<q, faults, attempt, circuit, raw, dead, tried>>

\* SetCircuit that is not followed by EXPIRE.
SetCircuitForGood(w) ==
    /\ pc[w] = "setCircuit"
    /\ circuit' = [circuit EXCEPT ![Domain(w)] = IF @ = "open" THEN "open" ELSE "openNoTTL"]
    /\ Goto(w, "retry")
    /\ InHandler
    /\ UNCHANGED <<q, faults, attempt, raw, dead, tried>>

\* Requeue without its guard, and with the retry count as it is.
RequeueForever(w) ==
    /\ pc[w] = "retry"
    /\ q' = Xadd(q, [Msg(w) EXCEPT !.retry = @ + 1])
    /\ Goto(w, "ack")
    /\ InHandler
    /\ UNCHANGED <<faults, attempt, circuit, raw, dead, tried>>

RequeueUncounted(w) ==
    /\ pc[w] = "retry"
    /\ Msg(w).retry < MaxRetries
    /\ q' = Xadd(q, Msg(w))
    /\ Goto(w, "ack")
    /\ InHandler
    /\ UNCHANGED <<faults, attempt, circuit, raw, dead, tried>>

\* BuryFailed one retry too early.
BuryEarly(w) ==
    /\ pc[w] = "retry"
    /\ Msg(w).retry + 1 >= MaxRetries
    /\ dead' = dead \cup {[job |-> Msg(w).job, reason |-> "failed"]}
    /\ Goto(w, "ack")
    /\ InHandler
    /\ UNCHANGED <<q, faults, attempt, circuit, raw, tried>>

\* Ack without XACK.
AckNothing(w) ==
    /\ pc[w] \in {"ackOpen", "ackOk", "ack"}
    /\ Finish(w)
    /\ UNCHANGED <<q, faults, attempt, circuit, raw, dead, tried>>

-----------------------------------------------------------------------------
\* A producer (create_mission, or the scheduler's tick) adds a job.
Enqueue(j) ==
    /\ \A i \in Ids(q) : q.log[i].job # j
    /\ q' = Xadd(q, [job |-> j, retry |-> 0])
    /\ UNCHANGED <<pc, after, batch, cur, faults, attempt, circuit, raw, dead, tried>>

Loop(w) ==
    /\ LoopStep(w)
    /\ UNCHANGED <<attempt, circuit, raw, dead, tried>>

\* await is_circuit_open.
CheckCircuit(w) ==
    /\ pc[w] = "start"
    /\ Goto(w, IF circuit[Domain(w)] = "closed" THEN "fetch" ELSE "buryOpen")
    /\ InHandler
    /\ UNCHANGED <<q, faults, attempt, circuit, raw, dead, tried>>

\* The circuit is open: dead-letter the job without a fetch.
BuryOpenCircuit(w) ==
    /\ pc[w] = "buryOpen"
    /\ dead' = dead \cup {[job |-> Msg(w).job, reason |-> "circuit_open"]}
    /\ Goto(w, "ackOpen")
    /\ InHandler
    /\ UNCHANGED <<q, faults, attempt, circuit, raw, tried>>

-----------------------------------------------------------------------------
\* range(max(1, self.max_retries - retry_count)) in both strategies.
Attempts(retry) == IF MaxAttempts - retry > 1 THEN MaxAttempts - retry ELSE 1

RecordTry(w) == tried' = [tried EXCEPT ![Msg(w).job] = @ \cup {Msg(w).retry}]

LeaveFetch(w, label) ==
    /\ pc[w] = "fetch"
    /\ Goto(w, label)
    /\ attempt' = [attempt EXCEPT ![w] = 0]
    /\ RecordTry(w)
    /\ InHandler
    /\ UNCHANGED <<q, faults, circuit, raw, dead>>

FetchOk(w) == LeaveFetch(w, "publish")

\* HTTP 429 or 503 leaves the strategy at once, to the circuit breaker.
FetchRateLimited(w) == LeaveFetch(w, "setCircuit")

\* The last attempt failed, or an exception the strategy does not catch.
FetchFails(w) == LeaveFetch(w, "retry")

\* An attempt that is not the last fails and is repeated after a back-off.
FetchAgain(w) ==
    /\ pc[w] = "fetch"
    /\ attempt[w] + 1 < Attempts(Msg(w).retry)
    /\ attempt' = [attempt EXCEPT ![w] = @ + 1]
    /\ RecordTry(w)
    /\ InHandler
    /\ UNCHANGED <<q, pc, faults, circuit, raw, dead>>

\* await xadd to raw_data.
PublishRaw(w) ==
    /\ pc[w] = "publish"
    /\ \E c \in Contents : raw' = Xadd(raw, [job |-> Msg(w).job, content |-> c])
    /\ Goto(w, "ackOk")
    /\ InHandler
    /\ UNCHANGED <<q, faults, attempt, circuit, dead, tried>>

\* That xadd raises, executed or not: the worker's except Exception takes over.
PublishFails(w) ==
    /\ pc[w] = "publish"
    /\ SpendFault
    /\ \/ UNCHANGED raw
       \/ \E c \in Contents : raw' = Xadd(raw, [job |-> Msg(w).job, content |-> c])
    /\ Goto(w, "retry")
    /\ InHandler
    /\ UNCHANGED <<q, attempt, circuit, dead, tried>>

\* The xack inside the try raises, executed or not.
AckOkFails(w) ==
    /\ pc[w] = "ackOk"
    /\ SpendFault
    /\ q' \in {q, Xack(q, cur[w])}
    /\ Goto(w, "retry")
    /\ InHandler
    /\ UNCHANGED <<attempt, circuit, raw, dead, tried>>

-----------------------------------------------------------------------------
\* circuit_open: HSET, which keeps the TTL of a key that has one ...
SetCircuit(w) ==
    /\ pc[w] = "setCircuit"
    /\ circuit' = [circuit EXCEPT ![Domain(w)] = IF @ = "open" THEN "open" ELSE "openNoTTL"]
    /\ Goto(w, "expireCircuit")
    /\ InHandler
    /\ UNCHANGED <<q, faults, attempt, raw, dead, tried>>

\* ... then EXPIRE, which does nothing when the key is gone.
ExpireCircuit(w) ==
    /\ pc[w] = "expireCircuit"
    /\ circuit' = [circuit EXCEPT ![Domain(w)] = IF @ = "closed" THEN "closed" ELSE "open"]
    /\ Goto(w, "retry")
    /\ InHandler
    /\ UNCHANGED <<q, faults, attempt, raw, dead, tried>>

\* Requeue a failed job with the next retry count ...
Requeue(w) ==
    /\ pc[w] = "retry"
    /\ Msg(w).retry < MaxRetries
    /\ q' = Xadd(q, [Msg(w) EXCEPT !.retry = @ + 1])
    /\ Goto(w, "ack")
    /\ InHandler
    /\ UNCHANGED <<faults, attempt, circuit, raw, dead, tried>>

\* ... or dead-letter it when there are none left.
BuryFailed(w) ==
    /\ pc[w] = "retry"
    /\ Msg(w).retry >= MaxRetries
    /\ dead' = dead \cup {[job |-> Msg(w).job, reason |-> "failed"]}
    /\ Goto(w, "ack")
    /\ InHandler
    /\ UNCHANGED <<q, faults, attempt, circuit, raw, tried>>

\* The xack that ends each path of the handler, and the next entry.
Ack(w) ==
    /\ pc[w] \in {"ackOpen", "ackOk", "ack"}
    /\ AckAndFinish(w)
    /\ UNCHANGED <<attempt, circuit, raw, dead, tried>>

-----------------------------------------------------------------------------
Handler(w) ==
    \/ CheckCircuit(w)
    \/ BuryOpenCircuit(w)
    \/ FetchOk(w)
    \/ FetchRateLimited(w)
    \/ FetchFails(w)
    \/ FetchAgain(w)
    \/ PublishRaw(w)
    \/ SetCircuit(w)
    \/ ExpireCircuit(w)
    \/ Requeue(w)
    \/ BuryFailed(w)
    \/ Ack(w)

\* A crash, a cancellation, or an exception out of the handler.
Abort(w) ==
    /\ LoseBatch(w)
    /\ attempt' = [attempt EXCEPT ![w] = 0]
    /\ UNCHANGED <<circuit, raw, dead, tried>>

ClaimFails(w) ==
    /\ ClaimError(w)
    /\ UNCHANGED <<attempt, circuit, raw, dead, tried>>

Fault(w) == Abort(w) \/ ClaimFails(w) \/ PublishFails(w) \/ AckOkFails(w)

Clock ==
    /\ ClockStep
    /\ UNCHANGED <<attempt, circuit, raw, dead, tried>>

\* The circuit's key expires after its 300 seconds.
CircuitTTL(d) ==
    /\ circuit[d] = "open"
    /\ circuit' = [circuit EXCEPT ![d] = "closed"]
    /\ UNCHANGED <<loopVars, attempt, raw, dead, tried>>

Next ==
    \/ \E j \in Jobs : Enqueue(j)
    \/ \E w \in Workers : Loop(w) \/ Handler(w) \/ Fault(w)
    \/ Clock
    \/ \E d \in Domains : CircuitTTL(d)

(***************************************************************************)
(* Fairness.  A worker that runs makes its next step: asyncio resumes it,  *)
(* a request ends by its timeout, a container that dies is restarted       *)
(* (restart: unless-stopped).  Redis' clock makes orphaned entries         *)
(* claimable and expires keys.  Faults and enqueues are never forced.      *)
(***************************************************************************)
Fairness ==
    /\ \A w \in Workers : WF_vars(Loop(w) \/ Handler(w))
    /\ WF_vars(OrphanGoesIdle /\ UNCHANGED <<attempt, circuit, raw, dead, tried>>)
    /\ \A d \in Domains : WF_vars(CircuitTTL(d))

Spec == Init /\ [][Next]_vars

FairSpec == Spec /\ Fairness

-----------------------------------------------------------------------------
(* Properties.                                                             *)

TypeOK ==
    /\ LoopTypeOK(Envelope, HandlerLabels)
    /\ attempt \in [Workers -> Nat]
    /\ circuit \in [Domains -> Circuits]
    /\ raw \in StreamOf(RawMessage)
    /\ dead \subseteq DeadLetter
    /\ tried \in [Jobs -> SUBSET (0 .. MaxRetries)]

Enqueued(j) == \E i \in Ids(q) : q.log[i].job = j

Published(j) == \E i \in Ids(raw) : raw.log[i].job = j

Dead(j) == \E d \in dead : d.job = j

Open(j) == \E i \in Unacked(q) : q.log[i].job = j

\* Crashes, redeliveries and retries lose no job: a job that was enqueued is in
\* raw_data or dead_letters, or an entry of it is still to be processed
\* (AGENT_SWARM_PROPOSAL.md: no message is lost, by PEL and XAUTOCLAIM).
NoJobLost == \A j \in Jobs : Enqueued(j) => Published(j) \/ Dead(j) \/ Open(j)

\* A job dead-lettered as failed was fetched with every retry count from 0 to
\* MAX_RETRIES, by whichever workers, however its entries were redelivered.
RetriesExhausted ==
    \A j \in Jobs : [job |-> j, reason |-> "failed"] \in dead => tried[j] = 0 .. MaxRetries

\* Without faults a job has one outcome: it is published once, or it is
\* dead-lettered for one reason, and it is requeued once per retry count.
OneOutcomeWithoutFaults ==
    faults = 0 =>
        /\ \A j \in Jobs :
               Cardinality({i \in Ids(raw) : raw.log[i].job = j})
                   + Cardinality({d \in dead : d.job = j}) <= 1
        /\ \A i, k \in Ids(q) : q.log[i] = q.log[k] => i = k

\* Without faults a circuit that is open closes by itself: its key has a TTL,
\* or the worker that opened it is about to set one.
TTLOwedWithoutFaults ==
    \A d \in Domains :
        circuit[d] = "openNoTTL" =>
            \/ faults > 0
            \/ \E w \in Workers : pc[w] = "expireCircuit" /\ Domain(w) = d

\* A circuit that opened closes again after its TTL (README.md on circuit
\* breakers); two awaits of circuit_open make it untrue when one is lost.
CircuitAutoCloses == \A d \in Domains : circuit[d] # "closed" ~> circuit[d] = "closed"

-----------------------------------------------------------------------------
(* What the steps preserve, and the properties above follow from.          *)

\* Entry i has been dealt with: its job has an outcome, or was requeued.
HandedOn(i) ==
    \/ Published(q.log[i].job)
    \/ Dead(q.log[i].job)
    \/ \E k \in Ids(q) : /\ q.log[k].job = q.log[i].job
                         /\ q.log[k].retry = q.log[i].retry + 1

\* An entry is acknowledged, or about to be, only when it was dealt with.
EntryInv ==
    /\ \A i \in Ids(q) : i \in Unacked(q) \/ HandedOn(i)
    /\ \A w \in Workers : pc[w] \in {"ackOpen", "ackOk", "ack"} => HandedOn(cur[w])

\* An entry's job was fetched with every smaller retry count, and, past the
\* fetch, with the entry's own.
TryInv ==
    /\ \A i \in Ids(q) : 0 .. q.log[i].retry - 1 \subseteq tried[q.log[i].job]
    /\ \A w \in Workers :
           pc[w] \in {"publish", "ackOk", "setCircuit", "expireCircuit", "retry"} =>
               Msg(w).retry \in tried[Msg(w).job]

CoreInv ==
    /\ TypeOK
    /\ WorkInv(HandlerLabels)
    /\ EntryInv
    /\ TryInv
    /\ RetriesExhausted
    /\ TTLOwedWithoutFaults

\* The labels at which a handler has handed its entry on.
Acking == {"ackOpen", "ackOk", "ack"}

Unstarted(j) == IF Enqueued(j) THEN 0 ELSE 1

\* What came of a job, and what can still come of it, is one outcome, and one
\* more for each fault; and so it is with its envelopes of each retry count.
OutcomeInv ==
    \A j \in Jobs :
        /\ CountOf(raw, [job : {j}, content : Contents])
               + Cardinality({d \in dead : d.job = j})
               + Live([job : {j}, retry : 0 .. MaxRetries], Acking) + Unstarted(j)
           <= 1 + faults
        /\ \A r \in 0 .. MaxRetries :
               CountOf(q, {[job |-> j, retry |-> r]})
                   + Live([job : {j}, retry : 0 .. r - 1], Acking) + Unstarted(j)
               <= 1 + faults

IndInv == CoreInv /\ OutcomeInv

-----------------------------------------------------------------------------
(* The stage implements at-least-once delivery, and loses no job.          *)

Promise ==
    INSTANCE AtLeastOnce WITH
        Items <- Jobs,
        open <- {j \in Jobs : Open(j)},
        settled <- {j \in Jobs : Published(j) \/ Dead(j)},
        lost <- {}

\* Crashes, races and redeliveries included, the last entry of a job is acknowledged
\* only when the job has an outcome, and an outcome is never taken back.
SafeDelivery == Promise!Spec

\* The stage delivers at least once: SafeDelivery, and every job gets an outcome.
Delivery == Promise!FairSpec

=============================================================================
