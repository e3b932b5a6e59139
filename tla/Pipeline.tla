-------------------------------- MODULE Pipeline --------------------------------
(***************************************************************************)
(* The data pipeline end to end: crawlers, processors, validators and      *)
(* store workers, each stage an instance of its own module, joined by the  *)
(* streams crawl_jobs, raw_data, clean_data and validated_data.  All       *)
(* stages share dead_letters, and the bound on faults.                     *)
(***************************************************************************)
EXTENDS Integers, Sequences, FiniteSets

CONSTANTS
    Crawlers, Processors, Validators, Stores,   \* the workers of each stage
    Jobs, Missions, Urls, Domains, Contents, Heads,
    MissionOf, UrlOf, DomainOf, HeadOf,
    Acceptable,                                 \* contents that pass validation
    MaxRetries, MaxAttempts, ReadCount, ClaimCount, MaxFaults, MaxExpiries

VARIABLES
    crawlJobs, rawData, cleanData, validatedData, dead, faults,
    crawlPc, crawlAfter, crawlBatch, crawlCur, attempt, circuit, tried,
    processPc, processAfter, processBatch, processCur,
    seen, seenTTL, events, expiries, torn,
    validatePc, validateAfter, validateBatch, validateCur,
    storePc, storeAfter, storeBatch, storeCur, rows, jobDone, jobFailed

ASSUME PipelineAssumption ==
    /\ \A W \in {Crawlers, Processors, Validators, Stores} : W # {} /\ IsFiniteSet(W)
    /\ ReadCount \in Nat \ {0} /\ ClaimCount \in Nat \ {0}
    /\ MaxRetries \in Nat /\ MaxAttempts \in Nat
    /\ MaxFaults \in Nat /\ MaxExpiries \in Nat
    /\ MissionOf \in [Jobs -> Missions]
    /\ UrlOf \in [Jobs -> Urls]
    /\ DomainOf \in [Jobs -> Domains]
    /\ HeadOf \in [Contents -> Heads]
    /\ Contents # {} /\ Acceptable \subseteq Contents
    /\ \A m \in Missions : IsFiniteSet({j \in Jobs : MissionOf[j] = m})

crawlVars == <<crawlPc, crawlAfter, crawlBatch, crawlCur, attempt, circuit, tried>>
processVars == <<processPc, processAfter, processBatch, processCur,
                 seen, seenTTL, events, expiries, torn>>
validateVars == <<validatePc, validateAfter, validateBatch, validateCur>>
storeVars == <<storePc, storeAfter, storeBatch, storeCur, rows, jobDone, jobFailed>>
vars == <<crawlJobs, rawData, cleanData, validatedData, dead, faults,
          crawlVars, processVars, validateVars, storeVars>>

C == INSTANCE Crawler WITH
         Workers <- Crawlers, q <- crawlJobs, raw <- rawData,
         pc <- crawlPc, after <- crawlAfter, batch <- crawlBatch, cur <- crawlCur

P == INSTANCE Processor WITH
         Workers <- Processors, q <- rawData, clean <- cleanData, MaxArrivals <- 0,
         pc <- processPc, after <- processAfter, batch <- processBatch, cur <- processCur

V == INSTANCE Validator WITH
         Workers <- Validators, q <- cleanData, validated <- validatedData,
         pc <- validatePc, after <- validateAfter, batch <- validateBatch, cur <- validateCur

S == INSTANCE Store WITH
         Workers <- Stores, q <- validatedData,
         pc <- storePc, after <- storeAfter, batch <- storeBatch, cur <- storeCur

-----------------------------------------------------------------------------
Init == C!Init /\ P!Init /\ V!Init /\ S!Init

\* create_mission enqueues a target of a mission.
Enqueue(j) ==
    /\ C!Enqueue(j)
    /\ UNCHANGED <<cleanData, validatedData, processVars, validateVars, storeVars>>

CrawlStage ==
    /\ \/ \E w \in Crawlers : C!Loop(w) \/ C!Handler(w) \/ C!Fault(w)
       \/ C!Clock
       \/ \E d \in Domains : C!CircuitTTL(d)
    /\ UNCHANGED <<cleanData, validatedData, processVars, validateVars, storeVars>>

ProcessStage ==
    /\ \/ \E w \in Processors : P!Loop(w) \/ P!Handler(w) \/ P!Fault(w)
       \/ P!Clock
       \/ \E m \in Missions : P!DedupTTL(m)
    /\ UNCHANGED <<crawlJobs, validatedData, dead, crawlVars, validateVars, storeVars>>

ValidateStage ==
    /\ V!Next
    /\ UNCHANGED <<crawlJobs, rawData, crawlVars, processVars, storeVars>>

StoreStage ==
    /\ S!Next
    /\ UNCHANGED <<crawlJobs, rawData, cleanData, crawlVars, processVars, validateVars>>

Next ==
    \/ \E j \in Jobs : Enqueue(j)
    \/ CrawlStage
    \/ ProcessStage
    \/ ValidateStage
    \/ StoreStage

Spec == Init /\ [][Next]_vars

-----------------------------------------------------------------------------
(* Properties.                                                             *)

TypeOK == C!TypeOK /\ P!TypeOK /\ V!TypeOK /\ S!TypeOK

JobsOf(m) == {j \in Jobs : MissionOf[j] = m}

SameTarget(j, k) == MissionOf[j] = MissionOf[k] /\ UrlOf[j] = UrlOf[k]

OpenIn(s, j) == \E i \in C!Unacked(s) : s.log[i].job = j

Streams == {crawlJobs, rawData, cleanData, validatedData}

InFlight(j) ==
    \/ \E s \in Streams : OpenIn(s, j)
    \/ \E w \in Processors : P!Carrying(w) /\ P!Msg(w).job = j

Dead(j) == \E d \in dead : d.job = j

\* A processor marked a content of the job's target as seen, and was lost.
Torn(j) == \E t \in torn : t[1] = MissionOf[j] /\ t[2].url = UrlOf[j]

\* The whole pipeline loses nothing but what the dedup set swallows: a job that
\* was enqueued, or another one of its target that it duplicates, is in flight,
\* dead-lettered or stored, unless a processor stopped between SADD and XADD.
JobAccounted ==
    \A j \in Jobs :
        C!Enqueued(j) =>
            \/ Torn(j)
            \/ \E k \in Jobs :
                   SameTarget(j, k) /\ (InFlight(k) \/ Dead(k) \/ rows[k] > 0)

Counted(m) == jobDone[m] + jobFailed[m]

Unstarted(J) == {j \in J : ~C!Enqueued(j)}

\* How often the jobs J can still be handed on, over all the stages; a store worker
\* has nothing more to do for its entry at the labels of Spent.
Debt(J, Spent) ==
    LET messages == [job : J, content : Contents]
    IN  Cardinality(Unstarted(J))
            + C!Live([job : J, retry : 0 .. MaxRetries], C!Acking)
            + P!Live(messages, P!Acking)
            + V!Live(messages, V!Acking)
            + S!Live(messages, Spent)

\* Job j can still be counted: it is not enqueued yet, or a stage has still to hand it on.
Owed(j) == Debt({j}, {"bury", "ack", "publish"}) > 0

\* The jobs that a mission has counted and those it can still count exceed its jobs by
\* at most the number of faults: every redelivery and ambiguous commit can count a
\* job again, but only once.  So a mission whose counters have reached its total, which
\* the coordinator then completes, has at most one job for each fault still under way.
OvercountBoundedByFaults ==
    \A m \in Missions :
        Counted(m) + Cardinality({j \in JobsOf(m) : Owed(j)})
            <= Cardinality(JobsOf(m)) + faults

\* Without faults a job ends in one way: one row, or one dead letter, whatever
\* the interleaving of the stages and the expiries of dedup sets and circuits.
OneOutcomeWithoutFaults ==
    faults = 0 =>
        \A j \in Jobs : rows[j] + Cardinality({d \in dead : d.job = j}) <= 1

\* When nothing is in flight and nothing failed underneath, every job of a
\* mission is counted in job_done or job_failed, as the coordinator's
\* completion check expects.
DrainedMissionsAreCounted ==
    \A m \in Missions :
        (\A j \in JobsOf(m) : C!Enqueued(j) /\ ~InFlight(j)) /\ faults = 0 =>
            Counted(m) = Cardinality(JobsOf(m))

-----------------------------------------------------------------------------
(* The invariant that the proofs of PipelineProofs use.                    *)

\* A mission's jobs are counted, or can still be counted, once each, and once more
\* for each fault.
CountInv ==
    \A m \in Missions :
        Counted(m) + Debt(JobsOf(m), {"bury", "ack", "publish"})
            <= Cardinality(JobsOf(m)) + faults

\* So it is with the rows and dead letters of a job.
OutcomeInv ==
    \A j \in Jobs :
        rows[j] + Cardinality({d \in dead : d.job = j}) + Debt({j}, {"ack", "publish"})
            <= 1 + faults

IndInv ==
    /\ C!CoreInv
    /\ P!CoreInv
    /\ V!CoreInv
    /\ S!CoreInv
    /\ CountInv
    /\ OutcomeInv

-----------------------------------------------------------------------------
(* The pipeline implements at-least-once delivery of the targets.  Jobs of *)
(* one mission and URL are one target, since one's content may be dropped  *)
(* as a duplicate of the other's.                                          *)

TargetOf(j) == <<MissionOf[j], UrlOf[j]>>

Targets == Missions \X Urls

OpenTargets == {TargetOf(j) : j \in {k \in Jobs : InFlight(k)}}

SettledTargets == {TargetOf(j) : j \in {k \in Jobs : Dead(k) \/ rows[k] > 0}}

LostTargets == {TargetOf(j) : j \in {k \in Jobs : Torn(k)}}

Promise ==
    INSTANCE AtLeastOnce WITH
        Items <- Targets,
        open <- OpenTargets,
        settled <- SettledTargets,
        lost <- LostTargets

\* Across all stages, with their crashes, races and redeliveries, the work on a target
\* ends only when it is stored or dead-lettered, or when a processor was lost between
\* SADD and XADD, and what came of a target is never taken back.
SafeDelivery == Promise!Spec

=============================================================================
