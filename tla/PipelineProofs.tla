---------------------------- MODULE PipelineProofs ----------------------------
(***************************************************************************)
(* Safety of the whole pipeline, for every number of workers of each       *)
(* stage, of jobs, contents, retries and faults.  A step of the pipeline   *)
(* is a step of one stage; the other stages see it as a step taken         *)
(* elsewhere, which adds to their input stream at most.  For the counters, *)
(* each job is a token that a stage hands on: what came of it, and what    *)
(* can still come of it, are together at most one, plus one for each fault.*)
(***************************************************************************)
EXTENDS Pipeline, FiniteSetTheorems, TLAPS

\* What is proved of the crawlers and processors alone, and of the loop of the
\* validators and the store workers.
CP == INSTANCE CrawlerProofs WITH
          Workers <- Crawlers, q <- crawlJobs, raw <- rawData,
          pc <- crawlPc, after <- crawlAfter, batch <- crawlBatch, cur <- crawlCur

PP == INSTANCE ProcessorProofs WITH
          Workers <- Processors, q <- rawData, clean <- cleanData, MaxArrivals <- 0,
          pc <- processPc, after <- processAfter, batch <- processBatch, cur <- processCur

VL == INSTANCE StreamWorkerProofs WITH
          Workers <- Validators, q <- cleanData,
          pc <- validatePc, after <- validateAfter, batch <- validateBatch, cur <- validateCur

SL == INSTANCE StreamWorkerProofs WITH
          Workers <- Stores, q <- validatedData,
          pc <- storePc, after <- storeAfter, batch <- storeBatch, cur <- storeCur

\* The stages' assumptions are the pipeline's.
LEMMA StageAssumptions ==
    /\ CP!LoopAssumption /\ CP!CrawlerAssumption
    /\ PP!LoopAssumption /\ PP!ProcessorAssumption
    /\ VL!LoopAssumption
    /\ SL!LoopAssumption
BY PipelineAssumption
   DEF CP!LoopAssumption, CP!CrawlerAssumption, PP!LoopAssumption, PP!ProcessorAssumption,
       VL!LoopAssumption, SL!LoopAssumption,
       CP!IsFiniteSet, PP!IsFiniteSet, VL!IsFiniteSet, SL!IsFiniteSet, IsFiniteSet

-----------------------------------------------------------------------------
(* A stage's definitions mean the same in the pipeline and in its proofs.  *)

\* The streams.
LEMMA SameStreams ==
    ASSUME NEW s, NEW x, NEW Message
    PROVE  /\ CP!Ids(s) = C!Ids(s) /\ PP!Ids(s) = C!Ids(s)
           /\ VL!Ids(s) = C!Ids(s) /\ SL!Ids(s) = C!Ids(s)
           /\ P!Ids(s) = C!Ids(s) /\ V!Ids(s) = C!Ids(s) /\ S!Ids(s) = C!Ids(s)
           /\ CP!Unacked(s) = C!Unacked(s) /\ PP!Unacked(s) = C!Unacked(s)
           /\ VL!Unacked(s) = C!Unacked(s) /\ SL!Unacked(s) = C!Unacked(s)
           /\ P!Unacked(s) = C!Unacked(s) /\ V!Unacked(s) = C!Unacked(s)
           /\ S!Unacked(s) = C!Unacked(s)
           /\ CP!Xadd(s, x) = C!Xadd(s, x) /\ PP!Xadd(s, x) = C!Xadd(s, x)
           /\ VL!Xadd(s, x) = C!Xadd(s, x) /\ SL!Xadd(s, x) = C!Xadd(s, x)
           /\ V!Xadd(s, x) = C!Xadd(s, x)
           /\ CP!StreamOf(Message) = C!StreamOf(Message)
           /\ PP!StreamOf(Message) = C!StreamOf(Message)
           /\ VL!StreamOf(Message) = C!StreamOf(Message)
           /\ SL!StreamOf(Message) = C!StreamOf(Message)
           /\ V!StreamOf(Message) = C!StreamOf(Message)
BY DEF C!Ids, P!Ids, V!Ids, S!Ids, CP!Ids, PP!Ids, VL!Ids, SL!Ids,
       C!Unacked, P!Unacked, V!Unacked, S!Unacked,
       CP!Unacked, PP!Unacked, VL!Unacked, SL!Unacked,
       C!Xadd, V!Xadd, CP!Xadd, PP!Xadd, VL!Xadd, SL!Xadd,
       C!StreamOf, V!StreamOf, CP!StreamOf, PP!StreamOf, VL!StreamOf, SL!StreamOf

LEMMA SameCardinality ==
    ASSUME NEW A
    PROVE  /\ C!Cardinality(A) = Cardinality(A) /\ CP!Cardinality(A) = Cardinality(A)
           /\ P!Cardinality(A) = Cardinality(A) /\ PP!Cardinality(A) = Cardinality(A)
           /\ V!Cardinality(A) = Cardinality(A) /\ VL!Cardinality(A) = Cardinality(A)
           /\ S!Cardinality(A) = Cardinality(A) /\ SL!Cardinality(A) = Cardinality(A)
BY DEF C!Cardinality, P!Cardinality, V!Cardinality, S!Cardinality,
       CP!Cardinality, PP!Cardinality, VL!Cardinality, SL!Cardinality, Cardinality

LEMMA SameCrawler == (C!CoreInv <=> CP!CoreInv) /\ (C!CoreInv <=> CP!CoreInv)'
BY DEF C!CoreInv, CP!CoreInv, C!TypeOK, CP!TypeOK, C!LoopTypeOK, CP!LoopTypeOK,
       C!WorkInv, CP!WorkInv, C!HandlerLabels, CP!HandlerLabels, C!StreamOf, CP!StreamOf,
       C!Circuits, CP!Circuits, C!Envelope, CP!Envelope, C!RawMessage, CP!RawMessage,
       C!DeadLetter, CP!DeadLetter, C!Reasons, CP!Reasons, C!EntryInv, CP!EntryInv,
       C!TryInv, CP!TryInv, C!RetriesExhausted, CP!RetriesExhausted,
       C!TTLOwedWithoutFaults, CP!TTLOwedWithoutFaults, C!Ids, CP!Ids,
       C!Unacked, CP!Unacked, C!HandedOn, CP!HandedOn, C!Published, CP!Published,
       C!Dead, CP!Dead, C!Msg, CP!Msg, C!Domain, CP!Domain

LEMMA SameProcessor == (P!CoreInv <=> PP!CoreInv) /\ (P!CoreInv <=> PP!CoreInv)'
BY DEF P!CoreInv, PP!CoreInv, P!TypeOK, PP!TypeOK, P!LoopTypeOK, PP!LoopTypeOK,
       P!WorkInv, PP!WorkInv, P!HandlerLabels, PP!HandlerLabels, P!StreamOf, PP!StreamOf,
       P!Hashes, PP!Hashes, P!RawMessage, PP!RawMessage, P!AccountInv, PP!AccountInv,
       P!EventInv, PP!EventInv, P!Accounted, PP!Accounted, P!Forwarded, PP!Forwarded,
       P!CarriedBy, PP!CarriedBy, P!Carrying, PP!Carrying, P!Same, PP!Same,
       P!ContentHash, PP!ContentHash, P!Persisted, PP!Persisted, P!Ids, PP!Ids,
       P!Unacked, PP!Unacked, P!Msg, PP!Msg

LEMMA SameLive ==
    ASSUME NEW M
    PROVE  /\ C!Live(M, C!Acking) = CP!Live(M, CP!Acking)
           /\ (C!Live(M, C!Acking) = CP!Live(M, CP!Acking))'
           /\ P!Live(M, P!Acking) = PP!Live(M, PP!Acking)
           /\ (P!Live(M, P!Acking) = PP!Live(M, PP!Acking))'
BY DEF C!Live, CP!Live, C!Waiting, CP!Waiting, C!InHand, CP!InHand, C!Held, CP!Held,
       C!Ids, CP!Ids, C!Acking, CP!Acking, C!Cardinality, CP!Cardinality,
       P!Live, PP!Live, P!Waiting, PP!Waiting, P!InHand, PP!InHand, P!Held, PP!Held,
       P!Ids, PP!Ids, P!Acking, PP!Acking, P!Cardinality, PP!Cardinality

\* The loops of the validators and of the store workers.
LEMMA SameValidatorLoop ==
    ASSUME NEW Message, NEW Labels, NEW M, NEW Spent
    PROVE  /\ V!LoopTypeOK(Message, Labels) <=> VL!LoopTypeOK(Message, Labels)
           /\ V!WorkInv(Labels) <=> VL!WorkInv(Labels)
           /\ V!Live(M, Spent) = VL!Live(M, Spent)
           /\ (V!LoopTypeOK(Message, Labels) <=> VL!LoopTypeOK(Message, Labels))'
           /\ (V!WorkInv(Labels) <=> VL!WorkInv(Labels))'
           /\ (V!Live(M, Spent) = VL!Live(M, Spent))'
BY DEF V!LoopTypeOK, VL!LoopTypeOK, V!WorkInv, VL!WorkInv, V!StreamOf, VL!StreamOf,
       V!Live, VL!Live, V!Waiting, VL!Waiting, V!InHand, VL!InHand, V!Held, VL!Held,
       V!Ids, VL!Ids, V!Unacked, VL!Unacked, V!Cardinality, VL!Cardinality

LEMMA SameValidatorSteps ==
    /\ \A w \in Validators : /\ V!LoopStep(w) <=> VL!LoopStep(w)
                             /\ V!ClaimError(w) <=> VL!ClaimError(w)
                             /\ V!LoseBatch(w) <=> VL!LoseBatch(w)
                             /\ V!AckAndFinish(w) <=> VL!AckAndFinish(w)
                             /\ V!Finish(w) <=> VL!Finish(w)
    /\ V!ClockStep <=> VL!ClockStep
BY DEF V!LoopStep, VL!LoopStep, V!Claim, VL!Claim, V!Read, VL!Read, V!ClaimError,
       VL!ClaimError, V!LoseBatch, VL!LoseBatch, V!ClockStep, VL!ClockStep,
       V!OrphanGoesIdle, VL!OrphanGoesIdle, V!HeldGoesIdle, VL!HeldGoesIdle, V!Held,
       VL!Held, V!AckAndFinish, VL!AckAndFinish, V!Finish, VL!Finish, V!ProcessBatch,
       VL!ProcessBatch, V!Goto, VL!Goto, V!SpendFault, VL!SpendFault, V!Xautoclaim,
       VL!Xautoclaim, V!XreadGroup, VL!XreadGroup, V!Claimable, VL!Claimable, V!Lowest,
       VL!Lowest, V!Cardinality, VL!Cardinality, V!Undelivered, VL!Undelivered, V!Xack,
       VL!Xack, V!GoIdle, VL!GoIdle, V!Ids, VL!Ids

LEMMA SameStoreLoop ==
    ASSUME NEW Message, NEW Labels, NEW M, NEW Spent
    PROVE  /\ S!LoopTypeOK(Message, Labels) <=> SL!LoopTypeOK(Message, Labels)
           /\ S!WorkInv(Labels) <=> SL!WorkInv(Labels)
           /\ S!Live(M, Spent) = SL!Live(M, Spent)
           /\ (S!LoopTypeOK(Message, Labels) <=> SL!LoopTypeOK(Message, Labels))'
           /\ (S!WorkInv(Labels) <=> SL!WorkInv(Labels))'
           /\ (S!Live(M, Spent) = SL!Live(M, Spent))'
BY DEF S!LoopTypeOK, SL!LoopTypeOK, S!WorkInv, SL!WorkInv, S!StreamOf, SL!StreamOf,
       S!Live, SL!Live, S!Waiting, SL!Waiting, S!InHand, SL!InHand, S!Held, SL!Held,
       S!Ids, SL!Ids, S!Unacked, SL!Unacked, S!Cardinality, SL!Cardinality

LEMMA SameStoreSteps ==
    /\ \A w \in Stores : /\ S!LoopStep(w) <=> SL!LoopStep(w)
                         /\ S!ClaimError(w) <=> SL!ClaimError(w)
                         /\ S!LoseBatch(w) <=> SL!LoseBatch(w)
                         /\ S!AckAndFinish(w) <=> SL!AckAndFinish(w)
                         /\ S!Finish(w) <=> SL!Finish(w)
    /\ S!ClockStep <=> SL!ClockStep
BY DEF S!LoopStep, SL!LoopStep, S!Claim, SL!Claim, S!Read, SL!Read, S!ClaimError,
       SL!ClaimError, S!LoseBatch, SL!LoseBatch, S!ClockStep, SL!ClockStep,
       S!OrphanGoesIdle, SL!OrphanGoesIdle, S!HeldGoesIdle, SL!HeldGoesIdle, S!Held,
       SL!Held, S!AckAndFinish, SL!AckAndFinish, S!Finish, SL!Finish, S!ProcessBatch,
       SL!ProcessBatch, S!Goto, SL!Goto, S!SpendFault, SL!SpendFault, S!Xautoclaim,
       SL!Xautoclaim, S!XreadGroup, SL!XreadGroup, S!Claimable, SL!Claimable, S!Lowest,
       SL!Lowest, S!Cardinality, SL!Cardinality, S!Undelivered, SL!Undelivered, S!Xack,
       SL!Xack, S!GoIdle, SL!GoIdle, S!Ids, SL!Ids

\* The steps of the crawlers.
LEMMA SameCrawlSteps ==
    /\ \A w : /\ C!Loop(w) <=> CP!Loop(w)
              /\ C!Handler(w) <=> CP!Handler(w)
              /\ C!Fault(w) <=> CP!Fault(w)
    /\ \A j : C!Enqueue(j) <=> CP!Enqueue(j)
    /\ \A d : C!CircuitTTL(d) <=> CP!CircuitTTL(d)
    /\ C!Clock <=> CP!Clock
<1>1. /\ \A w : /\ C!LoopStep(w) <=> CP!LoopStep(w)
                /\ C!ClaimError(w) <=> CP!ClaimError(w)
                /\ C!LoseBatch(w) <=> CP!LoseBatch(w)
      /\ C!ClockStep <=> CP!ClockStep
    BY DEF C!LoopStep, CP!LoopStep, C!Claim, CP!Claim, C!Read, CP!Read, C!ClaimError,
        CP!ClaimError, C!LoseBatch, CP!LoseBatch, C!ClockStep, CP!ClockStep,
        C!OrphanGoesIdle, CP!OrphanGoesIdle, C!HeldGoesIdle, CP!HeldGoesIdle, C!Held,
        CP!Held, C!ProcessBatch, CP!ProcessBatch, C!Goto, CP!Goto, C!SpendFault,
        CP!SpendFault, C!Xautoclaim, CP!Xautoclaim, C!XreadGroup, CP!XreadGroup,
        C!Claimable, CP!Claimable, C!Lowest, CP!Lowest, C!Cardinality, CP!Cardinality,
        C!Undelivered, CP!Undelivered, C!GoIdle, CP!GoIdle, C!Ids, CP!Ids
<1>2. \A w : C!Handler(w) <=> CP!Handler(w)
    BY DEF C!Handler, CP!Handler, C!CheckCircuit, CP!CheckCircuit, C!BuryOpenCircuit,
        CP!BuryOpenCircuit, C!FetchOk, CP!FetchOk, C!FetchRateLimited,
        CP!FetchRateLimited, C!FetchFails, CP!FetchFails, C!LeaveFetch, CP!LeaveFetch,
        C!RecordTry, CP!RecordTry, C!FetchAgain, CP!FetchAgain, C!Attempts, CP!Attempts,
        C!PublishRaw, CP!PublishRaw, C!SetCircuit, CP!SetCircuit, C!ExpireCircuit,
        CP!ExpireCircuit, C!Requeue, CP!Requeue, C!BuryFailed, CP!BuryFailed, C!Ack,
        CP!Ack, C!AckAndFinish, CP!AckAndFinish, C!Domain, CP!Domain, C!ProcessBatch,
        CP!ProcessBatch, C!Finish, CP!Finish, C!Goto, CP!Goto, C!SpendFault,
        CP!SpendFault, C!Msg, CP!Msg, C!Xadd, CP!Xadd, C!Xack, CP!Xack, C!InHandler,
        CP!InHandler, C!Ids, CP!Ids
<1>3. \A w : C!Fault(w) <=> CP!Fault(w)
    BY <1>1 DEF C!Fault, CP!Fault, C!Abort, CP!Abort, C!ClaimFails, CP!ClaimFails,
        C!PublishFails, CP!PublishFails, C!AckOkFails, CP!AckOkFails, C!SpendFault,
        CP!SpendFault, C!Goto, CP!Goto, C!Msg, CP!Msg, C!Xadd, CP!Xadd, C!Xack, CP!Xack,
        C!InHandler, CP!InHandler
<1>4. /\ \A w : C!Loop(w) <=> CP!Loop(w)
      /\ \A j : C!Enqueue(j) <=> CP!Enqueue(j)
      /\ \A d : C!CircuitTTL(d) <=> CP!CircuitTTL(d)
      /\ C!Clock <=> CP!Clock
    BY <1>1 DEF C!Loop, CP!Loop, C!Enqueue, CP!Enqueue, C!CircuitTTL, CP!CircuitTTL,
        C!Clock, CP!Clock, C!loopVars, CP!loopVars, C!Ids, CP!Ids, C!Xadd, CP!Xadd
<1> QED
    BY <1>2, <1>3, <1>4

\* The steps of the processors.
LEMMA SameProcessSteps ==
    /\ \A w : /\ P!Loop(w) <=> PP!Loop(w)
              /\ P!Handler(w) <=> PP!Handler(w)
              /\ P!Fault(w) <=> PP!Fault(w)
    /\ \A m : P!DedupTTL(m) <=> PP!DedupTTL(m)
    /\ P!Clock <=> PP!Clock
<1>1. /\ \A w : /\ P!LoopStep(w) <=> PP!LoopStep(w)
                /\ P!ClaimError(w) <=> PP!ClaimError(w)
                /\ P!LoseBatch(w) <=> PP!LoseBatch(w)
      /\ P!ClockStep <=> PP!ClockStep
    BY DEF P!LoopStep, PP!LoopStep, P!Claim, PP!Claim, P!Read, PP!Read, P!ClaimError,
        PP!ClaimError, P!LoseBatch, PP!LoseBatch, P!ClockStep, PP!ClockStep,
        P!OrphanGoesIdle, PP!OrphanGoesIdle, P!HeldGoesIdle, PP!HeldGoesIdle, P!Held,
        PP!Held, P!ProcessBatch, PP!ProcessBatch, P!Goto, PP!Goto, P!SpendFault,
        PP!SpendFault, P!Xautoclaim, PP!Xautoclaim, P!XreadGroup, PP!XreadGroup,
        P!Claimable, PP!Claimable, P!Lowest, PP!Lowest, P!Cardinality, PP!Cardinality,
        P!Undelivered, PP!Undelivered, P!GoIdle, PP!GoIdle, P!Ids, PP!Ids
<1>2. \A w : P!Handler(w) <=> PP!Handler(w)
    BY DEF P!Handler, PP!Handler, P!CheckDuplicate, PP!CheckDuplicate, P!DropDuplicate,
        PP!DropDuplicate, P!PersistRawEvent, PP!PersistRawEvent, P!MarkSeen,
        PP!MarkSeen, P!TouchTTL, PP!TouchTTL, P!Forward, PP!Forward, P!Ack, PP!Ack,
        P!AckAndFinish, PP!AckAndFinish, P!Mission, PP!Mission, P!Hash, PP!Hash,
        P!ContentHash, PP!ContentHash, P!local, PP!local, P!ProcessBatch,
        PP!ProcessBatch, P!Finish, PP!Finish, P!Goto, PP!Goto, P!SpendFault,
        PP!SpendFault, P!Msg, PP!Msg, P!Xadd, PP!Xadd, P!Xack, PP!Xack, P!InHandler,
        PP!InHandler, P!Ids, PP!Ids
<1>3. \A w : P!Fault(w) <=> PP!Fault(w)
    BY <1>1 DEF P!Fault, PP!Fault, P!Abort, PP!Abort, P!ClaimFails, PP!ClaimFails,
        P!PersistFails, PP!PersistFails, P!SpendFault, PP!SpendFault, P!Goto, PP!Goto,
        P!Msg, PP!Msg, P!Carrying, PP!Carrying, P!Mission, PP!Mission, P!Hash, PP!Hash,
        P!ContentHash, PP!ContentHash, P!InHandler, PP!InHandler, P!local, PP!local
<1>4. /\ \A w : P!Loop(w) <=> PP!Loop(w)
      /\ \A m : P!DedupTTL(m) <=> PP!DedupTTL(m)
      /\ P!Clock <=> PP!Clock
    BY <1>1 DEF P!Loop, PP!Loop, P!DedupTTL, PP!DedupTTL, P!Clock, PP!Clock, P!loopVars,
        PP!loopVars, P!local, PP!local
<1> QED
    BY <1>2, <1>3, <1>4

-----------------------------------------------------------------------------
(* The validators.                                                         *)

ValidatorOwnTypeOK ==
    /\ validatedData \in C!StreamOf(V!CleanMessage)
    /\ dead \subseteq V!DeadLetter

LEMMA ValidatorParts ==
    /\ V!CoreInv <=> /\ VL!LoopTypeOK(V!CleanMessage, V!HandlerLabels)
                     /\ VL!WorkInv(V!HandlerLabels)
                     /\ ValidatorOwnTypeOK
                     /\ V!EntryInv
    /\ (V!CoreInv <=> /\ VL!LoopTypeOK(V!CleanMessage, V!HandlerLabels)
                      /\ VL!WorkInv(V!HandlerLabels)
                      /\ ValidatorOwnTypeOK
                      /\ V!EntryInv)'
<1>1. /\ V!TypeOK <=> V!LoopTypeOK(V!CleanMessage, V!HandlerLabels) /\ ValidatorOwnTypeOK
      /\ (V!TypeOK <=> V!LoopTypeOK(V!CleanMessage, V!HandlerLabels) /\ ValidatorOwnTypeOK)'
    BY SameStreams DEF V!TypeOK, ValidatorOwnTypeOK
<1> QED
    BY <1>1, SameValidatorLoop DEF V!CoreInv

LEMMA ValidatorLabels ==
    /\ {"start"} \subseteq V!HandlerLabels
    /\ {"claim", "read"} \cap V!HandlerLabels = {}
    /\ V!HandlerLabels = {"start", "ack"} /\ V!Acking = {"ack"}
BY DEF V!HandlerLabels, V!Acking

\* A validator's message is one of its input stream.
LEMMA ValidatorMsg ==
    ASSUME V!CoreInv, NEW w \in Validators, validatePc[w] \in V!HandlerLabels
    PROVE  /\ validateCur[w] \in C!Ids(cleanData)
           /\ V!Msg(w) \in V!CleanMessage /\ V!Msg(w).job \in Jobs
           /\ V!Msg(w) = VL!Msg(w)
<1>1. /\ cleanData \in VL!StreamOf(V!CleanMessage)
      /\ validateCur[w] \in (0 .. cleanData.last) /\ validateCur[w] # 0
    BY ValidatorParts DEF VL!LoopTypeOK, VL!WorkInv
<1>2. /\ cleanData.last \in Nat /\ 1 .. cleanData.last \subseteq VL!Ids(cleanData)
      /\ \A i \in VL!Ids(cleanData) : cleanData.log[i] \in V!CleanMessage
    BY <1>1, StageAssumptions, VL!StreamFields, VL!EntryFacts
<1>3. validateCur[w] \in VL!Ids(cleanData)
    BY <1>1, <1>2
<1> QED
    BY <1>2, <1>3, SameStreams DEF V!Msg, VL!Msg, V!CleanMessage

\* What was handed on stays handed on.
ValidatorGrows ==
    /\ C!Ids(cleanData) \subseteq C!Ids(cleanData')
    /\ \A i \in C!Ids(cleanData) : cleanData'.log[i] = cleanData.log[i]
    /\ C!Ids(validatedData) \subseteq C!Ids(validatedData')
    /\ \A i \in C!Ids(validatedData) : validatedData'.log[i] = validatedData.log[i]
    /\ dead \subseteq dead'

LEMMA ValidatorHandedOn ==
    ASSUME ValidatorGrows, NEW i \in C!Ids(cleanData), V!HandedOn(i)
    PROVE  V!HandedOn(i)'
BY SameStreams DEF ValidatorGrows, V!HandedOn

LEMMA ValidatorEntries ==
    ASSUME V!CoreInv, ValidatorGrows,
           \A i \in C!Ids(cleanData') : i \in C!Ids(cleanData) \/ i \in C!Unacked(cleanData'),
           \A i \in C!Ids(cleanData) :
               i \in C!Unacked(cleanData) => i \in C!Unacked(cleanData') \/ V!HandedOn(i)',
           \A x \in Validators : validatePc'[x] = "ack" =>
               \/ validatePc[x] = "ack" /\ validateCur'[x] = validateCur[x]
               \/ V!HandedOn(validateCur[x])'
    PROVE  V!EntryInv'
<1>1. ASSUME NEW i \in C!Ids(cleanData')
      PROVE  i \in C!Unacked(cleanData') \/ V!HandedOn(i)'
  <2>1. CASE i \in C!Ids(cleanData) /\ V!HandedOn(i)
      BY <2>1, ValidatorHandedOn
  <2>2. CASE i \in C!Ids(cleanData) /\ i \in C!Unacked(cleanData)
      BY <2>2
  <2> QED
      BY <1>1, <2>1, <2>2, ValidatorParts, SameStreams DEF V!EntryInv
<1>2. ASSUME NEW x \in Validators, validatePc'[x] = "ack"
      PROVE  V!HandedOn(validateCur[x])'
  <2>1. CASE validatePc[x] = "ack" /\ validateCur'[x] = validateCur[x]
    <3>1. validateCur[x] \in C!Ids(cleanData) /\ V!HandedOn(validateCur[x])
        BY <2>1, ValidatorMsg, ValidatorLabels, ValidatorParts DEF V!EntryInv
    <3>2. ASSUME NEW i \in C!Ids(cleanData), i = validateCur[x]
          PROVE  V!HandedOn(i)'
        BY <3>1, <3>2, ValidatorHandedOn
    <3> QED
        BY <2>1, <3>1, <3>2
  <2> QED
      BY <1>2, <2>1
<1> QED
    BY <1>1, <1>2, SameStreams DEF V!EntryInv

\* The steps of a validator that hand nothing on.
ValidatorQuiet(M) ==
    /\ cleanData'.log = cleanData.log
    /\ UNCHANGED <<validatedData, dead>>
    /\ VL!Live(M, V!Acking)' <= VL!Live(M, V!Acking) + faults' - faults

\* A validator hands msg on: it passes it on, or buries it.
ValidatorHands(msg, M) ==
    /\ UNCHANGED <<cleanData, faults>>
    /\ \/ validatedData' = C!Xadd(validatedData, msg) /\ dead' = dead
       \/ /\ validatedData' = validatedData
          /\ dead' = dead \cup {[job |-> msg.job, reason |-> "validation_failed"]}
    /\ VL!Live(M, V!Acking)' + (IF msg \in M THEN 1 ELSE 0) <= VL!Live(M, V!Acking)

LEMMA ValidatorLive ==
    ASSUME NEW M
    PROVE  /\ V!CoreInv => VL!Live(M, V!Acking) \in Nat /\ faults \in Nat
           /\ V!CoreInv' => VL!Live(M, V!Acking)' \in Nat /\ faults' \in Nat
<1>1. /\ V!CoreInv => cleanData \in VL!StreamOf(V!CleanMessage) /\ faults \in 0 .. MaxFaults
      /\ V!CoreInv' => cleanData' \in VL!StreamOf(V!CleanMessage) /\ faults' \in 0 .. MaxFaults
    BY ValidatorParts DEF VL!LoopTypeOK
<1>2. V!CoreInv => VL!Live(M, V!Acking) \in Nat
    BY <1>1, VL!LiveFinite, StageAssumptions
<1>3. V!CoreInv' => VL!Live(M, V!Acking)' \in Nat
    BY <1>1, VL!LiveFiniteNext, StageAssumptions
<1> QED
    BY <1>1, <1>2, <1>3, PipelineAssumption

\* A validator reads, claims, is lost or finishes; or the claim timeout passes.
LEMMA ValidatorLoopStep ==
    ASSUME V!CoreInv, UNCHANGED <<validatedData, dead>>, NEW M,
           \/ V!ClockStep
           \/ \E w \in Validators :
                  \/ V!LoopStep(w) \/ V!ClaimError(w) \/ V!LoseBatch(w)
                  \/ validatePc[w] = "ack" /\ V!AckAndFinish(w)
    PROVE  V!CoreInv' /\ ValidatorQuiet(M)
<1> DEFINE Stays ==
               /\ VL!LoopTypeOK(V!CleanMessage, V!HandlerLabels)'
               /\ VL!WorkInv(V!HandlerLabels)'
               /\ cleanData'.log = cleanData.log
               /\ \A x \in Validators :
                      validatePc'[x] = "ack" =>
                          validatePc[x] = "ack" /\ validateCur'[x] = validateCur[x]
               /\ \A i \in C!Ids(cleanData) :
                      i \in C!Unacked(cleanData) =>
                          i \in C!Unacked(cleanData') \/ V!HandedOn(i)
               /\ VL!Live(M, V!Acking)' <= VL!Live(M, V!Acking) + faults' - faults
<1>0. /\ VL!LoopAssumption
      /\ VL!LoopTypeOK(V!CleanMessage, V!HandlerLabels) /\ VL!WorkInv(V!HandlerLabels)
      /\ {"start"} \subseteq V!HandlerLabels /\ {"claim", "read"} \cap V!HandlerLabels = {}
      /\ VL!Live(M, V!Acking) \in Nat /\ faults \in Nat
    BY StageAssumptions, ValidatorParts, ValidatorLabels, ValidatorLive
<1>1. ASSUME V!ClockStep PROVE Stays
  <2>1. VL!ClockStep
      BY <1>1, SameValidatorSteps
  <2>2. /\ VL!LoopTypeOK(V!CleanMessage, V!HandlerLabels)' /\ VL!WorkInv(V!HandlerLabels)'
        /\ cleanData'.log = cleanData.log
        /\ VL!Unacked(cleanData') = VL!Unacked(cleanData)
        /\ UNCHANGED <<validatePc, validateCur>>
      BY <1>0, <2>1, VL!ClockFacts
  <2>3. VL!Live(M, V!Acking)' <= VL!Live(M, V!Acking) + faults' - faults
      BY <1>0, <2>1, VL!ClockLive
  <2> QED
      BY <2>2, <2>3, SameStreams
<1>2. ASSUME NEW w \in Validators, V!LoopStep(w) \/ V!ClaimError(w) \/ V!LoseBatch(w)
      PROVE  Stays
  <2>1. VL!LoopStep(w) \/ VL!ClaimError(w) \/ VL!LoseBatch(w)
      BY <1>2, SameValidatorSteps
  <2>2. /\ VL!LoopTypeOK(V!CleanMessage, V!HandlerLabels)' /\ VL!WorkInv(V!HandlerLabels)'
        /\ VL!OnlyMoves(w)
        /\ cleanData'.log = cleanData.log
        /\ VL!Unacked(cleanData') = VL!Unacked(cleanData)
      BY <1>0, <2>1, VL!LoopFacts
  <2>3. VL!Live(M, V!Acking)' <= VL!Live(M, V!Acking) + faults' - faults
      BY <1>0, <2>1, VL!LoopLive
  <2> QED
      BY <2>2, <2>3, SameStreams DEF VL!OnlyMoves
<1>3. ASSUME NEW w \in Validators, validatePc[w] = "ack", V!AckAndFinish(w)
      PROVE  Stays
  <2>1. VL!AckAndFinish(w) /\ VL!Finish(w) /\ faults' = faults
        /\ cleanData' = VL!Xack(cleanData, validateCur[w])
        /\ validatePc[w] \in V!HandlerLabels
      BY <1>3, SameValidatorSteps, ValidatorLabels DEF VL!AckAndFinish
  <2>2. /\ VL!LoopTypeOK(V!CleanMessage, V!HandlerLabels)' /\ VL!WorkInv(V!HandlerLabels)'
        /\ VL!OnlyMoves(w)
        /\ cleanData'.log = cleanData.log
        /\ VL!Unacked(cleanData') = VL!Unacked(cleanData) \ {validateCur[w]}
      BY <1>0, <2>1, VL!AckAndFinishFacts
  <2>3. /\ cleanData'.last = cleanData.last
        /\ cleanData'.pel = cleanData.pel \ {validateCur[w]}
        /\ cleanData'.idle = cleanData.idle \ {validateCur[w]}
        /\ cleanData.idle \subseteq cleanData.pel
      BY <1>0, <2>1, VL!StreamFields DEF VL!Xack, VL!StreamRecord, VL!LoopTypeOK
  <2>4. VL!Live(M, V!Acking)' <= VL!Live(M, V!Acking)
      BY <1>0, <2>1, <2>2, <2>3, VL!FinishLive
  <2>5. V!HandedOn(validateCur[w])
      BY <1>3, ValidatorParts DEF V!EntryInv
  <2>6. VL!Live(M, V!Acking)' <= VL!Live(M, V!Acking) + faults' - faults
    <3>1. VL!Live(M, V!Acking)' \in Nat
        BY <1>0, <2>2, VL!LiveFiniteNext DEF VL!LoopTypeOK
    <3> QED
        BY <1>0, <2>1, <2>4, <3>1
  <2> QED
      BY <2>2, <2>5, <2>6, SameStreams DEF VL!OnlyMoves
<1>4. Stays
    BY <1>1, <1>2, <1>3
<1>5. ValidatorOwnTypeOK'
    BY ValidatorParts DEF ValidatorOwnTypeOK
<1>6. C!Ids(cleanData') = C!Ids(cleanData) /\ ValidatorGrows
    BY <1>4 DEF C!Ids, ValidatorGrows
<1>7. V!EntryInv'
    BY <1>4, <1>6, ValidatorEntries, ValidatorHandedOn
<1> QED
    BY <1>4, <1>5, <1>7, ValidatorParts DEF ValidatorQuiet

\* A validator that accepts or rejects a message hands it on.
ValidatorMoves(w) == V!Accept(w) \/ V!Reject(w)

LEMMA ValidatorHandsOn ==
    ASSUME V!CoreInv, NEW w \in Validators, ValidatorMoves(w), NEW M
    PROVE  V!CoreInv' /\ ValidatorHands(V!Msg(w), M)
<1> DEFINE msg == V!Msg(w)
           letter == [job |-> msg.job, reason |-> "validation_failed"]
<1>0. /\ VL!LoopAssumption
      /\ VL!LoopTypeOK(V!CleanMessage, V!HandlerLabels) /\ VL!WorkInv(V!HandlerLabels)
      /\ ValidatorOwnTypeOK /\ V!EntryInv
      /\ VL!Live(M, V!Acking) \in Nat
    BY StageAssumptions, ValidatorParts, ValidatorLive
<1>1. /\ validatePc[w] = "start" /\ validatePc[w] \in V!HandlerLabels
      /\ "ack" \in V!HandlerLabels /\ VL!Goto(w, "ack")
      /\ UNCHANGED <<cleanData, faults, validateAfter, validateBatch, validateCur>>
      /\ \/ validatedData' = C!Xadd(validatedData, msg) /\ dead' = dead
         \/ validatedData' = validatedData /\ dead' = dead \cup {letter}
    BY SameStreams, ValidatorLabels
       DEF ValidatorMoves, V!Accept, V!Reject, V!InHandler, V!Goto, VL!Goto
<1>2. /\ validateCur[w] \in C!Ids(cleanData) /\ msg \in V!CleanMessage /\ msg.job \in Jobs
      /\ msg = VL!Msg(w) /\ msg = cleanData.log[validateCur[w]]
    BY <1>1, ValidatorMsg DEF V!Msg
<1> HIDE DEF msg
<1>3. /\ VL!LoopTypeOK(V!CleanMessage, V!HandlerLabels)' /\ VL!WorkInv(V!HandlerLabels)'
      /\ validatePc'[w] = "ack"
      /\ \A x \in Validators : x # w => validatePc'[x] = validatePc[x]
  <2>1. cleanData' \in VL!StreamOf(V!CleanMessage) /\ faults' \in 0 .. MaxFaults
      BY <1>0, <1>1 DEF VL!LoopTypeOK
  <2> QED
      BY <1>0, <1>1, <2>1, VL!HandlerMoveFacts
<1>4. VL!Live(M, V!Acking)' + (IF msg \in M THEN 1 ELSE 0) <= VL!Live(M, V!Acking)
  <2>1. VL!Live(M, V!Acking)' + VL!HandsOn(w, "ack", M, V!Acking)
            <= VL!Live(M, V!Acking) + VL!TakesBack(w, "ack", V!Acking)
      BY <1>0, <1>1, VL!HandlerLive
  <2>2. /\ VL!HandsOn(w, "ack", M, V!Acking) = IF msg \in M THEN 1 ELSE 0
        /\ VL!TakesBack(w, "ack", V!Acking) = 0
      BY <1>1, <1>2, ValidatorLabels DEF VL!HandsOn, VL!TakesBack
  <2> QED
      BY <1>0, <2>1, <2>2
<1>5. /\ ValidatorOwnTypeOK' /\ ValidatorGrows
      /\ \/ \E k \in C!Ids(validatedData') : validatedData'.log[k] = msg
         \/ letter \in dead'
  <2>1. CASE validatedData' = C!Xadd(validatedData, msg) /\ dead' = dead
    <3>1. /\ validatedData \in VL!StreamOf(V!CleanMessage)
          /\ validatedData' = VL!Xadd(validatedData, msg)
        BY <1>0, <2>1, SameStreams DEF ValidatorOwnTypeOK
    <3>2. /\ validatedData' \in VL!StreamOf(V!CleanMessage)
          /\ VL!Ids(validatedData')
                 = VL!Ids(validatedData) \cup {VL!Len(validatedData.log) + 1}
          /\ \A i \in VL!Ids(validatedData) : validatedData'.log[i] = validatedData.log[i]
          /\ validatedData'.log[VL!Len(validatedData.log) + 1] = msg
        BY <1>0, <1>2, <3>1, VL!XaddFacts
    <3> QED
        BY <1>0, <1>1, <2>1, <3>2, SameStreams DEF ValidatorOwnTypeOK, ValidatorGrows
  <2>2. CASE validatedData' = validatedData /\ dead' = dead \cup {letter}
    <3>1. letter \in V!DeadLetter
        BY <1>2 DEF V!DeadLetter, V!Reasons
    <3> QED
        BY <1>0, <1>1, <2>2, <3>1 DEF ValidatorOwnTypeOK, ValidatorGrows
  <2> QED
      BY <1>1, <2>1, <2>2
<1>6. V!EntryInv'
  <2>1. V!HandedOn(validateCur[w])'
      BY <1>1, <1>2, <1>5, SameStreams DEF V!HandedOn
  <2> QED
      BY <1>1, <1>3, <1>5, <2>1, ValidatorEntries
<1> QED
    BY <1>1, <1>3, <1>4, <1>5, <1>6, ValidatorParts DEF ValidatorHands, msg

\* Every step of the stage: nothing is handed on, or one message is, once.
LEMMA ValidatorStep ==
    ASSUME V!CoreInv, V!Next, NEW M
    PROVE  /\ V!CoreInv'
           /\ ValidatorQuiet(M) \/ \E msg \in V!CleanMessage : ValidatorHands(msg, M)
<1>1. \/ /\ UNCHANGED <<validatedData, dead>>
         /\ \/ V!ClockStep
            \/ \E w \in Validators :
                   \/ V!LoopStep(w) \/ V!ClaimError(w) \/ V!LoseBatch(w)
                   \/ validatePc[w] = "ack" /\ V!AckAndFinish(w)
      \/ \E w \in Validators : ValidatorMoves(w)
    BY DEF V!Next, V!Loop, V!Handler, V!Ack, V!Fault, V!Abort, V!ClaimFails, V!Clock, V!local,
        ValidatorMoves
<1>2. ASSUME NEW w \in Validators, ValidatorMoves(w)
      PROVE  V!CoreInv' /\ \E msg \in V!CleanMessage : ValidatorHands(msg, M)
  <2>1. validatePc[w] \in V!HandlerLabels
      BY <1>2, ValidatorLabels DEF ValidatorMoves, V!Accept, V!Reject
  <2>2. V!Msg(w) \in V!CleanMessage
      BY <2>1, ValidatorMsg
  <2> QED
      BY <1>2, <2>2, ValidatorHandsOn
<1> QED
    BY <1>1, <1>2, ValidatorLoopStep

\* A step of another stage: a processor adds to clean_data, a store worker takes from
\* validated_data, a message is buried, or something fails.
ValidatorElsewhere ==
    /\ UNCHANGED <<validatePc, validateAfter, validateBatch, validateCur>>
    /\ \/ cleanData' = cleanData
       \/ \E msg \in V!CleanMessage : cleanData' = C!Xadd(cleanData, msg)
    /\ validatedData' \in C!StreamOf(V!CleanMessage)
    /\ validatedData'.log = validatedData.log
    /\ dead \subseteq dead' /\ dead' \subseteq V!DeadLetter
    /\ faults' \in 0 .. MaxFaults

LEMMA ValidatorElsewhereStep ==
    ASSUME V!CoreInv, ValidatorElsewhere, NEW M
    PROVE  /\ V!CoreInv'
           /\ cleanData' = cleanData => VL!Live(M, V!Acking)' = VL!Live(M, V!Acking)
           /\ \A msg \in V!CleanMessage : cleanData' = C!Xadd(cleanData, msg) =>
                  VL!Live(M, V!Acking)' = VL!Live(M, V!Acking) + (IF msg \in M THEN 1 ELSE 0)
<1>0. /\ VL!LoopAssumption
      /\ VL!LoopTypeOK(V!CleanMessage, V!HandlerLabels) /\ VL!WorkInv(V!HandlerLabels)
      /\ UNCHANGED <<validatePc, validateAfter, validateBatch, validateCur>>
      /\ \/ cleanData' = cleanData
         \/ \E msg \in V!CleanMessage : cleanData' = VL!Xadd(cleanData, msg)
      /\ faults' \in 0 .. MaxFaults
    BY StageAssumptions, ValidatorParts, SameStreams DEF ValidatorElsewhere
<1>1. /\ VL!LoopTypeOK(V!CleanMessage, V!HandlerLabels)' /\ VL!WorkInv(V!HandlerLabels)'
      /\ VL!Ids(cleanData) \subseteq VL!Ids(cleanData')
      /\ \A i \in VL!Ids(cleanData) : cleanData'.log[i] = cleanData.log[i]
      /\ \A i \in VL!Ids(cleanData) :
             i \in VL!Unacked(cleanData) <=> i \in VL!Unacked(cleanData')
      /\ \A i \in VL!Ids(cleanData') :
             i \in VL!Ids(cleanData) \/ i \in VL!Unacked(cleanData')
    BY <1>0, VL!ElsewhereFacts
<1>2. /\ cleanData' = cleanData => VL!Live(M, V!Acking)' = VL!Live(M, V!Acking)
      /\ \A msg \in V!CleanMessage : cleanData' = C!Xadd(cleanData, msg) =>
             VL!Live(M, V!Acking)' = VL!Live(M, V!Acking) + (IF msg \in M THEN 1 ELSE 0)
  <2>1. \A msg : VL!Xadd(cleanData, msg) = C!Xadd(cleanData, msg)
      BY SameStreams
  <2> QED
      BY <1>0, <2>1, VL!ElsewhereLive
<1>3. ValidatorOwnTypeOK'
    BY DEF ValidatorElsewhere, ValidatorOwnTypeOK
<1>4. V!EntryInv'
  <2>1. ValidatorGrows
      BY <1>1, SameStreams DEF ValidatorElsewhere, ValidatorGrows, C!Ids
  <2> QED
      BY <1>0, <1>1, <2>1, SameStreams, ValidatorEntries
<1> QED
    BY <1>1, <1>2, <1>3, <1>4, ValidatorParts

-----------------------------------------------------------------------------
(* The store workers.                                                      *)

StoreOwnTypeOK ==
    /\ rows \in [Jobs -> Nat]
    /\ jobDone \in [Missions -> Nat]
    /\ jobFailed \in [Missions -> Nat]
    /\ dead \subseteq S!DeadLetter

LEMMA StoreParts ==
    /\ S!CoreInv <=> /\ SL!LoopTypeOK(S!ValidMessage, S!HandlerLabels)
                     /\ SL!WorkInv(S!HandlerLabels)
                     /\ StoreOwnTypeOK
                     /\ S!EntryInv
    /\ (S!CoreInv <=> /\ SL!LoopTypeOK(S!ValidMessage, S!HandlerLabels)
                      /\ SL!WorkInv(S!HandlerLabels)
                      /\ StoreOwnTypeOK
                      /\ S!EntryInv)'
<1>1. /\ S!TypeOK <=> S!LoopTypeOK(S!ValidMessage, S!HandlerLabels) /\ StoreOwnTypeOK
      /\ (S!TypeOK <=> S!LoopTypeOK(S!ValidMessage, S!HandlerLabels) /\ StoreOwnTypeOK)'
    BY DEF S!TypeOK, StoreOwnTypeOK
<1> QED
    BY <1>1, SameStoreLoop DEF S!CoreInv

LEMMA StoreLabels ==
    /\ {"start"} \subseteq S!HandlerLabels
    /\ {"claim", "read"} \cap S!HandlerLabels = {}
    /\ S!HandlerLabels = {"start", "countFailed", "bury", "ack", "publish"}
BY DEF S!HandlerLabels

LEMMA StoreMsg ==
    ASSUME S!CoreInv, NEW w \in Stores, storePc[w] \in S!HandlerLabels
    PROVE  /\ storeCur[w] \in C!Ids(validatedData)
           /\ S!Msg(w) \in S!ValidMessage /\ S!Msg(w).job \in Jobs
           /\ S!Mission(w) \in Missions /\ S!Mission(w) = MissionOf[S!Msg(w).job]
           /\ S!Msg(w) = SL!Msg(w) /\ S!Msg(w) = validatedData.log[storeCur[w]]
<1>1. /\ validatedData \in SL!StreamOf(S!ValidMessage)
      /\ storeCur[w] \in (0 .. validatedData.last) /\ storeCur[w] # 0
    BY StoreParts DEF SL!LoopTypeOK, SL!WorkInv
<1>2. /\ validatedData.last \in Nat /\ 1 .. validatedData.last \subseteq SL!Ids(validatedData)
      /\ \A i \in SL!Ids(validatedData) : validatedData.log[i] \in S!ValidMessage
    BY <1>1, StageAssumptions, SL!StreamFields, SL!EntryFacts
<1>3. storeCur[w] \in SL!Ids(validatedData)
    BY <1>1, <1>2
<1> QED
    BY <1>2, <1>3, SameStreams, PipelineAssumption
       DEF S!Msg, SL!Msg, S!ValidMessage, S!Mission

\* What was handed on stays handed on.
StoreGrows ==
    /\ C!Ids(validatedData) \subseteq C!Ids(validatedData')
    /\ \A i \in C!Ids(validatedData) : validatedData'.log[i] = validatedData.log[i]
    /\ \A j \in Jobs : rows[j] > 0 => rows'[j] > 0
    /\ dead \subseteq dead'

LEMMA StoreHandedOn ==
    ASSUME S!CoreInv, StoreGrows, NEW i \in C!Ids(validatedData), S!HandedOn(i)
    PROVE  S!HandedOn(i)'
<1>1. validatedData \in SL!StreamOf(S!ValidMessage)
    BY StoreParts DEF SL!LoopTypeOK
<1>2. validatedData.log[i] \in S!ValidMessage
  <2>1. \A k \in SL!Ids(validatedData) : validatedData.log[k] \in S!ValidMessage
      BY <1>1, StageAssumptions, SL!EntryFacts
  <2> QED
      BY <2>1, SameStreams
<1>3. validatedData.log[i].job \in Jobs
    BY <1>2 DEF S!ValidMessage
<1> QED
    BY <1>3 DEF StoreGrows, S!HandedOn

LEMMA StoreEntries ==
    ASSUME S!CoreInv, StoreGrows,
           \A i \in C!Ids(validatedData') :
               i \in C!Ids(validatedData) \/ i \in C!Unacked(validatedData'),
           \A i \in C!Ids(validatedData) :
               i \in C!Unacked(validatedData) =>
                   i \in C!Unacked(validatedData') \/ S!HandedOn(i)',
           \A x \in Stores : storePc'[x] = "ack" =>
               \/ storePc[x] = "ack" /\ storeCur'[x] = storeCur[x]
               \/ S!HandedOn(storeCur[x])',
           \A x \in Stores : storePc'[x] = "publish" =>
               storeCur'[x] \notin C!Unacked(validatedData')
    PROVE  S!EntryInv'
<1>1. ASSUME NEW i \in C!Ids(validatedData')
      PROVE  i \in C!Unacked(validatedData') \/ S!HandedOn(i)'
  <2>1. CASE i \in C!Ids(validatedData) /\ S!HandedOn(i)
      BY <2>1, StoreHandedOn
  <2>2. CASE i \in C!Ids(validatedData) /\ i \in C!Unacked(validatedData)
      BY <2>2
  <2> QED
      BY <1>1, <2>1, <2>2, StoreParts, SameStreams DEF S!EntryInv
<1>2. ASSUME NEW x \in Stores, storePc'[x] = "ack"
      PROVE  S!HandedOn(storeCur[x])'
  <2>1. CASE storePc[x] = "ack" /\ storeCur'[x] = storeCur[x]
    <3>1. storeCur[x] \in C!Ids(validatedData) /\ S!HandedOn(storeCur[x])
        BY <2>1, StoreMsg, StoreLabels, StoreParts DEF S!EntryInv
    <3>2. ASSUME NEW i \in C!Ids(validatedData), i = storeCur[x]
          PROVE  S!HandedOn(i)'
        BY <3>1, <3>2, StoreHandedOn
    <3> QED
        BY <2>1, <3>1, <3>2
  <2> QED
      BY <1>2, <2>1
<1> QED
    BY <1>1, <1>2, SameStreams DEF S!EntryInv

\* The rows and counters that a step of another kind leaves alone.
StoreIdle == UNCHANGED <<rows, jobDone, jobFailed, dead>>

LEMMA StoreLive ==
    ASSUME NEW M, NEW Spent
    PROVE  /\ S!CoreInv => SL!Live(M, Spent) \in Nat /\ faults \in Nat
           /\ S!CoreInv' => SL!Live(M, Spent)' \in Nat /\ faults' \in Nat
<1>1. /\ S!CoreInv => /\ validatedData \in SL!StreamOf(S!ValidMessage)
                      /\ faults \in 0 .. MaxFaults
      /\ S!CoreInv' => /\ validatedData' \in SL!StreamOf(S!ValidMessage)
                       /\ faults' \in 0 .. MaxFaults
    BY StoreParts DEF SL!LoopTypeOK
<1>2. S!CoreInv => SL!Live(M, Spent) \in Nat
    BY <1>1, SL!LiveFinite, StageAssumptions
<1>3. S!CoreInv' => SL!Live(M, Spent)' \in Nat
    BY <1>1, SL!LiveFiniteNext, StageAssumptions
<1> QED
    BY <1>1, <1>2, <1>3, PipelineAssumption

\* A store worker reads, claims, is lost or finishes; or the claim timeout passes.
LEMMA StoreLoopStep ==
    ASSUME S!CoreInv, StoreIdle,
           \/ S!ClockStep
           \/ \E w \in Stores :
                  \/ S!LoopStep(w) \/ S!ClaimError(w) \/ S!LoseBatch(w)
                  \/ storePc[w] = "publish" /\ S!Finish(w) /\ UNCHANGED <<validatedData, faults>>
    PROVE  /\ S!CoreInv'
           /\ validatedData'.log = validatedData.log
           /\ \A M, Spent :
                  SL!Live(M, Spent)' <= SL!Live(M, Spent) + faults' - faults
<1> DEFINE Stays ==
               /\ SL!LoopTypeOK(S!ValidMessage, S!HandlerLabels)'
               /\ SL!WorkInv(S!HandlerLabels)'
               /\ validatedData'.log = validatedData.log
               /\ C!Unacked(validatedData') = C!Unacked(validatedData)
               /\ \A x \in Stores :
                      storePc'[x] \in {"ack", "publish"} =>
                          storePc[x] = storePc'[x] /\ storeCur'[x] = storeCur[x]
           Thrifty(M, Spent) == SL!Live(M, Spent)' <= SL!Live(M, Spent) + faults' - faults
<1>0. /\ SL!LoopAssumption
      /\ SL!LoopTypeOK(S!ValidMessage, S!HandlerLabels) /\ SL!WorkInv(S!HandlerLabels)
      /\ {"start"} \subseteq S!HandlerLabels /\ {"claim", "read"} \cap S!HandlerLabels = {}
      /\ S!EntryInv /\ StoreOwnTypeOK
    BY StageAssumptions, StoreParts, StoreLabels
<1>1. ASSUME S!ClockStep PROVE Stays /\ \A M, Spent : Thrifty(M, Spent)
  <2>1. SL!ClockStep
      BY <1>1, SameStoreSteps
  <2>2. /\ SL!LoopTypeOK(S!ValidMessage, S!HandlerLabels)' /\ SL!WorkInv(S!HandlerLabels)'
        /\ validatedData'.log = validatedData.log
        /\ SL!Unacked(validatedData') = SL!Unacked(validatedData)
        /\ UNCHANGED <<storePc, storeCur>>
      BY <1>0, <2>1, SL!ClockFacts
  <2>3. \A M, Spent : Thrifty(M, Spent)
      BY <1>0, <2>1, SL!ClockLive
  <2> QED
      BY <2>2, <2>3, SameStreams
<1>2. ASSUME NEW w \in Stores, S!LoopStep(w) \/ S!ClaimError(w) \/ S!LoseBatch(w)
      PROVE  Stays /\ \A M, Spent : Thrifty(M, Spent)
  <2>1. SL!LoopStep(w) \/ SL!ClaimError(w) \/ SL!LoseBatch(w)
      BY <1>2, SameStoreSteps
  <2>2. /\ SL!LoopTypeOK(S!ValidMessage, S!HandlerLabels)' /\ SL!WorkInv(S!HandlerLabels)'
        /\ SL!OnlyMoves(w)
        /\ validatedData'.log = validatedData.log
        /\ SL!Unacked(validatedData') = SL!Unacked(validatedData)
      BY <1>0, <2>1, SL!LoopFacts
  <2>3. \A M, Spent : Thrifty(M, Spent)
      BY <1>0, <2>1, SL!LoopLive
  <2> QED
      BY <2>2, <2>3, SameStreams DEF SL!OnlyMoves
<1>3. ASSUME NEW w \in Stores, storePc[w] = "publish", S!Finish(w),
             UNCHANGED <<validatedData, faults>>
      PROVE  Stays /\ \A M, Spent : Thrifty(M, Spent)
  <2>1. SL!Finish(w) /\ storePc[w] \in S!HandlerLabels
      BY <1>3, SameStoreSteps, StoreLabels
  <2>2. storeCur[w] \notin C!Unacked(validatedData) /\ storeCur[w] \in C!Ids(validatedData)
      BY <1>0, <1>3, <2>1, StoreMsg, SameStreams DEF S!EntryInv
  <2>3. /\ storeCur[w] \notin validatedData.pel
        /\ validatedData.idle \subseteq validatedData.pel
      BY <1>0, <2>2, SL!StreamFields DEF C!Unacked, SL!LoopTypeOK
  <2>4. /\ SL!LoopTypeOK(S!ValidMessage, S!HandlerLabels)' /\ SL!WorkInv(S!HandlerLabels)'
        /\ SL!OnlyMoves(w)
    <3>1. /\ SL!ProcessBatch(w, storeBatch[w], storeAfter[w])
          /\ storeBatch[w] \in SUBSET (1 .. validatedData'.last)
          /\ storeAfter[w] \in {"claim", "read"}
          /\ validatedData' \in SL!StreamOf(S!ValidMessage)
          /\ validatedData'.last \in Nat /\ validatedData.last <= validatedData'.last
          /\ faults' \in 0 .. MaxFaults
        BY <1>0, <1>3, <2>1, SL!StreamFields DEF SL!Finish, SL!LoopTypeOK, SL!WorkInv
    <3> QED
        BY <1>0, <3>1, SL!ProcessBatchFacts
  <2>5. ASSUME NEW M, NEW Spent PROVE Thrifty(M, Spent)
    <3>1. SL!Live(M, Spent)' <= SL!Live(M, Spent)
        BY <1>0, <1>3, <2>1, <2>3, SL!FinishLive
    <3>2. SL!Live(M, Spent)' \in Nat /\ SL!Live(M, Spent) \in Nat /\ faults \in Nat
        BY <1>0, <2>4, SL!LiveFiniteNext, StoreLive DEF SL!LoopTypeOK
    <3> QED
        BY <1>3, <3>1, <3>2
  <2> QED
      BY <1>3, <2>4, <2>5 DEF SL!OnlyMoves
<1>4. Stays /\ \A M, Spent : Thrifty(M, Spent)
    BY <1>1, <1>2, <1>3
<1>5. StoreOwnTypeOK'
    BY <1>0 DEF StoreIdle, StoreOwnTypeOK
<1>6. C!Ids(validatedData') = C!Ids(validatedData) /\ StoreGrows
    BY <1>4 DEF C!Ids, StoreGrows, StoreIdle
<1>7. S!EntryInv'
  <2>1. \A x \in Stores : storePc'[x] = "publish" =>
            storeCur'[x] \notin C!Unacked(validatedData')
      BY <1>0, <1>4, SameStreams DEF S!EntryInv
  <2> QED
      BY <1>4, <1>6, <2>1, StoreEntries
<1> QED
    BY <1>4, <1>5, <1>7, StoreParts

\* What a handler's step to label makes of the messages that can still be handed on.
StoreHands(w, label) ==
    \A M, Spent : SL!Live(M, Spent)' + SL!HandsOn(w, label, M, Spent)
                      <= SL!Live(M, Spent) + SL!TakesBack(w, label, Spent)

\* A step inside the handler of a store worker, before it acknowledges its entry.
LEMMA StoreMoveStep ==
    ASSUME S!CoreInv, NEW w \in Stores, storePc[w] \in S!HandlerLabels,
           NEW label \in S!HandlerLabels \ {"publish"}, S!Goto(w, label), S!InHandler,
           validatedData' = validatedData, faults' \in 0 .. MaxFaults,
           StoreOwnTypeOK', \A j \in Jobs : rows[j] > 0 => rows'[j] > 0, dead \subseteq dead',
           label = "ack" => S!HandedOn(storeCur[w])'
    PROVE  S!CoreInv' /\ StoreHands(w, label)
<1>0. /\ SL!LoopAssumption
      /\ SL!LoopTypeOK(S!ValidMessage, S!HandlerLabels) /\ SL!WorkInv(S!HandlerLabels)
      /\ S!EntryInv
      /\ SL!Goto(w, label)
      /\ UNCHANGED <<storeAfter, storeBatch, storeCur>>
    BY StageAssumptions, StoreParts DEF S!Goto, SL!Goto, S!InHandler
<1>1. /\ SL!LoopTypeOK(S!ValidMessage, S!HandlerLabels)' /\ SL!WorkInv(S!HandlerLabels)'
      /\ storePc'[w] = label
      /\ \A x \in Stores : x # w => storePc'[x] = storePc[x]
  <2>1. validatedData' \in SL!StreamOf(S!ValidMessage)
      BY <1>0 DEF SL!LoopTypeOK
  <2> QED
      BY <1>0, <2>1, SL!HandlerMoveFacts
<1>2. StoreHands(w, label)
    BY <1>0, SL!HandlerLive DEF StoreHands
<1>3. S!EntryInv'
  <2>1. StoreGrows
      BY DEF StoreGrows
  <2>2. \A x \in Stores : storePc'[x] = "publish" =>
            storeCur'[x] \notin C!Unacked(validatedData')
      BY <1>0, <1>1, SameStreams DEF S!EntryInv
  <2> QED
      BY <1>0, <1>1, <2>1, <2>2, StoreEntries
<1> QED
    BY <1>1, <1>2, <1>3, StoreParts

\* What the transactions of a store worker change.
LEMMA StoreCommits ==
    ASSUME S!CoreInv, NEW w \in Stores, storePc[w] \in S!HandlerLabels
    PROVE  /\ S!CommitRow(w) =>
                  /\ rows' \in [Jobs -> Nat] /\ jobDone' \in [Missions -> Nat]
                  /\ \A j \in Jobs :
                         rows'[j] = rows[j] + (IF S!Msg(w).job = j THEN 1 ELSE 0)
                  /\ \A m \in Missions :
                         jobDone'[m] = jobDone[m] + (IF S!Mission(w) = m THEN 1 ELSE 0)
           /\ S!CommitFailure(w) =>
                  /\ jobFailed' \in [Missions -> Nat]
                  /\ \A m \in Missions :
                         jobFailed'[m] = jobFailed[m] + (IF S!Mission(w) = m THEN 1 ELSE 0)
<1>1. S!Msg(w).job \in Jobs /\ S!Mission(w) \in Missions /\ StoreOwnTypeOK
    BY StoreMsg, StoreParts
<1> QED
    BY <1>1 DEF StoreOwnTypeOK, S!CommitRow, S!CommitFailure

LEMMA StoreTransactions ==
    ASSUME S!CoreInv, NEW w \in Stores
    PROVE  /\ S!StoreRow(w) => S!CoreInv' /\ StoreHands(w, "ack")
           /\ S!StoreFails(w) => S!CoreInv' /\ StoreHands(w, "countFailed")
           /\ S!CountFailed(w) \/ S!CountFailedFails(w) => S!CoreInv' /\ StoreHands(w, "bury")
<1>0. /\ StoreOwnTypeOK /\ {"ack", "countFailed", "bury"} \subseteq S!HandlerLabels \ {"publish"}
      /\ faults \in 0 .. MaxFaults /\ MaxFaults \in Nat
    BY StoreParts, StoreLabels, PipelineAssumption DEF SL!LoopTypeOK
<1>1. ASSUME storePc[w] \in S!HandlerLabels, S!CommitRow(w) \/ UNCHANGED <<rows, jobDone>>,
             UNCHANGED <<jobFailed, dead>>
      PROVE  StoreOwnTypeOK' /\ \A j \in Jobs : rows[j] > 0 => rows'[j] > 0
    BY <1>0, <1>1, StoreCommits DEF StoreOwnTypeOK
<1>2. ASSUME storePc[w] \in S!HandlerLabels, S!CommitFailure(w) \/ UNCHANGED jobFailed,
             UNCHANGED <<rows, jobDone, dead>>
      PROVE  StoreOwnTypeOK' /\ \A j \in Jobs : rows[j] > 0 => rows'[j] > 0
    BY <1>0, <1>2, StoreCommits DEF StoreOwnTypeOK
<1>3. ASSUME S!StoreRow(w)
      PROVE  S!CoreInv' /\ StoreHands(w, "ack")
  <2>1. /\ storePc[w] \in S!HandlerLabels /\ S!CommitRow(w) /\ S!Goto(w, "ack") /\ S!InHandler
        /\ UNCHANGED <<validatedData, faults, jobFailed, dead>>
      BY <1>3, StoreLabels DEF S!StoreRow
  <2>2. S!HandedOn(storeCur[w])'
    <3>1. S!Msg(w).job \in Jobs /\ S!Msg(w) = validatedData.log[storeCur[w]]
        BY <2>1, StoreMsg
    <3>2. rows'[S!Msg(w).job] = rows[S!Msg(w).job] + 1
        BY <2>1, <3>1, StoreCommits
    <3>3. rows[S!Msg(w).job] \in Nat
        BY <1>0, <3>1 DEF StoreOwnTypeOK
    <3> QED
        BY <2>1, <3>1, <3>2, <3>3 DEF S!HandedOn, S!InHandler
  <2>3. StoreOwnTypeOK' /\ \A j \in Jobs : rows[j] > 0 => rows'[j] > 0
      BY <1>1, <2>1
  <2> QED
      BY <1>0, <2>1, <2>2, <2>3, StoreMoveStep
<1>4. ASSUME S!StoreFails(w)
      PROVE  S!CoreInv' /\ StoreHands(w, "countFailed")
  <2>1. /\ storePc[w] \in S!HandlerLabels
        /\ S!CommitRow(w) \/ UNCHANGED <<rows, jobDone>>
        /\ S!Goto(w, "countFailed") /\ S!InHandler
        /\ UNCHANGED <<validatedData, jobFailed, dead>>
        /\ faults' \in 0 .. MaxFaults
      BY <1>0, <1>4, StoreLabels DEF S!StoreFails, S!SpendFault
  <2>2. StoreOwnTypeOK' /\ \A j \in Jobs : rows[j] > 0 => rows'[j] > 0
      BY <1>1, <2>1
  <2> QED
      BY <1>0, <2>1, <2>2, StoreMoveStep
<1>5. ASSUME S!CountFailed(w) \/ S!CountFailedFails(w)
      PROVE  S!CoreInv' /\ StoreHands(w, "bury")
  <2>1. /\ storePc[w] \in S!HandlerLabels
        /\ S!CommitFailure(w) \/ UNCHANGED jobFailed
        /\ S!Goto(w, "bury") /\ S!InHandler
        /\ UNCHANGED <<validatedData, rows, jobDone, dead>>
        /\ faults' \in 0 .. MaxFaults
      BY <1>0, <1>5, StoreLabels DEF S!CountFailed, S!CountFailedFails, S!SpendFault
  <2>2. StoreOwnTypeOK' /\ \A j \in Jobs : rows[j] > 0 => rows'[j] > 0
      BY <1>2, <2>1
  <2> QED
      BY <1>0, <2>1, <2>2, StoreMoveStep
<1> QED
    BY <1>3, <1>4, <1>5

LEMMA StoreBuryStep ==
    ASSUME S!CoreInv, NEW w \in Stores, S!Bury(w)
    PROVE  S!CoreInv' /\ StoreHands(w, "ack")
<1>1. /\ storePc[w] \in S!HandlerLabels /\ "ack" \in S!HandlerLabels \ {"publish"}
      /\ S!Goto(w, "ack") /\ S!InHandler
      /\ UNCHANGED <<validatedData, faults, rows, jobDone, jobFailed>>
      /\ dead' = dead \cup {[job |-> S!Msg(w).job, reason |-> "db_error"]}
    BY StoreLabels DEF S!Bury
<1>2. S!Msg(w).job \in Jobs /\ S!Msg(w) = validatedData.log[storeCur[w]]
    BY <1>1, StoreMsg
<1>3. StoreOwnTypeOK' /\ faults' \in 0 .. MaxFaults
    BY <1>1, <1>2, StoreParts DEF StoreOwnTypeOK, SL!LoopTypeOK, S!DeadLetter, S!Reasons
<1>4. S!HandedOn(storeCur[w])'
  <2>1. \E d \in dead' : d.job = S!Msg(w).job
    <3>1. [job |-> S!Msg(w).job, reason |-> "db_error"] \in dead'
        BY <1>1
    <3> QED
        BY <3>1
  <2>2. validatedData'.log[storeCur'[w]].job = S!Msg(w).job
      BY <1>1, <1>2 DEF S!InHandler
  <2> QED
      BY <2>1, <2>2 DEF S!HandedOn
<1> QED
    BY <1>1, <1>3, <1>4, StoreMoveStep

LEMMA StoreAckStep ==
    ASSUME S!CoreInv, NEW w \in Stores, S!Ack(w)
    PROVE  S!CoreInv' /\ StoreHands(w, "publish") /\ validatedData'.log = validatedData.log
<1>0. /\ SL!LoopAssumption
      /\ SL!LoopTypeOK(S!ValidMessage, S!HandlerLabels) /\ SL!WorkInv(S!HandlerLabels)
      /\ S!EntryInv /\ StoreOwnTypeOK
      /\ storePc[w] = "ack" /\ storePc[w] \in S!HandlerLabels /\ "publish" \in S!HandlerLabels
      /\ SL!Goto(w, "publish")
      /\ UNCHANGED <<storeAfter, storeBatch, storeCur, faults>> /\ StoreIdle
      /\ validatedData' = SL!Xack(validatedData, storeCur[w])
    BY StageAssumptions, StoreParts, StoreLabels
       DEF S!Ack, S!Goto, SL!Goto, S!InHandler, S!local, StoreIdle, S!Xack, SL!Xack
<1>1. /\ validatedData' \in SL!StreamOf(S!ValidMessage)
      /\ validatedData'.log = validatedData.log /\ validatedData'.last = validatedData.last
      /\ validatedData'.pel = validatedData.pel \ {storeCur[w]}
      /\ validatedData'.idle = validatedData.idle \ {storeCur[w]}
      /\ SL!Unacked(validatedData') = SL!Unacked(validatedData) \ {storeCur[w]}
  <2>1. /\ validatedData \in SL!StreamOf(S!ValidMessage)
        /\ storeCur[w] \in 1 .. validatedData.last
    <3>1. validatedData \in SL!StreamOf(S!ValidMessage) /\ validatedData.last \in Nat
        BY <1>0, SL!StreamFields DEF SL!LoopTypeOK
    <3> QED
        BY <1>0, <3>1 DEF SL!WorkInv
  <2>2. validatedData \in SL!StreamRecord(S!ValidMessage)
      BY <1>0, <2>1, SL!StreamFields
  <2>3. /\ validatedData' \in SL!StreamOf(S!ValidMessage)
        /\ validatedData'.log = validatedData.log /\ validatedData'.last = validatedData.last
        /\ SL!Unacked(validatedData') = SL!Unacked(validatedData) \ {storeCur[w]}
      BY <1>0, <2>1, SL!XackFacts
  <2> QED
      BY <1>0, <2>2, <2>3 DEF SL!Xack, SL!StreamRecord
<1>2. /\ SL!LoopTypeOK(S!ValidMessage, S!HandlerLabels)' /\ SL!WorkInv(S!HandlerLabels)'
      /\ storePc'[w] = "publish"
      /\ \A x \in Stores : x # w => storePc'[x] = storePc[x]
  <2>1. faults' \in 0 .. MaxFaults
      BY <1>0 DEF SL!LoopTypeOK
  <2> QED
      BY <1>0, <1>1, <2>1, SL!HandlerMoveFacts
<1>3. StoreHands(w, "publish")
    BY <1>0, <1>1, SL!HandlerLive DEF StoreHands
<1>4. StoreGrows /\ C!Ids(validatedData') = C!Ids(validatedData) /\ StoreOwnTypeOK'
    BY <1>0, <1>1 DEF StoreGrows, StoreIdle, StoreOwnTypeOK, C!Ids
<1>5. S!EntryInv'
  <2>1. S!HandedOn(storeCur[w])
      BY <1>0 DEF S!EntryInv
  <2>2. \A i \in C!Ids(validatedData) : i \in C!Unacked(validatedData) =>
            i \in C!Unacked(validatedData') \/ S!HandedOn(i)'
      BY <1>1, <1>4, <2>1, StoreHandedOn, SameStreams
  <2>3. \A x \in Stores : storePc'[x] = "publish" =>
            storeCur'[x] \notin C!Unacked(validatedData')
      BY <1>0, <1>1, <1>2, SameStreams DEF S!EntryInv
  <2> QED
      BY <1>0, <1>2, <1>4, <2>2, <2>3, StoreEntries
<1> QED
    BY <1>1, <1>2, <1>3, <1>4, <1>5, StoreParts

\* The steps of the stage, by what its transactions and dead letters do.
LEMMA StoreCases ==
    ASSUME S!Next
    PROVE  \/ /\ StoreIdle
              /\ \/ S!ClockStep
                 \/ \E w \in Stores :
                        \/ S!LoopStep(w) \/ S!ClaimError(w) \/ S!LoseBatch(w)
                        \/ /\ storePc[w] = "publish" /\ S!Finish(w)
                           /\ UNCHANGED <<validatedData, faults>>
           \/ \E w \in Stores :
                  \/ S!StoreRow(w) \/ S!StoreFails(w) \/ S!CountFailed(w)
                  \/ S!CountFailedFails(w) \/ S!Bury(w) \/ S!Ack(w)
BY DEF S!Next, S!Loop, S!Handler, S!PublishProgress, S!Fault, S!Abort, S!ClaimFails, S!Clock,
       S!local, StoreIdle

LEMMA StoreStep ==
    ASSUME S!CoreInv, S!Next
    PROVE  S!CoreInv' /\ validatedData'.log = validatedData.log
<1>1. ASSUME NEW w \in Stores,
             \/ S!StoreRow(w) \/ S!StoreFails(w) \/ S!CountFailed(w)
             \/ S!CountFailedFails(w) \/ S!Bury(w)
      PROVE  S!CoreInv' /\ validatedData'.log = validatedData.log
  <2>1. validatedData' = validatedData
      BY <1>1 DEF S!StoreRow, S!StoreFails, S!CountFailed, S!CountFailedFails, S!Bury
  <2> QED
      BY <1>1, <2>1, StoreTransactions, StoreBuryStep
<1> QED
    BY <1>1, StoreCases, StoreLoopStep, StoreAckStep

\* What a store worker can still count in job_done or job_failed, and what it can
\* still store or bury: not what it has at these labels.
CountDone == {"bury", "ack", "publish"}
OutcomeDone == {"ack", "publish"}

Messages(J) == [job : J, content : Contents]

\* A message is counted once for each fault more than once.
LEMMA StoreCounts ==
    ASSUME S!CoreInv, S!Next, NEW m \in Missions
    PROVE  Counted(m)' + SL!Live(Messages(JobsOf(m)), CountDone)'
               <= Counted(m) + SL!Live(Messages(JobsOf(m)), CountDone) + faults' - faults
<1> DEFINE M == Messages(JobsOf(m))
           L == SL!Live(M, CountDone)
           Mine(w) == IF S!Mission(w) = m THEN 1 ELSE 0
<1>0. /\ L \in Nat /\ L' \in Nat /\ faults \in Nat /\ faults' \in Nat
      /\ jobDone[m] \in Nat /\ jobFailed[m] \in Nat
    BY StoreStep, StoreLive, StoreParts DEF StoreOwnTypeOK
<1>1. ASSUME NEW w \in Stores, storePc[w] \in S!HandlerLabels, NEW label, StoreHands(w, label)
      PROVE  /\ storePc[w] \in CountDone => L' <= L + (IF label \in CountDone THEN 0 ELSE 1)
             /\ storePc[w] \notin CountDone =>
                    L' <= L /\ (label \in CountDone => L' + Mine(w) <= L)
  <2>1. L' + SL!HandsOn(w, label, M, CountDone) <= L + SL!TakesBack(w, label, CountDone)
      BY <1>1 DEF StoreHands
  <2>2. SL!Msg(w) \in M <=> S!Mission(w) = m
      BY <1>1, StoreMsg DEF Messages, JobsOf, S!ValidMessage
  <2> QED
      BY <1>0, <2>1, <2>2 DEF SL!HandsOn, SL!TakesBack
<1> HIDE DEF L, M
<1>2. CASE StoreIdle /\ L' <= L + faults' - faults
    BY <1>0, <1>2 DEF StoreIdle, Counted, L, M
<1>3. ASSUME NEW w \in Stores, S!StoreRow(w)
      PROVE  Counted(m)' + L' <= Counted(m) + L + faults' - faults
  <2>1. /\ storePc[w] \in S!HandlerLabels /\ storePc[w] \notin CountDone /\ "ack" \in CountDone
        /\ S!CommitRow(w) /\ UNCHANGED <<jobFailed, faults>>
      BY <1>3, StoreLabels DEF S!StoreRow, CountDone
  <2>2. jobDone'[m] = jobDone[m] + Mine(w)
      BY <2>1, StoreCommits
  <2>3. L' + Mine(w) <= L
      BY <1>1, <1>3, <2>1, StoreTransactions
  <2> QED
      BY <1>0, <2>1, <2>2, <2>3 DEF Counted
<1>4. ASSUME NEW w \in Stores, S!StoreFails(w)
      PROVE  Counted(m)' + L' <= Counted(m) + L + faults' - faults
  <2>1. /\ storePc[w] \in S!HandlerLabels /\ storePc[w] \notin CountDone
        /\ "countFailed" \notin CountDone
        /\ S!CommitRow(w) \/ UNCHANGED <<rows, jobDone>>
        /\ jobFailed' = jobFailed /\ faults' = faults + 1
      BY <1>4, StoreLabels DEF S!StoreFails, S!SpendFault, CountDone
  <2>2. jobDone'[m] <= jobDone[m] + 1 /\ jobDone'[m] \in Nat
      BY <1>0, <2>1, StoreCommits
  <2>3. L' <= L
      BY <1>1, <1>4, <2>1, StoreTransactions
  <2> QED
      BY <1>0, <2>1, <2>2, <2>3 DEF Counted
<1>5. ASSUME NEW w \in Stores, S!CountFailed(w)
      PROVE  Counted(m)' + L' <= Counted(m) + L + faults' - faults
  <2>1. /\ storePc[w] \in S!HandlerLabels /\ storePc[w] \notin CountDone /\ "bury" \in CountDone
        /\ S!CommitFailure(w) /\ UNCHANGED <<jobDone, faults>>
      BY <1>5, StoreLabels DEF S!CountFailed, CountDone
  <2>2. jobFailed'[m] = jobFailed[m] + Mine(w)
      BY <2>1, StoreCommits
  <2>3. L' + Mine(w) <= L
      BY <1>1, <1>5, <2>1, StoreTransactions
  <2> QED
      BY <1>0, <2>1, <2>2, <2>3 DEF Counted
<1>6. ASSUME NEW w \in Stores, S!CountFailedFails(w)
      PROVE  Counted(m)' + L' <= Counted(m) + L + faults' - faults
  <2>1. /\ storePc[w] \in S!HandlerLabels /\ storePc[w] \notin CountDone /\ "bury" \in CountDone
        /\ S!CommitFailure(w) \/ UNCHANGED jobFailed
        /\ jobDone' = jobDone /\ faults' = faults + 1
      BY <1>6, StoreLabels DEF S!CountFailedFails, S!SpendFault, CountDone
  <2>2. jobFailed'[m] <= jobFailed[m] + 1 /\ jobFailed'[m] \in Nat
      BY <1>0, <2>1, StoreCommits
  <2>3. L' <= L
      BY <1>1, <1>6, <2>1, StoreTransactions
  <2> QED
      BY <1>0, <2>1, <2>2, <2>3 DEF Counted
<1>7. ASSUME NEW w \in Stores, S!Bury(w) \/ S!Ack(w)
      PROVE  Counted(m)' + L' <= Counted(m) + L + faults' - faults
  <2>1. /\ storePc[w] \in S!HandlerLabels /\ storePc[w] \in CountDone
        /\ {"ack", "publish"} \subseteq CountDone
        /\ UNCHANGED <<jobDone, jobFailed, faults>>
      BY <1>7, StoreLabels DEF S!Bury, S!Ack, S!local, CountDone
  <2>2. L' <= L
      BY <1>0, <1>1, <1>7, <2>1, StoreBuryStep, StoreAckStep
  <2> QED
      BY <1>0, <2>1, <2>2 DEF Counted
<1>8. (\E w \in Stores :
          \/ S!StoreRow(w) \/ S!StoreFails(w) \/ S!CountFailed(w)
          \/ S!CountFailedFails(w) \/ S!Bury(w) \/ S!Ack(w))
      \/ (StoreIdle /\ L' <= L + faults' - faults)
    BY StoreCases, StoreLoopStep DEF L
<1> QED
    BY <1>2, <1>3, <1>4, <1>5, <1>6, <1>7, <1>8 DEF L, M

\* The dead letters of a job are finitely many, and a burial adds one at most.
LettersOf(j) == {d \in dead : d.job = j}

LEMMA LettersFacts ==
    ASSUME NEW j
    PROVE  /\ dead \subseteq S!DeadLetter => Cardinality(LettersOf(j)) \in Nat
           /\ dead' \subseteq S!DeadLetter => Cardinality(LettersOf(j)') \in Nat
           /\ \A k, r :
                  /\ dead \subseteq S!DeadLetter
                  /\ dead' = dead \cup {[job |-> k, reason |-> r]}
                  => Cardinality(LettersOf(j)')
                         <= Cardinality(LettersOf(j)) + (IF k = j THEN 1 ELSE 0)
<1>1. S!DeadLetter = [job : Jobs, reason : SL!Reasons]
    BY DEF S!DeadLetter, S!Reasons, SL!Reasons
<1>2. ASSUME NEW D \in SUBSET S!DeadLetter
      PROVE  /\ Cardinality({d \in D : d.job = j}) \in Nat
             /\ \A k, r : Cardinality({d \in D \cup {[job |-> k, reason |-> r]} : d.job = j})
                    <= Cardinality({d \in D : d.job = j}) + (IF k = j THEN 1 ELSE 0)
  <2>1. /\ SL!Cardinality({d \in D : d.job = j}) \in Nat
        /\ \A k, r : SL!Cardinality({d \in D \cup {[job |-> k, reason |-> r]} : d.job = j})
               <= SL!Cardinality({d \in D : d.job = j}) + (IF k = j THEN 1 ELSE 0)
      BY <1>1, StageAssumptions, SL!LettersFinite, SL!LettersBury
  <2> QED
      BY <2>1, SameCardinality
<1> QED
    BY <1>2 DEF LettersOf

\* A message makes one row or dead letter, and another for each fault.
LEMMA StoreOutcomes ==
    ASSUME S!CoreInv, S!Next, NEW j \in Jobs
    PROVE  rows'[j] + Cardinality(LettersOf(j)') + SL!Live(Messages({j}), OutcomeDone)'
               <= rows[j] + Cardinality(LettersOf(j)) + SL!Live(Messages({j}), OutcomeDone)
                      + faults' - faults
<1> DEFINE M == Messages({j})
           L == SL!Live(M, OutcomeDone)
           D == Cardinality(LettersOf(j))
           Mine(w) == IF S!Msg(w).job = j THEN 1 ELSE 0
           Goal == rows'[j] + D' + L' <= rows[j] + D + L + faults' - faults
<1>0. /\ L \in Nat /\ L' \in Nat /\ faults \in Nat /\ faults' \in Nat
      /\ rows[j] \in Nat /\ dead \subseteq S!DeadLetter /\ D \in Nat /\ D' \in Nat
    BY StoreStep, StoreLive, StoreParts, LettersFacts DEF StoreOwnTypeOK
<1>1. ASSUME NEW w \in Stores, storePc[w] \in S!HandlerLabels, NEW label, StoreHands(w, label)
      PROVE  /\ storePc[w] \in OutcomeDone /\ label \in OutcomeDone => L' <= L
             /\ storePc[w] \notin OutcomeDone =>
                    L' <= L /\ (label \in OutcomeDone => L' + Mine(w) <= L)
  <2>1. L' + SL!HandsOn(w, label, M, OutcomeDone) <= L + SL!TakesBack(w, label, OutcomeDone)
      BY <1>1 DEF StoreHands
  <2>2. SL!Msg(w) \in M <=> S!Msg(w).job = j
      BY <1>1, StoreMsg DEF Messages, S!ValidMessage
  <2> QED
      BY <1>0, <2>1, <2>2 DEF SL!HandsOn, SL!TakesBack
<1>2. dead' = dead => D' = D
    BY DEF LettersOf
<1> HIDE DEF L, M, D
<1>3. ASSUME StoreIdle, L' <= L + faults' - faults PROVE Goal
  <2>1. rows'[j] = rows[j] /\ D' = D
      BY <1>2, <1>3 DEF StoreIdle
  <2> QED
      BY <1>0, <1>3, <2>1
<1>4. ASSUME NEW w \in Stores, S!StoreRow(w) PROVE Goal
  <2>1. /\ storePc[w] \in S!HandlerLabels /\ storePc[w] \notin OutcomeDone
        /\ "ack" \in OutcomeDone
        /\ S!CommitRow(w) /\ UNCHANGED <<dead, faults>>
      BY <1>4, StoreLabels DEF S!StoreRow, OutcomeDone
  <2>2. rows'[j] = rows[j] + Mine(w) /\ Mine(w) \in Nat /\ D' = D
      BY <1>2, <2>1, StoreCommits
  <2>3. L' + Mine(w) <= L
      BY <1>1, <1>4, <2>1, StoreTransactions
  <2> HIDE DEF Mine
  <2> QED
      BY <1>0, <2>1, <2>2, <2>3
<1>5. ASSUME NEW w \in Stores, S!StoreFails(w) PROVE Goal
  <2>1. /\ storePc[w] \in S!HandlerLabels /\ storePc[w] \notin OutcomeDone
        /\ S!CommitRow(w) \/ UNCHANGED <<rows, jobDone>>
        /\ dead' = dead /\ faults' = faults + 1
      BY <1>5, StoreLabels DEF S!StoreFails, S!SpendFault, OutcomeDone
  <2>2. rows'[j] <= rows[j] + 1 /\ rows'[j] \in Nat
      BY <1>0, <2>1, StoreCommits
  <2>3. L' <= L
      BY <1>1, <1>5, <2>1, StoreTransactions
  <2> QED
      BY <1>0, <1>2, <2>1, <2>2, <2>3
<1>6. ASSUME NEW w \in Stores, S!CountFailed(w) \/ S!CountFailedFails(w) PROVE Goal
  <2>1. /\ storePc[w] \in S!HandlerLabels /\ storePc[w] \notin OutcomeDone
        /\ UNCHANGED <<rows, dead>> /\ faults <= faults'
      BY <1>0, <1>6, StoreLabels DEF S!CountFailed, S!CountFailedFails, S!SpendFault, OutcomeDone
  <2>2. L' <= L
      BY <1>1, <1>6, <2>1, StoreTransactions
  <2> QED
      BY <1>0, <1>2, <2>1, <2>2
<1>7. ASSUME NEW w \in Stores, S!Bury(w) PROVE Goal
  <2>1. /\ storePc[w] \in S!HandlerLabels /\ storePc[w] \notin OutcomeDone
        /\ "ack" \in OutcomeDone
        /\ UNCHANGED <<rows, faults>>
        /\ dead' = dead \cup {[job |-> S!Msg(w).job, reason |-> "db_error"]}
      BY <1>7, StoreLabels DEF S!Bury, OutcomeDone
  <2>2. D' <= D + Mine(w) /\ Mine(w) \in Nat /\ rows'[j] = rows[j]
      BY <1>0, <2>1, LettersFacts DEF D
  <2>3. L' + Mine(w) <= L
      BY <1>1, <1>7, <2>1, StoreBuryStep
  <2> HIDE DEF Mine
  <2> QED
      BY <1>0, <2>1, <2>2, <2>3
<1>8. ASSUME NEW w \in Stores, S!Ack(w) PROVE Goal
  <2>1. /\ storePc[w] \in S!HandlerLabels /\ storePc[w] \in OutcomeDone
        /\ "publish" \in OutcomeDone
        /\ UNCHANGED <<rows, dead, faults>>
      BY <1>8, StoreLabels DEF S!Ack, S!local, OutcomeDone
  <2>2. L' <= L
      BY <1>1, <1>8, <2>1, StoreAckStep
  <2> QED
      BY <1>0, <1>2, <2>1, <2>2
<1>9. (\E w \in Stores :
          \/ S!StoreRow(w) \/ S!StoreFails(w) \/ S!CountFailed(w)
          \/ S!CountFailedFails(w) \/ S!Bury(w) \/ S!Ack(w))
      \/ (StoreIdle /\ L' <= L + faults' - faults)
    BY StoreCases, StoreLoopStep DEF L
<1>10. (\E w \in Stores :
           \/ S!StoreRow(w) \/ S!StoreFails(w) \/ S!CountFailed(w)
           \/ S!CountFailedFails(w) \/ S!Bury(w) \/ S!Ack(w)) => Goal
    BY <1>4, <1>5, <1>6, <1>7, <1>8
<1> QED
    BY <1>3, <1>9, <1>10 DEF L, M, D

\* A step of another stage: a validator adds to validated_data, a message is buried,
\* or something fails.
StoreElsewhere ==
    /\ UNCHANGED <<storePc, storeAfter, storeBatch, storeCur, rows, jobDone, jobFailed>>
    /\ \/ validatedData' = validatedData
       \/ \E msg \in S!ValidMessage : validatedData' = C!Xadd(validatedData, msg)
    /\ dead \subseteq dead' /\ dead' \subseteq S!DeadLetter
    /\ faults' \in 0 .. MaxFaults

LEMMA StoreElsewhereStep ==
    ASSUME S!CoreInv, StoreElsewhere, NEW M, NEW Spent
    PROVE  /\ S!CoreInv'
           /\ validatedData' = validatedData => SL!Live(M, Spent)' = SL!Live(M, Spent)
           /\ \A msg \in S!ValidMessage : validatedData' = C!Xadd(validatedData, msg) =>
                  SL!Live(M, Spent)' = SL!Live(M, Spent) + (IF msg \in M THEN 1 ELSE 0)
<1>0. /\ SL!LoopAssumption
      /\ SL!LoopTypeOK(S!ValidMessage, S!HandlerLabels) /\ SL!WorkInv(S!HandlerLabels)
      /\ S!EntryInv
      /\ UNCHANGED <<storePc, storeAfter, storeBatch, storeCur>>
      /\ \/ validatedData' = validatedData
         \/ \E msg \in S!ValidMessage : validatedData' = SL!Xadd(validatedData, msg)
      /\ faults' \in 0 .. MaxFaults
    BY StageAssumptions, StoreParts, SameStreams DEF StoreElsewhere
<1>1. /\ SL!LoopTypeOK(S!ValidMessage, S!HandlerLabels)' /\ SL!WorkInv(S!HandlerLabels)'
      /\ SL!Ids(validatedData) \subseteq SL!Ids(validatedData')
      /\ \A i \in SL!Ids(validatedData) : validatedData'.log[i] = validatedData.log[i]
      /\ \A i \in SL!Ids(validatedData) :
             i \in SL!Unacked(validatedData) <=> i \in SL!Unacked(validatedData')
      /\ \A i \in SL!Ids(validatedData') :
             i \in SL!Ids(validatedData) \/ i \in SL!Unacked(validatedData')
    BY <1>0, SL!ElsewhereFacts
<1>2. /\ validatedData' = validatedData => SL!Live(M, Spent)' = SL!Live(M, Spent)
      /\ \A msg \in S!ValidMessage : validatedData' = C!Xadd(validatedData, msg) =>
             SL!Live(M, Spent)' = SL!Live(M, Spent) + (IF msg \in M THEN 1 ELSE 0)
  <2>1. \A msg : SL!Xadd(validatedData, msg) = C!Xadd(validatedData, msg)
      BY SameStreams
  <2> QED
      BY <1>0, <2>1, SL!ElsewhereLive
<1>3. StoreOwnTypeOK' /\ StoreGrows
    BY <1>1, StoreParts, SameStreams DEF StoreElsewhere, StoreOwnTypeOK, StoreGrows
<1>4. S!EntryInv'
  <2>1. \A x \in Stores : storePc'[x] = "publish" =>
            storeCur'[x] \notin C!Unacked(validatedData')
    <3>1. \A x \in Stores : storePc[x] = "publish" => storeCur[x] \in C!Ids(validatedData)
        BY StoreMsg, StoreLabels
    <3> QED
        BY <1>0, <1>1, <3>1, SameStreams DEF S!EntryInv
  <2> QED
      BY <1>0, <1>1, <1>3, <2>1, SameStreams, StoreEntries
<1> QED
    BY <1>1, <1>2, <1>3, <1>4, StoreParts

-----------------------------------------------------------------------------
(* The debts of the stages: how often the jobs J can still be handed on.   *)

CrawlDebt(J) ==
    Cardinality(Unstarted(J)) + CP!Live([job : J, retry : 0 .. MaxRetries], CP!Acking)

ProcessDebt(J) == PP!Live(Messages(J), PP!Acking)

ValidateDebt(J) == VL!Live(Messages(J), V!Acking)

StoreDebt(J, Spent) == SL!Live(Messages(J), Spent)

LEMMA DebtParts ==
    ASSUME NEW J, NEW Spent
    PROVE  /\ Debt(J, Spent)
                  = CrawlDebt(J) + ProcessDebt(J) + ValidateDebt(J) + StoreDebt(J, Spent)
           /\ Debt(J, Spent)'
                  = CrawlDebt(J)' + ProcessDebt(J)' + ValidateDebt(J)' + StoreDebt(J, Spent)'
BY SameLive, SameValidatorLoop, SameStoreLoop
   DEF Debt, CrawlDebt, ProcessDebt, ValidateDebt, StoreDebt, Messages

\* The stages' names for the messages they pass on.
LEMMA SameTypes ==
    /\ CP!RawMessage = Messages(Jobs) /\ PP!RawMessage = Messages(Jobs)
    /\ V!CleanMessage = Messages(Jobs) /\ S!ValidMessage = Messages(Jobs)
    /\ CP!DeadLetter = S!DeadLetter /\ V!DeadLetter = S!DeadLetter
    /\ S!DeadLetter = [job : Jobs, reason : C!Reasons]
    /\ CP!Reasons = C!Reasons
    /\ C!Reasons = {"circuit_open", "failed", "validation_failed", "db_error"}
BY DEF CP!RawMessage, PP!RawMessage, V!CleanMessage, S!ValidMessage, Messages,
       CP!DeadLetter, V!DeadLetter, S!DeadLetter, C!Reasons, CP!Reasons, V!Reasons, S!Reasons


CrawlStep == (\E j \in Jobs : Enqueue(j)) \/ CrawlStage

LEMMA CrawlIsStep ==
    ASSUME CrawlStep
    PROVE  /\ CP!Next
           /\ UNCHANGED <<cleanData, validatedData, processVars, validateVars, storeVars>>
<1>1. CASE \E j \in Jobs : Enqueue(j)
    BY <1>1, SameCrawlSteps DEF Enqueue, CP!Next
<1>2. CASE CrawlStage
    BY <1>2, SameCrawlSteps DEF CrawlStage, CP!Next
<1> QED
    BY <1>1, <1>2 DEF CrawlStep

LEMMA ProcessIsStep ==
    ASSUME ProcessStage
    PROVE  /\ PP!StageStep
           /\ UNCHANGED <<crawlJobs, validatedData, dead, crawlVars, validateVars, storeVars>>
BY SameProcessSteps DEF ProcessStage, PP!StageStep

\* Jobs are enqueued once, and stay so.
LEMMA UnstartedFacts ==
    ASSUME NEW J, IsFiniteSet(J)
    PROVE  /\ Cardinality(Unstarted(J)) \in Nat /\ Cardinality(Unstarted(J)') \in Nat
           /\ (\A j \in J : C!Enqueued(j) => C!Enqueued(j)')
                  => Cardinality(Unstarted(J)') <= Cardinality(Unstarted(J))
           /\ \A k \in J :
                  /\ ~C!Enqueued(k) /\ C!Enqueued(k)'
                  /\ \A j \in J : C!Enqueued(j) => C!Enqueued(j)'
                  => Cardinality(Unstarted(J)') + 1 <= Cardinality(Unstarted(J))
<1>1. /\ IsFiniteSet(Unstarted(J)) /\ IsFiniteSet(Unstarted(J)')
      /\ Cardinality(Unstarted(J)) \in Nat /\ Cardinality(Unstarted(J)') \in Nat
    BY FS_Subset, FS_CardinalityType DEF Unstarted
<1>2. ASSUME \A j \in J : C!Enqueued(j) => C!Enqueued(j)'
      PROVE  Cardinality(Unstarted(J)') <= Cardinality(Unstarted(J))
  <2>1. Unstarted(J)' \subseteq Unstarted(J)
      BY <1>2 DEF Unstarted
  <2> QED
      BY <1>1, <2>1, FS_Subset
<1>3. ASSUME NEW k \in J, ~C!Enqueued(k), C!Enqueued(k)',
             \A j \in J : C!Enqueued(j) => C!Enqueued(j)'
      PROVE  Cardinality(Unstarted(J)') + 1 <= Cardinality(Unstarted(J))
  <2>1. k \in Unstarted(J) /\ Unstarted(J)' \subseteq Unstarted(J) \ {k}
      BY <1>3 DEF Unstarted
  <2>2. /\ IsFiniteSet(Unstarted(J) \ {k})
        /\ Cardinality(Unstarted(J) \ {k}) = Cardinality(Unstarted(J)) - 1
      BY <1>1, <2>1, FS_RemoveElement
  <2>3. Cardinality(Unstarted(J)') <= Cardinality(Unstarted(J) \ {k})
      BY <2>1, <2>2, FS_Subset
  <2> QED
      BY <1>1, <2>2, <2>3
<1> QED
    BY <1>1, <1>2, <1>3

\* Whether job k is one of the jobs J.
Mine(k, J) == IF k \in J THEN 1 ELSE 0

\* What a step of the crawlers, or of a producer, does to what the jobs J can still
\* become: nothing, a content in raw_data, or a dead letter.
CrawlQuiet(J) ==
    /\ UNCHANGED <<rawData, dead>>
    /\ CrawlDebt(J)' <= CrawlDebt(J) + faults' - faults

CrawlPublishes(J) ==
    /\ dead' = dead
    /\ \E msg \in Messages(Jobs) :
           /\ rawData' = C!Xadd(rawData, msg)
           /\ CrawlDebt(J)' + Mine(msg.job, J) <= CrawlDebt(J) + faults' - faults

CrawlBuries(J) ==
    /\ rawData' = rawData
    /\ \E k \in Jobs, r \in C!Reasons :
           /\ dead' = dead \cup {[job |-> k, reason |-> r]}
           /\ CrawlDebt(J)' + Mine(k, J) <= CrawlDebt(J) + faults' - faults

LEMMA CrawlStepInv ==
    ASSUME CP!CoreInv, CrawlStep
    PROVE  CP!CoreInv' /\ faults \in Nat /\ faults' \in 0 .. MaxFaults /\ faults <= faults'
<1>1. [CP!Next]_(CP!vars)
    BY CrawlIsStep
<1>2. CP!CoreInv'
    BY <1>1, StageAssumptions, CP!CoreNext
<1>3. faults <= faults'
    BY <1>1, StageAssumptions, CP!FaultsGrow
<1>4. faults \in 0 .. MaxFaults /\ faults' \in 0 .. MaxFaults
    BY <1>2 DEF CP!CoreInv, CP!TypeOK, CP!LoopTypeOK
<1> QED
    BY <1>2, <1>3, <1>4, PipelineAssumption

\* Some sums that the SMT solver does not find among larger facts.
LEMMA Sums ==
    /\ \A a, b, x, y \in Nat : x <= a /\ y <= b => x + y <= a + b
    /\ \A a, b, x, y \in Nat : x + 1 <= a /\ y = b + 1 => x + y <= a + b
    /\ \A a, x, f \in Nat : x <= a => x <= a + f - f
    /\ \A a, b \in Nat : a + b \in Nat
OBVIOUS

LEMMA CrawlFlow ==
    ASSUME CP!CoreInv, CrawlStep, NEW J \in SUBSET Jobs, IsFiniteSet(J)
    PROVE  CrawlQuiet(J) \/ CrawlPublishes(J) \/ CrawlBuries(J)
<1> DEFINE M == [job : J, retry : 0 .. MaxRetries]
           c == CP!Live(M, CP!Acking)
           u == Cardinality(Unstarted(J))
<1>0. /\ c \in Nat /\ c' \in Nat /\ u \in Nat /\ u' \in Nat
      /\ faults \in Nat /\ faults' \in Nat /\ faults <= faults'
  <2>1. CP!CoreInv' /\ faults \in Nat /\ faults' \in Nat /\ faults <= faults'
      BY CrawlStepInv, PipelineAssumption
  <2>2. c \in Nat /\ c' \in Nat
      BY <2>1, StageAssumptions, CP!LiveFacts, CP!LiveNext
  <2> QED
      BY <2>1, <2>2, UnstartedFacts
<1>1. \/ CP!Quiet(M)
      \/ \E w \in Crawlers :
             /\ crawlPc[w] \in CP!HandlerLabels
             /\ CP!Publishes(w, M) \/ CP!Buries(w, M) \/ CP!Requeues(w, M)
      \/ \E j \in Jobs : CP!Enqueues(j, M)
    BY CrawlIsStep, CrawlStepInv, StageAssumptions, CP!FlowStep
<1>2. CrawlDebt(J) = u + c /\ CrawlDebt(J)' = u' + c'
    BY DEF CrawlDebt
<1>3. ASSUME NEW w \in Crawlers, crawlPc[w] \in CP!HandlerLabels
      PROVE  /\ crawlCur[w] \in C!Ids(crawlJobs) /\ CP!Msg(w) = crawlJobs.log[crawlCur[w]]
             /\ CP!Msg(w) \in CP!Envelope
             /\ CP!Msg(w).job \in Jobs /\ CP!Msg(w).retry \in 0 .. MaxRetries
             /\ CP!One(w, M) = Mine(CP!Msg(w).job, J)
  <2>1. /\ crawlCur[w] \in CP!Ids(crawlJobs) /\ CP!Msg(w) \in CP!Envelope
        /\ CP!Msg(w).job \in Jobs /\ CP!Msg(w).retry \in 0 .. MaxRetries
      BY <1>3, StageAssumptions, CP!MsgFacts DEF CP!CoreInv
  <2> QED
      BY <2>1, SameStreams DEF CP!One, CP!Msg, Mine, CP!Envelope
<1>4. crawlJobs'.log = crawlJobs.log => u' <= u
  <2>1. crawlJobs'.log = crawlJobs.log => \A j \in J : C!Enqueued(j) => C!Enqueued(j)'
      BY DEF C!Enqueued, C!Ids
  <2> QED
      BY <2>1, UnstartedFacts
<1>5. ASSUME NEW msg \in CP!Envelope, crawlJobs' = CP!Xadd(crawlJobs, msg)
      PROVE  /\ \A j \in J : C!Enqueued(j) => C!Enqueued(j)'
             /\ C!Enqueued(msg.job)'
             /\ u' <= u
  <2>1. /\ CP!Ids(crawlJobs') = CP!Ids(crawlJobs) \cup {CP!Len(crawlJobs.log) + 1}
        /\ \A i \in CP!Ids(crawlJobs) : crawlJobs'.log[i] = crawlJobs.log[i]
        /\ crawlJobs'.log[CP!Len(crawlJobs.log) + 1] = msg
      BY <1>5, StageAssumptions, CP!XaddFacts DEF CP!CoreInv, CP!TypeOK, CP!LoopTypeOK
  <2>2. /\ \A j \in J : C!Enqueued(j) => C!Enqueued(j)'
        /\ C!Enqueued(msg.job)'
      BY <2>1, SameStreams DEF C!Enqueued
  <2> QED
      BY <2>2, UnstartedFacts
<1> HIDE DEF c, u
<1>6. CASE CP!Quiet(M)
  <2>1. /\ crawlJobs'.log = crawlJobs.log /\ UNCHANGED <<rawData, dead>>
        /\ c' <= c + faults' - faults
      BY <1>6 DEF CP!Quiet, c
  <2> QED
      BY <1>0, <1>2, <1>4, <2>1 DEF CrawlQuiet
<1>7. ASSUME NEW w \in Crawlers, crawlPc[w] \in CP!HandlerLabels, CP!Publishes(w, M)
      PROVE  CrawlPublishes(J)
  <2>1. /\ crawlJobs' = crawlJobs /\ dead' = dead
        /\ \E x \in Contents : rawData' = CP!Xadd(rawData, [job |-> CP!Msg(w).job, content |-> x])
        /\ c' + CP!One(w, M) <= c + faults' - faults
      BY <1>7 DEF CP!Publishes, c
  <2>2. PICK x \in Contents : rawData' = CP!Xadd(rawData, [job |-> CP!Msg(w).job, content |-> x])
      BY <2>1
  <2> DEFINE msg == [job |-> CP!Msg(w).job, content |-> x]
  <2>3. msg \in Messages(Jobs) /\ rawData' = C!Xadd(rawData, msg) /\ msg.job = CP!Msg(w).job
      BY <1>3, <1>7, <2>2, SameStreams DEF Messages
  <2>4. Mine(msg.job, J) \in Nat /\ c' + Mine(msg.job, J) <= c + faults' - faults
      BY <1>3, <1>7, <2>1, <2>3 DEF Mine
  <2>5. CrawlDebt(J)' + Mine(msg.job, J) <= CrawlDebt(J) + faults' - faults
      BY <1>0, <1>2, <1>4, <2>1, <2>4
  <2> QED
      BY <2>1, <2>3, <2>5 DEF CrawlPublishes
<1>8. ASSUME NEW w \in Crawlers, crawlPc[w] \in CP!HandlerLabels, CP!Buries(w, M)
      PROVE  CrawlBuries(J)
  <2>1. /\ UNCHANGED <<crawlJobs, rawData, faults>>
        /\ \E r \in C!Reasons : dead' = dead \cup {[job |-> CP!Msg(w).job, reason |-> r]}
        /\ c' + CP!One(w, M) <= c
      BY <1>8, SameTypes DEF CP!Buries, c
  <2>2. Mine(CP!Msg(w).job, J) \in Nat /\ c' + Mine(CP!Msg(w).job, J) <= c
      BY <1>3, <1>8, <2>1 DEF Mine
  <2>3. CrawlDebt(J)' + Mine(CP!Msg(w).job, J) <= CrawlDebt(J) + faults' - faults
      BY <1>0, <1>2, <1>4, <2>1, <2>2
  <2> QED
      BY <1>3, <1>8, <2>1, <2>3 DEF CrawlBuries
<1>11. ASSUME u' + c' <= u + c, UNCHANGED <<rawData, dead, faults>>
       PROVE  CrawlQuiet(J)
  <2>1. CrawlDebt(J) \in Nat /\ CrawlDebt(J)' \in Nat /\ CrawlDebt(J)' <= CrawlDebt(J)
    <3>1. u + c \in Nat /\ u' + c' \in Nat
        BY <1>0, Sums
    <3> HIDE DEF CrawlDebt
    <3> QED
        BY <1>2, <1>11, <3>1, Zenon
  <2>2. CrawlDebt(J)' <= CrawlDebt(J) + faults' - faults
      BY <1>0, <1>11, <2>1, Sums
  <2> QED
      BY <1>11, <2>2 DEF CrawlQuiet
<1>9. ASSUME NEW w \in Crawlers, crawlPc[w] \in CP!HandlerLabels, CP!Requeues(w, M)
      PROVE  CrawlQuiet(J)
  <2> DEFINE next == [job |-> CP!Msg(w).job, retry |-> CP!Msg(w).retry + 1]
  <2>1. /\ UNCHANGED <<rawData, dead, faults>> /\ CP!Msg(w).retry < MaxRetries
        /\ crawlJobs' = CP!Xadd(crawlJobs, next)
        /\ c' + CP!One(w, M) <= c + (IF next \in M THEN 1 ELSE 0)
      BY <1>9 DEF CP!Requeues, c
  <2>2. next \in CP!Envelope /\ (next \in M <=> CP!Msg(w).job \in J)
      BY <1>3, <1>9, <2>1, PipelineAssumption DEF CP!Envelope
  <2>3. c' <= c /\ u' <= u
      BY <1>0, <1>3, <1>5, <1>9, <2>1, <2>2 DEF Mine
  <2>4. UNCHANGED <<rawData, dead, faults>>
      BY <2>1
  <2> HIDE DEF next
  <2>5. u' + c' <= u + c
      BY <1>0, <2>3, Sums
  <2> QED
      BY <2>4, <2>5, <1>11
<1>10. ASSUME NEW j \in Jobs, CP!Enqueues(j, M)
       PROVE  CrawlQuiet(J)
  <2> DEFINE new == [job |-> j, retry |-> 0]
  <2>1. /\ UNCHANGED <<rawData, dead, faults>> /\ ~CP!Enqueued(j)
        /\ crawlJobs' = CP!Xadd(crawlJobs, new)
        /\ c' = c + (IF new \in M THEN 1 ELSE 0)
      BY <1>10 DEF CP!Enqueues, c
  <2>2. /\ new \in CP!Envelope /\ (new \in M <=> j \in J)
        /\ ~C!Enqueued(j)
      BY <2>1, PipelineAssumption, SameStreams DEF CP!Envelope, CP!Enqueued, C!Enqueued
  <2>3. j \in J => u' + 1 <= u
    <3>1. new.job = j
        OBVIOUS
    <3> QED
        BY <1>5, <2>1, <2>2, <3>1, UnstartedFacts DEF u
  <2>4. u' <= u
      BY <1>5, <2>1, <2>2
  <2>5. c' = c + Mine(j, J)
      BY <2>1, <2>2 DEF Mine
  <2>6. UNCHANGED <<rawData, dead, faults>>
      BY <2>1
  <2> HIDE DEF new
  <2>7. u' + c' <= u + c
    <3>1. CASE j \in J
        <4>1. u' + 1 <= u /\ c' = c + 1
            BY <2>3, <2>5, <3>1 DEF Mine
        <4> QED
            BY <1>0, <4>1, Sums
    <3>2. CASE j \notin J
        <4>1. u' <= u /\ c' <= c
            BY <1>0, <2>4, <2>5, <3>2 DEF Mine
        <4> QED
            BY <1>0, <4>1, Sums
    <3> QED
        BY <3>1, <3>2
  <2> QED
      BY <2>6, <2>7, <1>11
<1> QED
    BY <1>1, <1>6, <1>7, <1>8, <1>9, <1>10

\* What a step of the processors does to what the jobs J can still become: nothing,
\* or a content in clean_data.
ProcessQuiet(J) ==
    /\ cleanData' = cleanData
    /\ ProcessDebt(J)' <= ProcessDebt(J) + faults' - faults

ProcessForwards(J) ==
    \E msg \in Messages(Jobs) :
        /\ cleanData' = C!Xadd(cleanData, msg)
        /\ ProcessDebt(J)' + Mine(msg.job, J) <= ProcessDebt(J) + faults' - faults

LEMMA MineFacts ==
    ASSUME NEW J \in SUBSET Jobs, NEW msg \in Messages(Jobs)
    PROVE  /\ msg.job \in Jobs
           /\ (IF msg \in Messages(J) THEN 1 ELSE 0) = Mine(msg.job, J)
           /\ Mine(msg.job, J) \in Nat
BY DEF Messages, Mine

LEMMA ProcessStepInv ==
    ASSUME PP!CoreInv, ProcessStage
    PROVE  /\ PP!CoreInv' /\ rawData'.log = rawData.log
           /\ faults \in Nat /\ faults' \in 0 .. MaxFaults /\ faults <= faults'
<1>1. PP!StageStep
    BY ProcessIsStep
<1>2. PP!CoreInv'
  <2>1. [PP!Next]_(PP!vars)
      BY <1>1 DEF PP!StageStep, PP!Next
  <2> QED
      BY <2>1, StageAssumptions, PP!NextCore
<1>3. faults <= faults'
    BY <1>1, StageAssumptions, PP!FaultsGrow
<1>4. faults \in 0 .. MaxFaults /\ faults' \in 0 .. MaxFaults
    BY <1>2 DEF PP!CoreInv, PP!TypeOK, PP!LoopTypeOK
<1>5. rawData'.log = rawData.log
    BY <1>1, <1>2, StageAssumptions, PP!FlowStep DEF PP!Quiet, PP!Forwards
<1> QED
    BY <1>2, <1>3, <1>4, <1>5, PipelineAssumption

LEMMA ProcessFlow ==
    ASSUME PP!CoreInv, ProcessStage, NEW J \in SUBSET Jobs
    PROVE  ProcessQuiet(J) \/ ProcessForwards(J)
<1> DEFINE M == Messages(J)
           c == PP!Live(M, PP!Acking)
<1>0. /\ PP!StageStep /\ PP!CoreInv'
      /\ c \in Nat /\ c' \in Nat /\ faults \in Nat /\ faults' \in Nat
  <2>1. PP!StageStep /\ PP!CoreInv'
      BY ProcessIsStep, ProcessStepInv
  <2> QED
      BY <2>1, StageAssumptions, PP!LiveFacts
<1>1. PP!Quiet(M) \/ \E w \in Processors : processPc[w] \in PP!HandlerLabels /\ PP!Forwards(w, M)
    BY <1>0, StageAssumptions, PP!FlowStep
<1>2. ASSUME PP!Quiet(M) PROVE ProcessQuiet(J)
    BY <1>2 DEF PP!Quiet, ProcessQuiet, ProcessDebt
<1>3. ASSUME NEW w \in Processors, processPc[w] \in PP!HandlerLabels, PP!Forwards(w, M)
      PROVE  ProcessForwards(J)
  <2> DEFINE msg == PP!Msg(w)
  <2>1. msg \in Messages(Jobs)
      BY <1>3, StageAssumptions, PP!MsgFacts, SameTypes DEF PP!CoreInv
  <2>2. /\ cleanData' = C!Xadd(cleanData, msg) /\ faults' = faults
        /\ c' + Mine(msg.job, J) <= c
      BY <1>3, <2>1, MineFacts, SameStreams DEF PP!Forwards
  <2> HIDE DEF c, msg
  <2>3. c' + Mine(msg.job, J) <= c + faults' - faults
    <3>1. c' + Mine(msg.job, J) \in Nat
        BY <1>0, <2>1, MineFacts, Sums
    <3> QED
        BY <1>0, <2>2, <3>1, Sums
  <2>4. ProcessDebt(J)' + Mine(msg.job, J) <= ProcessDebt(J) + faults' - faults
      BY <2>3 DEF c, ProcessDebt
  <2> QED
      BY <2>1, <2>2, <2>4 DEF ProcessForwards
<1> QED
    BY <1>1, <1>2, <1>3

\* The validators and the store workers do not forget faults either.
LEMMA LaterFaults ==
    /\ V!CoreInv /\ V!Next => faults <= faults'
    /\ S!CoreInv /\ S!Next => faults <= faults'
<1>1. V!CoreInv \/ S!CoreInv => faults \in Nat
    BY ValidatorLive, StoreLive
<1>2. V!Next => faults' = faults \/ faults' = faults + 1
    BY DEF V!Next, V!Loop, V!LoopStep, V!Claim, V!Read, V!Handler, V!Accept, V!Reject, V!Ack,
        V!AckAndFinish, V!Fault, V!Abort, V!LoseBatch, V!ClaimFails, V!ClaimError,
        V!SpendFault, V!Clock, V!ClockStep, V!OrphanGoesIdle, V!HeldGoesIdle, V!loopVars
<1>3. S!Next => faults' = faults \/ faults' = faults + 1
    BY DEF S!Next, S!Loop, S!LoopStep, S!Claim, S!Read, S!Handler, S!StoreRow, S!CountFailed,
        S!Bury, S!Ack, S!PublishProgress, S!Fault, S!Abort, S!LoseBatch, S!ClaimFails,
        S!ClaimError, S!StoreFails, S!CountFailedFails, S!SpendFault, S!Clock, S!ClockStep,
        S!OrphanGoesIdle, S!HeldGoesIdle, S!loopVars
<1> QED
    BY <1>1, <1>2, <1>3

-----------------------------------------------------------------------------
(* A step of one stage leaves the other stages as they were, but for the   *)
(* streams they share, the dead letters and the faults.                    *)

PipeCore == CP!CoreInv /\ PP!CoreInv /\ V!CoreInv /\ S!CoreInv

\* What the core invariants say of the variables that the stages share.
LEMMA SharedTypes ==
    ASSUME PipeCore
    PROVE  /\ rawData \in C!StreamOf(Messages(Jobs))
           /\ cleanData \in C!StreamOf(Messages(Jobs))
           /\ validatedData \in C!StreamOf(Messages(Jobs))
           /\ dead \subseteq S!DeadLetter
           /\ faults \in 0 .. MaxFaults
<1>1. /\ rawData \in CP!StreamOf(CP!RawMessage) /\ faults \in 0 .. MaxFaults
      /\ dead \subseteq CP!DeadLetter
    BY DEF PipeCore, CP!CoreInv, CP!TypeOK, CP!LoopTypeOK
<1>2. cleanData \in PP!StreamOf(PP!RawMessage)
    BY DEF PipeCore, PP!CoreInv, PP!TypeOK
<1>3. validatedData \in V!StreamOf(V!CleanMessage)
    BY DEF PipeCore, V!CoreInv, V!TypeOK
<1> QED
    BY <1>1, <1>2, <1>3, SameStreams, SameTypes

LEMMA SharedTypesNext ==
    /\ PP!CoreInv' => /\ rawData' \in C!StreamOf(Messages(Jobs))
                      /\ cleanData' \in C!StreamOf(Messages(Jobs))
    /\ V!CoreInv' => /\ cleanData' \in C!StreamOf(Messages(Jobs))
                     /\ validatedData' \in C!StreamOf(Messages(Jobs))
                     /\ faults' \in 0 .. MaxFaults
    /\ S!CoreInv' => /\ validatedData' \in C!StreamOf(Messages(Jobs))
                     /\ faults' \in 0 .. MaxFaults
<1>1. PP!CoreInv' => /\ rawData' \in PP!StreamOf(PP!RawMessage)
                     /\ cleanData' \in PP!StreamOf(PP!RawMessage)
    BY DEF PP!CoreInv, PP!TypeOK, PP!LoopTypeOK
<1>2. V!CoreInv' => /\ cleanData' \in V!StreamOf(V!CleanMessage)
                    /\ validatedData' \in V!StreamOf(V!CleanMessage)
                    /\ faults' \in 0 .. MaxFaults
    BY DEF V!CoreInv, V!TypeOK, V!LoopTypeOK
<1>3. S!CoreInv' => /\ validatedData' \in SL!StreamOf(S!ValidMessage)
                    /\ faults' \in 0 .. MaxFaults
    BY StoreParts DEF SL!LoopTypeOK
<1> QED
    BY <1>1, <1>2, <1>3, SameStreams, SameTypes

\* The debts are numbers.
LEMMA DebtTypes ==
    ASSUME PipeCore, PipeCore', NEW J \in SUBSET Jobs, IsFiniteSet(J), NEW Spent
    PROVE  /\ CrawlDebt(J) \in Nat /\ CrawlDebt(J)' \in Nat
           /\ ProcessDebt(J) \in Nat /\ ProcessDebt(J)' \in Nat
           /\ ValidateDebt(J) \in Nat /\ ValidateDebt(J)' \in Nat
           /\ StoreDebt(J, Spent) \in Nat /\ StoreDebt(J, Spent)' \in Nat
           /\ faults \in Nat /\ faults' \in Nat
<1> USE DEF PipeCore
<1> DEFINE M == [job : J, retry : 0 .. MaxRetries]
<1>1. CrawlDebt(J) \in Nat /\ CrawlDebt(J)' \in Nat
  <2>1. CP!Live(M, CP!Acking) \in Nat /\ CP!Live(M, CP!Acking)' \in Nat
      BY StageAssumptions, CP!LiveFacts, CP!LiveNext
  <2> QED
      BY <2>1, UnstartedFacts, Sums DEF CrawlDebt
<1>2. ProcessDebt(J) \in Nat /\ ProcessDebt(J)' \in Nat
    BY StageAssumptions, PP!LiveFacts DEF ProcessDebt
<1>3. ValidateDebt(J) \in Nat /\ ValidateDebt(J)' \in Nat /\ faults \in Nat /\ faults' \in Nat
    BY ValidatorLive DEF ValidateDebt
<1>4. StoreDebt(J, Spent) \in Nat /\ StoreDebt(J, Spent)' \in Nat
    BY StoreLive DEF StoreDebt
<1> QED
    BY <1>1, <1>2, <1>3, <1>4

\* What a step upstream of the store does to what the jobs J can still become: one of
\* them may have been buried, and each fault may hand one of them on again.
Flow(J, Spent) ==
    \/ /\ dead' = dead
       /\ Debt(J, Spent)' <= Debt(J, Spent) + faults' - faults
    \/ \E k \in Jobs, r \in C!Reasons :
           /\ dead' = dead \cup {[job |-> k, reason |-> r]}
           /\ Debt(J, Spent)' + Mine(k, J) <= Debt(J, Spent) + faults' - faults

\* The sums that make up Flow: a message leaves one stage, for the next one or for
\* dead_letters.
LEMMA FlowSums ==
    \A a, b, c, d, x, y, z, t, m, f, g \in Nat :
        /\ x + m <= a + g - f /\ y = b /\ z = c /\ t = d
               => x + y + z + t + m <= a + b + c + d + g - f
        /\ z + m <= c + g - f /\ x = a /\ y = b /\ t = d
               => x + y + z + t + m <= a + b + c + d + g - f
        /\ x <= a + g - f /\ y = b /\ z = c /\ t = d
               => x + y + z + t <= a + b + c + d + g - f
        /\ y <= b + g - f /\ x = a /\ z = c /\ t = d
               => x + y + z + t <= a + b + c + d + g - f
        /\ z <= c + g - f /\ x = a /\ y = b /\ t = d
               => x + y + z + t <= a + b + c + d + g - f
        /\ x + m <= a + g - f /\ y = b + m /\ z = c /\ t = d
               => x + y + z + t <= a + b + c + d + g - f
        /\ y + m <= b + g - f /\ x = a /\ z = c + m /\ t = d
               => x + y + z + t <= a + b + c + d + g - f
        /\ z + m <= c + g - f /\ x = a /\ y = b /\ t = d + m
               => x + y + z + t <= a + b + c + d + g - f
OBVIOUS

\* A step of the crawlers, seen from the other stages.
LEMMA CrawlSeen ==
    ASSUME PipeCore, CrawlStep
    PROVE  PipeCore' /\ PP!Elsewhere /\ ValidatorElsewhere /\ StoreElsewhere
<1>1. /\ CP!CoreInv' /\ faults' \in 0 .. MaxFaults /\ faults <= faults'
      /\ UNCHANGED <<cleanData, validatedData, processVars, validateVars, storeVars>>
    BY CrawlStepInv, CrawlIsStep DEF PipeCore
<1>2. /\ rawData' = rawData \/ \E msg \in Messages(Jobs) : rawData' = C!Xadd(rawData, msg)
      /\ dead' = dead \/ \E k \in Jobs, r \in C!Reasons : dead' = dead \cup {[job |-> k, reason |-> r]}
  <2>1. IsFiniteSet({}) /\ {} \in SUBSET Jobs
      BY FS_EmptySet
  <2>2. CrawlQuiet({}) \/ CrawlPublishes({}) \/ CrawlBuries({})
      BY <2>1, CrawlFlow DEF PipeCore
  <2> QED
      BY <2>2 DEF CrawlQuiet, CrawlPublishes, CrawlBuries
<1>3. dead \subseteq dead' /\ dead' \subseteq S!DeadLetter
    BY <1>2, SharedTypes, SameTypes
<1>4. PP!Elsewhere
    BY <1>1, <1>2, SharedTypes, SameStreams, SameTypes DEF PP!Elsewhere, processVars
<1>5. ValidatorElsewhere
    BY <1>1, <1>3, SharedTypes, SameTypes DEF ValidatorElsewhere, validateVars
<1>6. StoreElsewhere
    BY <1>1, <1>3, SameTypes DEF StoreElsewhere, storeVars
<1> QED
    BY <1>1, <1>4, <1>5, <1>6, StageAssumptions, PP!ElsewhereStep, ValidatorElsewhereStep,
       StoreElsewhereStep DEF PipeCore

LEMMA CrawlComposes ==
    ASSUME PipeCore, CrawlStep, NEW J \in SUBSET Jobs, IsFiniteSet(J), NEW Spent
    PROVE  Flow(J, Spent)
<1>1. PipeCore' /\ PP!Elsewhere /\ ValidatorElsewhere /\ StoreElsewhere
    BY CrawlSeen
<1>2. CrawlQuiet(J) \/ CrawlPublishes(J) \/ CrawlBuries(J)
    BY CrawlFlow DEF PipeCore
<1>3. /\ ValidateDebt(J)' = ValidateDebt(J) /\ StoreDebt(J, Spent)' = StoreDebt(J, Spent)
      /\ cleanData' = cleanData /\ validatedData' = validatedData
  <2>1. cleanData' = cleanData /\ validatedData' = validatedData
      BY CrawlIsStep
  <2> QED
      BY <1>1, <2>1, ValidatorElsewhereStep, StoreElsewhereStep
      DEF PipeCore, ValidateDebt, StoreDebt
<1>4. /\ rawData' = rawData => ProcessDebt(J)' = ProcessDebt(J)
      /\ \A msg \in Messages(Jobs) : rawData' = C!Xadd(rawData, msg) =>
             ProcessDebt(J)' = ProcessDebt(J) + Mine(msg.job, J)
  <2>1. /\ rawData' = rawData => ProcessDebt(J)' = ProcessDebt(J)
        /\ \A msg \in PP!RawMessage : rawData' = PP!Xadd(rawData, msg) =>
               ProcessDebt(J)' = ProcessDebt(J) + (IF msg \in Messages(J) THEN 1 ELSE 0)
      BY <1>1, StageAssumptions, PP!ElsewhereFlow DEF PipeCore, ProcessDebt
  <2> QED
      BY <2>1, SameStreams, SameTypes, MineFacts
<1> DEFINE D == CrawlDebt(J) + ProcessDebt(J) + ValidateDebt(J) + StoreDebt(J, Spent)
<1>5. CASE CrawlQuiet(J)
  <2>1. dead' = dead /\ ProcessDebt(J)' = ProcessDebt(J)
      BY <1>4, <1>5 DEF CrawlQuiet
  <2>2. CrawlDebt(J)' <= CrawlDebt(J) + faults' - faults
      BY <1>5 DEF CrawlQuiet
  <2>3. D' <= D + faults' - faults
      BY <1>1, <1>3, <2>1, <2>2, DebtTypes, FlowSums
  <2> QED
      BY <2>1, <2>3, DebtParts DEF Flow
<1>6. CASE CrawlPublishes(J)
  <2>1. PICK msg \in Messages(Jobs) :
            /\ rawData' = C!Xadd(rawData, msg)
            /\ CrawlDebt(J)' + Mine(msg.job, J) <= CrawlDebt(J) + faults' - faults
      BY <1>6 DEF CrawlPublishes
  <2>2. ProcessDebt(J)' = ProcessDebt(J) + Mine(msg.job, J) /\ Mine(msg.job, J) \in Nat
      BY <1>4, <2>1, MineFacts
  <2>3. D' <= D + faults' - faults
      BY <1>1, <1>3, <2>1, <2>2, DebtTypes, FlowSums
  <2> QED
      BY <1>6, <2>3, DebtParts DEF Flow, CrawlPublishes
<1>7. CASE CrawlBuries(J)
  <2>1. PICK k \in Jobs, r \in C!Reasons :
            /\ dead' = dead \cup {[job |-> k, reason |-> r]}
            /\ CrawlDebt(J)' + Mine(k, J) <= CrawlDebt(J) + faults' - faults
      BY <1>7 DEF CrawlBuries
  <2>2. ProcessDebt(J)' = ProcessDebt(J) /\ Mine(k, J) \in Nat
      BY <1>4, <1>7 DEF CrawlBuries, Mine
  <2>3. D' + Mine(k, J) <= D + faults' - faults
      BY <1>1, <1>3, <2>1, <2>2, DebtTypes, FlowSums
  <2> QED
      BY <2>1, <2>3, DebtParts DEF Flow
<1> QED
    BY <1>2, <1>5, <1>6, <1>7

\* The crawlers' debt, seen from the other stages.
LEMMA CrawlUntouched ==
    ASSUME CP!CoreInv, CP!Elsewhere, NEW J
    PROVE  CP!CoreInv' /\ CrawlDebt(J)' = CrawlDebt(J)
<1>1. CP!CoreInv' /\ \A M : CP!Live(M, CP!Acking)' = CP!Live(M, CP!Acking)
    BY StageAssumptions, CP!ElsewhereStep
<1>2. Unstarted(J)' = Unstarted(J)
    BY DEF CP!Elsewhere, Unstarted, C!Enqueued, C!Ids
<1> QED
    BY <1>1, <1>2 DEF CrawlDebt

\* A step of the processors, seen from the other stages.
LEMMA ProcessSeen ==
    ASSUME PipeCore, ProcessStage
    PROVE  /\ PipeCore' /\ CP!Elsewhere /\ ValidatorElsewhere /\ StoreElsewhere
           /\ UNCHANGED <<dead, validatedData, storeVars>>
<1>1. /\ PP!CoreInv' /\ rawData'.log = rawData.log
      /\ faults' \in 0 .. MaxFaults /\ faults <= faults'
      /\ UNCHANGED <<crawlJobs, validatedData, dead, crawlVars, validateVars, storeVars>>
    BY ProcessStepInv, ProcessIsStep DEF PipeCore
<1>2. cleanData' = cleanData \/ \E msg \in Messages(Jobs) : cleanData' = C!Xadd(cleanData, msg)
    BY ProcessFlow DEF PipeCore, ProcessQuiet, ProcessForwards
<1>3. CP!Elsewhere
    BY <1>1, SharedTypes, SharedTypesNext, SameStreams, SameTypes DEF CP!Elsewhere, crawlVars
<1>4. ValidatorElsewhere
    BY <1>1, <1>2, SharedTypes, SameTypes DEF ValidatorElsewhere, validateVars
<1>5. StoreElsewhere
    BY <1>1, SharedTypes DEF StoreElsewhere, storeVars
<1> QED
    BY <1>1, <1>3, <1>4, <1>5, CrawlUntouched, ValidatorElsewhereStep, StoreElsewhereStep
    DEF PipeCore

LEMMA ProcessComposes ==
    ASSUME PipeCore, ProcessStage, NEW J \in SUBSET Jobs, IsFiniteSet(J), NEW Spent
    PROVE  Flow(J, Spent)
<1>1. /\ PipeCore' /\ CP!Elsewhere /\ ValidatorElsewhere /\ StoreElsewhere
      /\ dead' = dead /\ validatedData' = validatedData
    BY ProcessSeen
<1>2. CrawlDebt(J)' = CrawlDebt(J) /\ StoreDebt(J, Spent)' = StoreDebt(J, Spent)
    BY <1>1, CrawlUntouched, StoreElsewhereStep DEF PipeCore, StoreDebt
<1>3. /\ cleanData' = cleanData => ValidateDebt(J)' = ValidateDebt(J)
      /\ \A msg \in Messages(Jobs) : cleanData' = C!Xadd(cleanData, msg) =>
             ValidateDebt(J)' = ValidateDebt(J) + Mine(msg.job, J)
  <2>1. /\ cleanData' = cleanData => ValidateDebt(J)' = ValidateDebt(J)
        /\ \A msg \in V!CleanMessage : cleanData' = C!Xadd(cleanData, msg) =>
               ValidateDebt(J)' = ValidateDebt(J) + (IF msg \in Messages(J) THEN 1 ELSE 0)
      BY <1>1, ValidatorElsewhereStep DEF PipeCore, ValidateDebt
  <2> QED
      BY <2>1, SameTypes, MineFacts
<1> DEFINE D == CrawlDebt(J) + ProcessDebt(J) + ValidateDebt(J) + StoreDebt(J, Spent)
<1>4. D' <= D + faults' - faults
  <2>1. CASE ProcessQuiet(J)
    <3>1. ValidateDebt(J)' = ValidateDebt(J) /\ ProcessDebt(J)' <= ProcessDebt(J) + faults' - faults
        BY <1>3, <2>1 DEF ProcessQuiet
    <3> QED
        BY <1>1, <1>2, <3>1, DebtTypes, FlowSums
  <2>2. CASE ProcessForwards(J)
    <3>1. PICK msg \in Messages(Jobs) :
              /\ cleanData' = C!Xadd(cleanData, msg)
              /\ ProcessDebt(J)' + Mine(msg.job, J) <= ProcessDebt(J) + faults' - faults
        BY <2>2 DEF ProcessForwards
    <3>2. ValidateDebt(J)' = ValidateDebt(J) + Mine(msg.job, J) /\ Mine(msg.job, J) \in Nat
        BY <1>3, <3>1, MineFacts
    <3> QED
        BY <1>1, <1>2, <3>1, <3>2, DebtTypes, FlowSums
  <2> QED
      BY <2>1, <2>2, ProcessFlow DEF PipeCore
<1> QED
    BY <1>1, <1>4, DebtParts DEF Flow

\* A step of the validators, seen from the other stages.
LEMMA ValidateSeen ==
    ASSUME PipeCore, ValidateStage
    PROVE  /\ PipeCore' /\ CP!Elsewhere /\ PP!Elsewhere /\ StoreElsewhere
           /\ UNCHANGED <<rawData, storeVars>>
<1>1. /\ V!CoreInv' /\ V!Next /\ faults <= faults'
      /\ UNCHANGED <<crawlJobs, rawData, crawlVars, processVars, storeVars>>
    BY ValidatorStep, LaterFaults DEF PipeCore, ValidateStage
<1>2. /\ cleanData'.log = cleanData.log
      /\ \/ validatedData' = validatedData
         \/ \E msg \in Messages(Jobs) : validatedData' = C!Xadd(validatedData, msg)
      /\ \/ dead' = dead
         \/ \E k \in Jobs : dead' = dead \cup {[job |-> k, reason |-> "validation_failed"]}
  <2>1. ValidatorQuiet({}) \/ \E msg \in Messages(Jobs) : ValidatorHands(msg, {})
      BY <1>1, ValidatorStep, SameTypes DEF PipeCore
  <2>2. \A msg \in Messages(Jobs) : msg.job \in Jobs
      BY DEF Messages
  <2> QED
      BY <2>1, <2>2 DEF ValidatorQuiet, ValidatorHands
<1>3. /\ dead \subseteq dead' /\ dead' \subseteq S!DeadLetter
      /\ \A j \in Jobs :
             [job |-> j, reason |-> "failed"] \in dead' => [job |-> j, reason |-> "failed"] \in dead
  <2>1. "validation_failed" \in C!Reasons
      BY SameTypes
  <2> QED
      BY <1>2, <2>1, SharedTypes, SameTypes
<1>4. CP!Elsewhere
    BY <1>1, <1>3, SharedTypes, SharedTypesNext, SameStreams, SameTypes DEF CP!Elsewhere, crawlVars
<1>5. PP!Elsewhere
    BY <1>1, <1>2, SharedTypesNext, SameStreams, SameTypes DEF PP!Elsewhere, processVars
<1>6. StoreElsewhere
    BY <1>1, <1>2, <1>3, SharedTypesNext, SameTypes DEF StoreElsewhere, storeVars
<1> QED
    BY <1>1, <1>4, <1>5, <1>6, StageAssumptions, CrawlUntouched, PP!ElsewhereStep,
       StoreElsewhereStep DEF PipeCore

LEMMA ValidateComposes ==
    ASSUME PipeCore, ValidateStage, NEW J \in SUBSET Jobs, IsFiniteSet(J), NEW Spent
    PROVE  Flow(J, Spent)
<1>1. PipeCore' /\ CP!Elsewhere /\ PP!Elsewhere /\ StoreElsewhere /\ rawData' = rawData
    BY ValidateSeen
<1>2. CrawlDebt(J)' = CrawlDebt(J) /\ ProcessDebt(J)' = ProcessDebt(J)
    BY <1>1, CrawlUntouched, StageAssumptions, PP!ElsewhereFlow DEF PipeCore, ProcessDebt
<1>3. /\ validatedData' = validatedData => StoreDebt(J, Spent)' = StoreDebt(J, Spent)
      /\ \A msg \in Messages(Jobs) : validatedData' = C!Xadd(validatedData, msg) =>
             StoreDebt(J, Spent)' = StoreDebt(J, Spent) + Mine(msg.job, J)
  <2>1. /\ validatedData' = validatedData => StoreDebt(J, Spent)' = StoreDebt(J, Spent)
        /\ \A msg \in S!ValidMessage : validatedData' = C!Xadd(validatedData, msg) =>
               StoreDebt(J, Spent)' = StoreDebt(J, Spent) + (IF msg \in Messages(J) THEN 1 ELSE 0)
      BY <1>1, StoreElsewhereStep DEF PipeCore, StoreDebt
  <2> QED
      BY <2>1, SameTypes, MineFacts
<1> DEFINE D == CrawlDebt(J) + ProcessDebt(J) + ValidateDebt(J) + StoreDebt(J, Spent)
<1>4. CASE ValidatorQuiet(Messages(J))
  <2>1. /\ dead' = dead /\ StoreDebt(J, Spent)' = StoreDebt(J, Spent)
        /\ ValidateDebt(J)' <= ValidateDebt(J) + faults' - faults
      BY <1>3, <1>4 DEF ValidatorQuiet, ValidateDebt
  <2>2. D' <= D + faults' - faults
      BY <1>1, <1>2, <2>1, DebtTypes, FlowSums
  <2> QED
      BY <2>1, <2>2, DebtParts DEF Flow
<1>5. ASSUME NEW msg \in Messages(Jobs), ValidatorHands(msg, Messages(J))
      PROVE  Flow(J, Spent)
  <2>1. /\ Mine(msg.job, J) \in Nat /\ msg.job \in Jobs
        /\ ValidateDebt(J)' + Mine(msg.job, J) <= ValidateDebt(J) + faults' - faults
    <3>1. /\ Mine(msg.job, J) \in Nat /\ msg.job \in Jobs
          /\ ValidateDebt(J)' + Mine(msg.job, J) <= ValidateDebt(J) /\ faults' = faults
        BY <1>5, MineFacts DEF ValidatorHands, ValidateDebt
    <3>2. /\ ValidateDebt(J)' + Mine(msg.job, J) \in Nat
          /\ ValidateDebt(J) \in Nat /\ faults \in Nat
        BY <1>1, <3>1, DebtTypes, Sums
    <3> QED
        BY <3>1, <3>2, Sums
  <2>2. CASE validatedData' = C!Xadd(validatedData, msg) /\ dead' = dead
    <3>1. StoreDebt(J, Spent)' = StoreDebt(J, Spent) + Mine(msg.job, J)
        BY <1>3, <2>2
    <3>2. D' <= D + faults' - faults
        BY <1>1, <1>2, <2>1, <3>1, DebtTypes, FlowSums
    <3> QED
        BY <2>2, <3>2, DebtParts DEF Flow
  <2>3. CASE /\ validatedData' = validatedData
             /\ dead' = dead \cup {[job |-> msg.job, reason |-> "validation_failed"]}
    <3>1. StoreDebt(J, Spent)' = StoreDebt(J, Spent)
        BY <1>3, <2>3
    <3>2. D' + Mine(msg.job, J) <= D + faults' - faults
        BY <1>1, <1>2, <2>1, <3>1, DebtTypes, FlowSums
    <3>3. "validation_failed" \in C!Reasons
        BY SameTypes
    <3> QED
        BY <2>1, <2>3, <3>2, <3>3, DebtParts DEF Flow
  <2> QED
      BY <1>5, <2>2, <2>3 DEF ValidatorHands
<1> QED
    BY <1>4, <1>5, ValidatorStep, SameTypes DEF PipeCore, ValidateStage

\* A step of the store workers, seen from the other stages.
LEMMA StoreSeen ==
    ASSUME PipeCore, StoreStage
    PROVE  /\ PipeCore' /\ CP!Elsewhere /\ PP!Elsewhere /\ ValidatorElsewhere /\ S!Next
           /\ UNCHANGED <<rawData, cleanData>>
<1>1. /\ S!CoreInv' /\ S!Next /\ faults <= faults' /\ validatedData'.log = validatedData.log
      /\ UNCHANGED <<crawlJobs, rawData, cleanData, crawlVars, processVars, validateVars>>
    BY StoreStep, LaterFaults DEF PipeCore, StoreStage
<1>2. dead' = dead \/ \E k \in Jobs : dead' = dead \cup {[job |-> k, reason |-> "db_error"]}
  <2>1. ASSUME NEW w \in Stores, S!Bury(w)
        PROVE  \E k \in Jobs : dead' = dead \cup {[job |-> k, reason |-> "db_error"]}
    <3>1. S!Msg(w).job \in Jobs
        BY <2>1, StoreMsg, StoreLabels DEF PipeCore, S!Bury
    <3> QED
        BY <2>1, <3>1 DEF S!Bury
  <2>2. ASSUME NEW w \in Stores,
               \/ S!StoreRow(w) \/ S!StoreFails(w) \/ S!CountFailed(w)
               \/ S!CountFailedFails(w) \/ S!Ack(w)
        PROVE  dead' = dead
      BY <2>2 DEF S!StoreRow, S!StoreFails, S!CountFailed, S!CountFailedFails, S!Ack, S!local
  <2> QED
      BY <1>1, <2>1, <2>2, StoreCases DEF StoreIdle
<1>3. /\ dead \subseteq dead' /\ dead' \subseteq S!DeadLetter
      /\ \A j \in Jobs :
             [job |-> j, reason |-> "failed"] \in dead' => [job |-> j, reason |-> "failed"] \in dead
  <2>1. "db_error" \in C!Reasons
      BY SameTypes
  <2> QED
      BY <1>2, <2>1, SharedTypes, SameTypes
<1>4. CP!Elsewhere
    BY <1>1, <1>3, SharedTypes, SharedTypesNext, SameStreams, SameTypes DEF CP!Elsewhere, crawlVars
<1>5. PP!Elsewhere
    BY <1>1, SharedTypes, SharedTypesNext, SameStreams, SameTypes DEF PP!Elsewhere, processVars
<1>6. ValidatorElsewhere
    BY <1>1, <1>3, SharedTypesNext, SameTypes DEF ValidatorElsewhere, validateVars
<1> QED
    BY <1>1, <1>4, <1>5, <1>6, StageAssumptions, CrawlUntouched, PP!ElsewhereStep,
       ValidatorElsewhereStep DEF PipeCore

\* The debts of the stages upstream stay as they are.
LEMMA StoreComposes ==
    ASSUME PipeCore, StoreStage, NEW J
    PROVE  /\ CrawlDebt(J)' = CrawlDebt(J)
           /\ ProcessDebt(J)' = ProcessDebt(J)
           /\ ValidateDebt(J)' = ValidateDebt(J)
<1>1. /\ CP!Elsewhere /\ PP!Elsewhere /\ ValidatorElsewhere
      /\ rawData' = rawData /\ cleanData' = cleanData
    BY StoreSeen
<1> QED
    BY <1>1, CrawlUntouched, StageAssumptions, PP!ElsewhereFlow, ValidatorElsewhereStep
    DEF PipeCore, ProcessDebt, ValidateDebt

-----------------------------------------------------------------------------
(* The inductive invariant.                                                *)

LEMMA InvCases == /\ IndInv <=> PipeCore /\ CountInv /\ OutcomeInv
                  /\ (IndInv <=> PipeCore /\ CountInv /\ OutcomeInv)'
BY SameCrawler, SameProcessor DEF IndInv, PipeCore

LEMMA CoreInit == Init => PipeCore
<1> SUFFICES ASSUME Init PROVE PipeCore
    OBVIOUS
<1>1. CP!CoreInv
  <2>1. CP!Init
      BY DEF Init, C!Init, CP!Init, C!LoopInit, CP!LoopInit, C!EmptyStream, CP!EmptyStream
  <2> QED
      BY <2>1, StageAssumptions, CP!CoreInit
<1>2. PP!CoreInv
  <2>1. PP!Init
      BY DEF Init, P!Init, PP!Init, P!LoopInit, PP!LoopInit, P!EmptyStream, PP!EmptyStream
  <2> QED
      BY <2>1, StageAssumptions, PP!InitCore
<1>3. V!CoreInv
  <2>1. /\ cleanData = VL!EmptyStream /\ validatedData = VL!EmptyStream
        /\ dead = {} /\ faults = 0
        /\ validatePc = [w \in Validators |-> "claim"]
        /\ validateAfter = [w \in Validators |-> "claim"]
        /\ validateBatch = [w \in Validators |-> {}]
        /\ validateCur = [w \in Validators |-> 0]
      BY DEF Init, V!Init, V!LoopInit, V!EmptyStream, VL!EmptyStream
  <2>2. /\ cleanData \in VL!StreamOf(V!CleanMessage)
        /\ validatedData \in VL!StreamOf(V!CleanMessage)
        /\ VL!Ids(cleanData) = {} /\ cleanData.last = 0 /\ faults \in 0 .. MaxFaults
      BY <2>1, StageAssumptions, VL!EmptyStreamFacts, PipelineAssumption
  <2>3. VL!LoopTypeOK(V!CleanMessage, V!HandlerLabels) /\ ValidatorOwnTypeOK
      BY <2>1, <2>2, SameStreams DEF VL!LoopTypeOK, ValidatorOwnTypeOK
  <2>4. VL!WorkInv(V!HandlerLabels) /\ V!EntryInv
      BY <2>1, <2>2, SameStreams, ValidatorLabels DEF VL!WorkInv, V!EntryInv, V!HandlerLabels
  <2> QED
      BY <2>3, <2>4, ValidatorParts
<1>4. S!CoreInv
  <2>1. /\ validatedData = SL!EmptyStream
        /\ dead = {} /\ faults = 0
        /\ rows = [j \in Jobs |-> 0]
        /\ jobDone = [m \in Missions |-> 0] /\ jobFailed = [m \in Missions |-> 0]
        /\ storePc = [w \in Stores |-> "claim"]
        /\ storeAfter = [w \in Stores |-> "claim"]
        /\ storeBatch = [w \in Stores |-> {}]
        /\ storeCur = [w \in Stores |-> 0]
      BY DEF Init, S!Init, S!LoopInit, S!EmptyStream, SL!EmptyStream
  <2>2. /\ validatedData \in SL!StreamOf(S!ValidMessage)
        /\ SL!Ids(validatedData) = {} /\ validatedData.last = 0 /\ faults \in 0 .. MaxFaults
      BY <2>1, StageAssumptions, SL!EmptyStreamFacts, PipelineAssumption
  <2>3. SL!LoopTypeOK(S!ValidMessage, S!HandlerLabels) /\ StoreOwnTypeOK
      BY <2>1, <2>2 DEF SL!LoopTypeOK, StoreOwnTypeOK
  <2>4. SL!WorkInv(S!HandlerLabels) /\ S!EntryInv
      BY <2>1, <2>2, SameStreams DEF SL!WorkInv, S!EntryInv, S!HandlerLabels
  <2> QED
      BY <2>3, <2>4, StoreParts
<1> QED
    BY <1>1, <1>2, <1>3, <1>4 DEF PipeCore

\* Before anything is enqueued, the debt of the jobs J is their number.
LEMMA DebtInit ==
    ASSUME Init, NEW J, IsFiniteSet(J), NEW Spent
    PROVE  Debt(J, Spent) = Cardinality(J)
<1>1. /\ crawlJobs = CP!EmptyStream /\ rawData = PP!EmptyStream
      /\ cleanData = VL!EmptyStream /\ validatedData = SL!EmptyStream
    BY DEF Init, C!Init, P!Init, V!Init, S!Init, C!LoopInit, P!LoopInit, V!LoopInit, S!LoopInit,
        C!EmptyStream, P!EmptyStream, V!EmptyStream, S!EmptyStream,
        CP!EmptyStream, PP!EmptyStream, VL!EmptyStream, SL!EmptyStream
<1>2. Unstarted(J) = J
  <2>1. C!Ids(crawlJobs) = {}
      BY <1>1, StageAssumptions, CP!EmptyStreamFacts, SameStreams
  <2> QED
      BY <2>1 DEF Unstarted, C!Enqueued
<1>3. /\ CP!Live([job : J, retry : 0 .. MaxRetries], CP!Acking) = 0
      /\ ProcessDebt(J) = 0 /\ ValidateDebt(J) = 0 /\ StoreDebt(J, Spent) = 0
    BY <1>1, StageAssumptions, CP!EmptyLive, PP!EmptyLive, VL!EmptyLive, SL!EmptyLive
    DEF ProcessDebt, ValidateDebt, StoreDebt
<1>4. Cardinality(J) \in Nat
    BY FS_CardinalityType
<1>5. CrawlDebt(J) = Cardinality(J)
    BY <1>2, <1>3, <1>4 DEF CrawlDebt
<1> QED
    BY <1>3, <1>4, <1>5, DebtParts

LEMMA InitInv == Init => IndInv
<1> SUFFICES ASSUME Init PROVE IndInv
    OBVIOUS
<1>1. /\ rows = [j \in Jobs |-> 0] /\ dead = {} /\ faults = 0
      /\ jobDone = [m \in Missions |-> 0] /\ jobFailed = [m \in Missions |-> 0]
    BY DEF Init, S!Init
<1>2. CountInv
  <2> SUFFICES ASSUME NEW m \in Missions
               PROVE  Counted(m) + Debt(JobsOf(m), CountDone) <= Cardinality(JobsOf(m)) + faults
      BY DEF CountInv, CountDone
  <2>1. IsFiniteSet(JobsOf(m))
      BY PipelineAssumption DEF JobsOf
  <2>2. Cardinality(JobsOf(m)) \in Nat /\ Debt(JobsOf(m), CountDone) = Cardinality(JobsOf(m))
      BY <2>1, FS_CardinalityType, DebtInit
  <2>3. Counted(m) = 0
      BY <1>1 DEF Counted
  <2> QED
      BY <1>1, <2>2, <2>3
<1>3. OutcomeInv
  <2> SUFFICES ASSUME NEW j \in Jobs
               PROVE  rows[j] + Cardinality({d \in dead : d.job = j}) + Debt({j}, OutcomeDone)
                          <= 1 + faults
      BY DEF OutcomeInv, OutcomeDone
  <2>1. IsFiniteSet({j}) /\ Cardinality({j}) = 1
      BY FS_Singleton
  <2>2. Debt({j}, OutcomeDone) = 1
      BY <2>1, DebtInit
  <2>3. Cardinality({d \in dead : d.job = j}) = 0
    <3>1. {d \in dead : d.job = j} = {}
        BY <1>1
    <3> QED
        BY <3>1, FS_EmptySet
  <2> QED
      BY <1>1, <2>2, <2>3
<1> QED
    BY <1>2, <1>3, CoreInit, InvCases

\* What a step of each stage does.
UpstreamStep == CrawlStep \/ ProcessStage \/ ValidateStage

LEMMA CoreNext ==
    ASSUME PipeCore, Next
    PROVE  /\ PipeCore'
           /\ \/ UpstreamStep /\ UNCHANGED <<rows, jobDone, jobFailed>>
              \/ StoreStage
<1>1. CASE CrawlStep
    BY <1>1, CrawlSeen, CrawlIsStep DEF UpstreamStep, storeVars
<1>2. CASE ProcessStage
    BY <1>2, ProcessSeen DEF UpstreamStep, storeVars
<1>3. CASE ValidateStage
    BY <1>3, ValidateSeen DEF UpstreamStep, storeVars
<1>4. CASE StoreStage
    BY <1>4, StoreSeen
<1> QED
    BY <1>1, <1>2, <1>3, <1>4 DEF Next, CrawlStep

LEMMA UpstreamFlow ==
    ASSUME PipeCore, UpstreamStep, NEW J \in SUBSET Jobs, IsFiniteSet(J), NEW Spent
    PROVE  Flow(J, Spent)
BY CrawlComposes, ProcessComposes, ValidateComposes DEF UpstreamStep

\* A debt and its parts are numbers, and so are the counts that it bounds.
LEMMA DebtNat ==
    ASSUME PipeCore, PipeCore', NEW J \in SUBSET Jobs, IsFiniteSet(J), NEW Spent
    PROVE  Debt(J, Spent) \in Nat /\ Debt(J, Spent)' \in Nat
<1> DEFINE D == CrawlDebt(J) + ProcessDebt(J) + ValidateDebt(J) + StoreDebt(J, Spent)
<1>1. D \in Nat /\ D' \in Nat
    BY DebtTypes, Sums
<1> QED
    BY <1>1, DebtParts

LEMMA CountTypes ==
    ASSUME PipeCore, PipeCore'
    PROVE  /\ \A m \in Missions : Counted(m) \in Nat /\ Counted(m)' \in Nat
           /\ \A j \in Jobs : /\ rows[j] + Cardinality(LettersOf(j)) \in Nat
                              /\ rows'[j] + Cardinality(LettersOf(j))' \in Nat
           /\ faults \in Nat /\ faults' \in Nat
<1>1. /\ \A m \in Missions : /\ jobDone[m] \in Nat /\ jobFailed[m] \in Nat
                             /\ jobDone'[m] \in Nat /\ jobFailed'[m] \in Nat
      /\ \A j \in Jobs : rows[j] \in Nat /\ rows'[j] \in Nat
      /\ dead \subseteq S!DeadLetter /\ dead' \subseteq S!DeadLetter
    BY StoreParts DEF PipeCore, StoreOwnTypeOK
<1>2. ASSUME NEW m \in Missions PROVE Counted(m) \in Nat /\ Counted(m)' \in Nat
    BY <1>1, Sums DEF Counted
<1>3. ASSUME NEW j \in Jobs
      PROVE  /\ rows[j] + Cardinality(LettersOf(j)) \in Nat
             /\ rows'[j] + Cardinality(LettersOf(j))' \in Nat
  <2>1. Cardinality(LettersOf(j)) \in Nat /\ Cardinality(LettersOf(j))' \in Nat
      BY <1>1, LettersFacts
  <2> QED
      BY <1>1, <2>1, Sums
<1>4. faults \in Nat /\ faults' \in Nat
    BY StoreLive DEF PipeCore
<1> QED
    BY <1>2, <1>3, <1>4

\* The sums of the invariants: n is what came of the jobs, d their debt.
LEMMA InvSums ==
    /\ \A n, d, e, k, f, g \in Nat :
           n + d <= k + f /\ e <= d + g - f => n + e <= k + g
    /\ \A n, x, d, e, k, f, g, m \in Nat :
           n + d <= k + f /\ e + m <= d + g - f /\ x <= n + m => x + e <= k + g
    /\ \A n, x, a, b, c, s, t, k, f, g \in Nat :
           n + (a + b + c + s) <= k + f /\ x + t <= n + s + g - f
               => x + (a + b + c + t) <= k + g
    /\ \A n, d, k, f \in Nat : n + d <= k + f => n <= k + f
OBVIOUS

LEMMA CountNext ==
    ASSUME PipeCore, CountInv, Next
    PROVE  CountInv'
<1> SUFFICES ASSUME NEW m \in Missions
             PROVE  Counted(m)' + Debt(JobsOf(m), CountDone)' <= Cardinality(JobsOf(m)) + faults'
    BY DEF CountInv, CountDone, JobsOf
<1> DEFINE J == JobsOf(m)
<1>1. /\ PipeCore' /\ J \in SUBSET Jobs /\ IsFiniteSet(J) /\ Cardinality(J) \in Nat
      /\ Counted(m) + Debt(J, CountDone) <= Cardinality(J) + faults
    BY CoreNext, PipelineAssumption, FS_CardinalityType DEF JobsOf, CountInv, CountDone
<1>2. /\ Debt(J, CountDone) \in Nat /\ Debt(J, CountDone)' \in Nat
      /\ Counted(m) \in Nat /\ Counted(m)' \in Nat /\ faults \in Nat /\ faults' \in Nat
    BY <1>1, DebtNat, CountTypes
<1> HIDE DEF J
<1>3. CASE UpstreamStep /\ UNCHANGED <<rows, jobDone, jobFailed>>
  <2>1. Counted(m)' = Counted(m)
      BY <1>3 DEF Counted
  <2>2. Debt(J, CountDone)' <= Debt(J, CountDone) + faults' - faults
    <3>1. Flow(J, CountDone)
        BY <1>1, <1>3, UpstreamFlow
    <3>2. ASSUME NEW k \in Jobs,
                 Debt(J, CountDone)' + Mine(k, J) <= Debt(J, CountDone) + faults' - faults
          PROVE  Debt(J, CountDone)' <= Debt(J, CountDone) + faults' - faults
      <4>1. Mine(k, J) \in Nat
          BY DEF Mine
      <4> QED
          BY <1>2, <3>2, <4>1, InvSums
    <3> QED
        BY <3>1, <3>2 DEF Flow
  <2> QED
      BY <1>1, <1>2, <2>1, <2>2, InvSums DEF J
<1>4. CASE StoreStage
  <2>1. /\ CrawlDebt(J)' = CrawlDebt(J) /\ ProcessDebt(J)' = ProcessDebt(J)
        /\ ValidateDebt(J)' = ValidateDebt(J)
      BY <1>4, StoreComposes
  <2>2. Counted(m)' + StoreDebt(J, CountDone)'
            <= Counted(m) + StoreDebt(J, CountDone) + faults' - faults
      BY <1>4, StoreCounts DEF PipeCore, StoreStage, StoreDebt, J
  <2>3. /\ CrawlDebt(J) \in Nat /\ ProcessDebt(J) \in Nat /\ ValidateDebt(J) \in Nat
        /\ StoreDebt(J, CountDone) \in Nat /\ StoreDebt(J, CountDone)' \in Nat
      BY <1>1, DebtTypes
  <2>4. Counted(m)' + Debt(J, CountDone)' <= Cardinality(J) + faults'
    <3>1. /\ Debt(J, CountDone) = CrawlDebt(J) + ProcessDebt(J) + ValidateDebt(J)
                                     + StoreDebt(J, CountDone)
          /\ Debt(J, CountDone)' = CrawlDebt(J) + ProcessDebt(J) + ValidateDebt(J)
                                     + StoreDebt(J, CountDone)'
        BY <2>1, DebtParts
    <3> QED
        BY <1>1, <1>2, <2>2, <2>3, <3>1, InvSums
  <2> QED
      BY <2>4 DEF J
<1> QED
    BY <1>3, <1>4, CoreNext

LEMMA OutcomeNext ==
    ASSUME PipeCore, OutcomeInv, Next
    PROVE  OutcomeInv'
<1> SUFFICES ASSUME NEW j \in Jobs
             PROVE  rows'[j] + Cardinality(LettersOf(j))' + Debt({j}, OutcomeDone)' <= 1 + faults'
    BY DEF OutcomeInv, OutcomeDone, LettersOf
<1> DEFINE J == {j}
           n == rows[j] + Cardinality(LettersOf(j))
<1>1. /\ PipeCore' /\ J \in SUBSET Jobs /\ IsFiniteSet(J)
      /\ n + Debt(J, OutcomeDone) <= 1 + faults
    BY CoreNext, FS_Singleton DEF OutcomeInv, OutcomeDone, LettersOf
<1>2. /\ Debt(J, OutcomeDone) \in Nat /\ Debt(J, OutcomeDone)' \in Nat
      /\ n \in Nat /\ n' \in Nat /\ faults \in Nat /\ faults' \in Nat
    BY <1>1, DebtNat, CountTypes
<1> HIDE DEF J
<1>3. CASE UpstreamStep /\ UNCHANGED <<rows, jobDone, jobFailed>>
  <2>1. CASE /\ dead' = dead
             /\ Debt(J, OutcomeDone)' <= Debt(J, OutcomeDone) + faults' - faults
    <3>1. n' = n
        BY <1>3, <2>1 DEF LettersOf
    <3> HIDE DEF n
    <3>2. n' + Debt(J, OutcomeDone)' <= 1 + faults'
        BY <1>1, <1>2, <2>1, <3>1, InvSums
    <3> QED
        BY <3>2 DEF n, J
  <2>2. ASSUME NEW k \in Jobs, NEW r \in C!Reasons,
               dead' = dead \cup {[job |-> k, reason |-> r]},
               Debt(J, OutcomeDone)' + Mine(k, J) <= Debt(J, OutcomeDone) + faults' - faults
        PROVE  n' + Debt(J, OutcomeDone)' <= 1 + faults'
    <3>1. Mine(k, J) \in Nat /\ Mine(k, J) = IF k = j THEN 1 ELSE 0
        BY DEF Mine, J
    <3>2. dead \subseteq S!DeadLetter /\ dead' \subseteq S!DeadLetter /\ rows[j] \in Nat
        BY <1>1, StoreParts DEF PipeCore, StoreOwnTypeOK
    <3>3. Cardinality(LettersOf(j))' <= Cardinality(LettersOf(j)) + Mine(k, J)
        BY <2>2, <3>1, <3>2, LettersFacts
    <3>4. n' <= n + Mine(k, J)
      <4>1. Cardinality(LettersOf(j)) \in Nat /\ Cardinality(LettersOf(j))' \in Nat
          BY <3>2, LettersFacts
      <4>2. rows'[j] = rows[j]
          BY <1>3
      <4> QED
          BY <3>1, <3>2, <3>3, <4>1, <4>2
    <3> HIDE DEF n
    <3> QED
        BY <1>1, <1>2, <2>2, <3>1, <3>4, InvSums
  <2> QED
      BY <1>1, <1>3, <2>1, <2>2, UpstreamFlow DEF Flow, J
<1>4. CASE StoreStage
  <2>1. /\ CrawlDebt(J)' = CrawlDebt(J) /\ ProcessDebt(J)' = ProcessDebt(J)
        /\ ValidateDebt(J)' = ValidateDebt(J)
      BY <1>4, StoreComposes
  <2>2. n' + StoreDebt(J, OutcomeDone)' <= n + StoreDebt(J, OutcomeDone) + faults' - faults
      BY <1>4, StoreOutcomes DEF PipeCore, StoreStage, StoreDebt, J
  <2>3. /\ CrawlDebt(J) \in Nat /\ ProcessDebt(J) \in Nat /\ ValidateDebt(J) \in Nat
        /\ StoreDebt(J, OutcomeDone) \in Nat /\ StoreDebt(J, OutcomeDone)' \in Nat
      BY <1>1, DebtTypes
  <2>4. /\ Debt(J, OutcomeDone) = CrawlDebt(J) + ProcessDebt(J) + ValidateDebt(J)
                                     + StoreDebt(J, OutcomeDone)
        /\ Debt(J, OutcomeDone)' = CrawlDebt(J) + ProcessDebt(J) + ValidateDebt(J)
                                     + StoreDebt(J, OutcomeDone)'
      BY <2>1, DebtParts
  <2> HIDE DEF n
  <2>5. n' + Debt(J, OutcomeDone)' <= 1 + faults'
      BY <1>1, <1>2, <2>2, <2>3, <2>4, InvSums
  <2> QED
      BY <2>5 DEF n, J
<1> QED
    BY <1>3, <1>4, CoreNext

LEMMA NextInv == IndInv /\ [Next]_vars => IndInv'
<1> SUFFICES ASSUME IndInv, [Next]_vars PROVE IndInv'
    OBVIOUS
<1>1. CASE Next
    BY <1>1, InvCases, CoreNext, CountNext, OutcomeNext
<1>2. CASE UNCHANGED vars
  <2>1. /\ CP!vars' = CP!vars /\ PP!vars' = PP!vars
        /\ UNCHANGED <<cleanData, validatedData, dead, faults, validateVars, storeVars>>
      BY <1>2 DEF vars, crawlVars, processVars, validateVars, storeVars, CP!vars, CP!loopVars,
          PP!vars, PP!loopVars, PP!local
  <2>2. CP!CoreInv'
      BY <2>1, InvCases, StageAssumptions, CP!CoreNext DEF PipeCore
  <2>3. PP!CoreInv'
      BY <2>1, InvCases, StageAssumptions, PP!NextCore DEF PipeCore
  <2>4. V!CoreInv'
    <3>1. V!CoreInv /\ ValidatorElsewhere
        BY <2>1, InvCases, SharedTypes, SameTypes DEF PipeCore, ValidatorElsewhere, validateVars
    <3> QED
        BY <3>1, ValidatorElsewhereStep
  <2>5. S!CoreInv'
    <3>1. S!CoreInv /\ StoreElsewhere
        BY <2>1, InvCases, SharedTypes DEF PipeCore, StoreElsewhere, storeVars
    <3> QED
        BY <3>1, StoreElsewhereStep
  <2>6. /\ \A J, Spent : Debt(J, Spent)' = Debt(J, Spent)
        /\ UNCHANGED <<rows, jobDone, jobFailed, dead, faults>>
      BY <1>2 DEF vars, crawlVars, processVars, validateVars, storeVars, Debt, Unstarted,
          C!Enqueued, C!Ids, C!Live, C!Waiting, C!InHand, C!Held,
          P!Live, P!Waiting, P!InHand, P!Held, P!Ids, V!Live, V!Waiting, V!InHand, V!Held,
          V!Ids, S!Live, S!Waiting, S!InHand, S!Held, S!Ids
  <2>7. CountInv' /\ OutcomeInv'
      BY <2>6 DEF IndInv, CountInv, OutcomeInv, Counted, JobsOf
  <2> QED
      BY <2>2, <2>3, <2>4, <2>5, <2>7, InvCases DEF PipeCore
<1> QED
    BY <1>1, <1>2

\* The debt and the counts of one state.
LEMMA DebtNow ==
    ASSUME PipeCore, NEW J \in SUBSET Jobs, IsFiniteSet(J), NEW Spent
    PROVE  Debt(J, Spent) \in Nat
<1>1. Cardinality(Unstarted(J)) \in Nat
    BY UnstartedFacts
<1>2. CP!Live([job : J, retry : 0 .. MaxRetries], CP!Acking) \in Nat
    BY StageAssumptions, CP!LiveFacts DEF PipeCore
<1>3. CrawlDebt(J) \in Nat
    BY <1>1, <1>2, Sums DEF CrawlDebt
<1>4. ProcessDebt(J) \in Nat
  <2>1. rawData \in PP!StreamOf(PP!RawMessage)
      BY DEF PipeCore, PP!CoreInv, PP!TypeOK, PP!LoopTypeOK
  <2> QED
      BY <2>1, StageAssumptions, PP!LiveFinite DEF ProcessDebt
<1>5. ValidateDebt(J) \in Nat /\ StoreDebt(J, Spent) \in Nat
    BY ValidatorLive, StoreLive DEF PipeCore, ValidateDebt, StoreDebt
<1>6. CrawlDebt(J) + ProcessDebt(J) + ValidateDebt(J) + StoreDebt(J, Spent) \in Nat
    BY <1>3, <1>4, <1>5, Sums
<1> QED
    BY <1>6, DebtParts

LEMMA SameFinite ==
    ASSUME NEW A
    PROVE  /\ CP!IsFiniteSet(A) <=> IsFiniteSet(A)
           /\ PP!IsFiniteSet(A) <=> IsFiniteSet(A)
           /\ VL!IsFiniteSet(A) <=> IsFiniteSet(A)
           /\ SL!IsFiniteSet(A) <=> IsFiniteSet(A)
BY DEF CP!IsFiniteSet, PP!IsFiniteSet, VL!IsFiniteSet, SL!IsFiniteSet, IsFiniteSet

LEMMA UnionOfTwo ==
    ASSUME NEW A, NEW B, IsFiniteSet(A), IsFiniteSet(B),
           NEW a \in Nat, NEW b \in Nat, Cardinality(A) <= a, Cardinality(B) <= b
    PROVE  IsFiniteSet(A \cup B) /\ Cardinality(A \cup B) <= a + b
<1>1. /\ IsFiniteSet(A \cup B)
      /\ Cardinality(A \cup B) = Cardinality(A) + Cardinality(B) - Cardinality(A \cap B)
    BY FS_Union
<1>2. Cardinality(A) \in Nat /\ Cardinality(B) \in Nat /\ Cardinality(A \cap B) \in Nat
    BY FS_CardinalityType, FS_Intersection
<1> QED
    BY <1>1, <1>2

\* The jobs with messages that each stage can still hand on.
CrawlJobs(J) == CP!LiveJobs([job : J, retry : 0 .. MaxRetries], CP!Acking)

ProcessJobs(J) == PP!LiveJobs(Messages(J), PP!Acking)

ValidateJobs(J) == VL!LiveJobs(Messages(J), V!Acking)

StoreJobs(J, Spent) == SL!LiveJobs(Messages(J), Spent)

\* They are no more than the stage's part of the debt.
LEMMA OwedParts ==
    ASSUME PipeCore, NEW J \in SUBSET Jobs, IsFiniteSet(J), NEW Spent
    PROVE  /\ IsFiniteSet(Unstarted(J) \cup CrawlJobs(J))
           /\ Cardinality(Unstarted(J) \cup CrawlJobs(J)) <= CrawlDebt(J)
           /\ IsFiniteSet(ProcessJobs(J)) /\ Cardinality(ProcessJobs(J)) <= ProcessDebt(J)
           /\ IsFiniteSet(ValidateJobs(J)) /\ Cardinality(ValidateJobs(J)) <= ValidateDebt(J)
           /\ IsFiniteSet(StoreJobs(J, Spent))
           /\ Cardinality(StoreJobs(J, Spent)) <= StoreDebt(J, Spent)
           /\ CrawlDebt(J) \in Nat /\ ProcessDebt(J) \in Nat
           /\ ValidateDebt(J) \in Nat /\ StoreDebt(J, Spent) \in Nat
<1>1. /\ IsFiniteSet(Unstarted(J) \cup CrawlJobs(J))
      /\ Cardinality(Unstarted(J) \cup CrawlJobs(J)) <= CrawlDebt(J)
      /\ CrawlDebt(J) \in Nat
  <2>1. crawlJobs \in CP!StreamOf(CP!Envelope)
      BY DEF PipeCore, CP!CoreInv, CP!TypeOK, CP!LoopTypeOK
  <2>2. /\ CP!IsFiniteSet(CrawlJobs(J))
        /\ CP!Cardinality(CrawlJobs(J))
               <= CP!Live([job : J, retry : 0 .. MaxRetries], CP!Acking)
      BY <2>1, StageAssumptions, CP!LiveJobsBound DEF CrawlJobs
  <2>3. /\ IsFiniteSet(CrawlJobs(J))
        /\ Cardinality(CrawlJobs(J))
               <= CP!Live([job : J, retry : 0 .. MaxRetries], CP!Acking)
      BY <2>2, SameFinite, SameCardinality
  <2>4. CP!Live([job : J, retry : 0 .. MaxRetries], CP!Acking) \in Nat
      BY StageAssumptions, CP!LiveFacts DEF PipeCore
  <2>5. /\ IsFiniteSet(Unstarted(J)) /\ Cardinality(Unstarted(J)) \in Nat
        /\ Cardinality(Unstarted(J)) <= Cardinality(Unstarted(J))
      BY UnstartedFacts, FS_Subset DEF Unstarted
  <2> QED
      BY <2>3, <2>4, <2>5, UnionOfTwo, Sums DEF CrawlDebt
<1>2. /\ IsFiniteSet(ProcessJobs(J)) /\ Cardinality(ProcessJobs(J)) <= ProcessDebt(J)
      /\ ProcessDebt(J) \in Nat
  <2>1. rawData \in PP!StreamOf(PP!RawMessage)
      BY DEF PipeCore, PP!CoreInv, PP!TypeOK, PP!LoopTypeOK
  <2>2. PP!IsFiniteSet(ProcessJobs(J)) /\ PP!Cardinality(ProcessJobs(J)) <= ProcessDebt(J)
      BY <2>1, StageAssumptions, PP!LiveJobsBound DEF ProcessJobs, ProcessDebt
  <2> QED
      BY <2>1, <2>2, SameFinite, SameCardinality, StageAssumptions, PP!LiveFinite
         DEF ProcessDebt
<1>3. /\ IsFiniteSet(ValidateJobs(J)) /\ Cardinality(ValidateJobs(J)) <= ValidateDebt(J)
      /\ ValidateDebt(J) \in Nat
  <2>1. cleanData \in VL!StreamOf(V!CleanMessage)
      BY ValidatorParts DEF PipeCore, VL!LoopTypeOK
  <2>2. VL!IsFiniteSet(ValidateJobs(J)) /\ VL!Cardinality(ValidateJobs(J)) <= ValidateDebt(J)
      BY <2>1, StageAssumptions, VL!LiveJobsBound DEF ValidateJobs, ValidateDebt
  <2> QED
      BY <2>2, SameFinite, SameCardinality, ValidatorLive DEF PipeCore, ValidateDebt
<1>4. /\ IsFiniteSet(StoreJobs(J, Spent))
      /\ Cardinality(StoreJobs(J, Spent)) <= StoreDebt(J, Spent)
      /\ StoreDebt(J, Spent) \in Nat
  <2>1. validatedData \in SL!StreamOf(S!ValidMessage)
      BY StoreParts DEF PipeCore, SL!LoopTypeOK
  <2>2. /\ SL!IsFiniteSet(StoreJobs(J, Spent))
        /\ SL!Cardinality(StoreJobs(J, Spent)) <= StoreDebt(J, Spent)
      BY <2>1, StageAssumptions, SL!LiveJobsBound DEF StoreJobs, StoreDebt
  <2> QED
      BY <2>2, SameFinite, SameCardinality, StoreLive DEF PipeCore, StoreDebt
<1> QED
    BY <1>1, <1>2, <1>3, <1>4

\* A job with a debt is one of them.
LEMMA OwedPlace ==
    ASSUME PipeCore, NEW J \in SUBSET Jobs, NEW j \in J, NEW Spent, Debt({j}, Spent) > 0
    PROVE  \/ j \in Unstarted(J) \cup CrawlJobs(J)
           \/ j \in ProcessJobs(J)
           \/ j \in ValidateJobs(J)
           \/ j \in StoreJobs(J, Spent)
<1> DEFINE envelopes == [job : {j}, retry : 0 .. MaxRetries]
<1>1. CrawlDebt({j}) # 0 \/ ProcessDebt({j}) # 0 \/ ValidateDebt({j}) # 0
      \/ StoreDebt({j}, Spent) # 0
    BY DebtParts
<1>2. /\ Messages({j}) \in SUBSET Messages(J) /\ \A msg \in Messages({j}) : msg.job = j
      /\ envelopes \in SUBSET [job : J, retry : 0 .. MaxRetries]
      /\ \A msg \in envelopes : msg.job = j
    BY DEF Messages
<1>3. CASE CrawlDebt({j}) # 0
  <2>1. CASE Unstarted({j}) = {}
    <3>1. Cardinality(Unstarted({j})) = 0
        BY <2>1, FS_EmptySet
    <3>2. CP!Live(envelopes, CP!Acking) # 0
        BY <1>3, <3>1 DEF CrawlDebt
    <3> QED
        BY <1>2, <3>2, StageAssumptions, CP!LiveJobsHave DEF CrawlJobs
  <2>2. CASE Unstarted({j}) # {}
      BY <2>2 DEF Unstarted
  <2> QED
      BY <2>1, <2>2
<1>4. CASE ProcessDebt({j}) # 0
    BY <1>2, <1>4, StageAssumptions, PP!LiveJobsHave DEF ProcessDebt, ProcessJobs
<1>5. CASE ValidateDebt({j}) # 0
    BY <1>2, <1>5, StageAssumptions, VL!LiveJobsHave DEF ValidateDebt, ValidateJobs
<1>6. CASE StoreDebt({j}, Spent) # 0
    BY <1>2, <1>6, StageAssumptions, SL!LiveJobsHave DEF StoreDebt, StoreJobs
<1> QED
    BY <1>1, <1>3, <1>4, <1>5, <1>6

\* The jobs of J with a debt are no more than the debt of J.
LEMMA OwedBound ==
    ASSUME PipeCore, NEW J \in SUBSET Jobs, IsFiniteSet(J), NEW Spent
    PROVE  /\ Cardinality({j \in J : Debt({j}, Spent) > 0}) \in Nat
           /\ Cardinality({j \in J : Debt({j}, Spent) > 0}) <= Debt(J, Spent)
<1> DEFINE O == {j \in J : Debt({j}, Spent) > 0}
           A == Unstarted(J) \cup CrawlJobs(J)
           B == ProcessJobs(J)
           C1 == ValidateJobs(J)
           D == StoreJobs(J, Spent)
           a == CrawlDebt(J)
           b == ProcessDebt(J)
           c == ValidateDebt(J)
           d == StoreDebt(J, Spent)
<1>1. O \subseteq A \cup B \cup C1 \cup D
    BY OwedPlace
<1>2. /\ IsFiniteSet(A) /\ IsFiniteSet(B) /\ IsFiniteSet(C1) /\ IsFiniteSet(D)
      /\ Cardinality(A) <= a /\ Cardinality(B) <= b
      /\ Cardinality(C1) <= c /\ Cardinality(D) <= d
      /\ a \in Nat /\ b \in Nat /\ c \in Nat /\ d \in Nat
    BY OwedParts
<1>3. Debt(J, Spent) = a + b + c + d
    BY DebtParts
<1>4. IsFiniteSet(O)
    BY FS_Subset
<1> HIDE DEF O, A, B, C1, D, a, b, c, d
<1>5. a + b \in Nat /\ a + b + c \in Nat /\ a + b + c + d \in Nat
    BY <1>2
<1>6. IsFiniteSet(A \cup B) /\ Cardinality(A \cup B) <= a + b
    BY <1>2, UnionOfTwo
<1>7. IsFiniteSet(A \cup B \cup C1) /\ Cardinality(A \cup B \cup C1) <= a + b + c
    BY <1>2, <1>5, <1>6, UnionOfTwo
<1>8. /\ IsFiniteSet(A \cup B \cup C1 \cup D)
      /\ Cardinality(A \cup B \cup C1 \cup D) <= a + b + c + d
    BY <1>2, <1>5, <1>7, UnionOfTwo
<1>9. /\ Cardinality(O) \in Nat /\ Cardinality(A \cup B \cup C1 \cup D) \in Nat
      /\ Cardinality(O) <= Cardinality(A \cup B \cup C1 \cup D)
    BY <1>1, <1>4, <1>8, FS_Subset, FS_CardinalityType
<1>10. Cardinality(O) <= a + b + c + d
    BY <1>5, <1>8, <1>9
<1> QED
    BY <1>3, <1>9, <1>10 DEF O

LEMMA CountNow ==
    ASSUME PipeCore
    PROVE  /\ \A m \in Missions : Counted(m) \in Nat
           /\ \A j \in Jobs : rows[j] + Cardinality(LettersOf(j)) \in Nat
           /\ faults \in Nat
<1>1. /\ \A m \in Missions : jobDone[m] \in Nat /\ jobFailed[m] \in Nat
      /\ \A j \in Jobs : rows[j] \in Nat
      /\ dead \subseteq S!DeadLetter /\ faults \in Nat
    BY StoreParts, StoreLive DEF PipeCore, StoreOwnTypeOK
<1>2. \A j \in Jobs : Cardinality(LettersOf(j)) \in Nat
    BY <1>1, LettersFacts
<1>3. \A m \in Missions : Counted(m) \in Nat
    BY <1>1, Sums DEF Counted
<1> QED
    BY <1>1, <1>2, <1>3, Sums

-----------------------------------------------------------------------------
(* The theorems.                                                           *)

\* The stages' invariants hold together, and what came of the jobs, plus what can
\* still come of them, stays within their number plus one for each fault.
THEOREM Invariance == Spec => []IndInv
BY InitInv, NextInv, PTL DEF Spec

LEMMA PipeTypes == IndInv => TypeOK
BY DEF IndInv, TypeOK, C!CoreInv, P!CoreInv, V!CoreInv, S!CoreInv

\* The variables of every stage keep their types.
THEOREM TypeCorrect == Spec => []TypeOK
BY Invariance, PipeTypes, PTL

LEMMA CountBound == IndInv => OvercountBoundedByFaults
<1> SUFFICES ASSUME IndInv, NEW m \in Missions
             PROVE  Counted(m) + Cardinality({j \in JobsOf(m) : Owed(j)})
                        <= Cardinality(JobsOf(m)) + faults
    BY DEF OvercountBoundedByFaults
<1> DEFINE J == JobsOf(m)
           owed == {j \in J : Owed(j)}
<1>1. /\ PipeCore /\ J \in SUBSET Jobs /\ IsFiniteSet(J) /\ Cardinality(J) \in Nat
      /\ Counted(m) + Debt(J, CountDone) <= Cardinality(J) + faults
    BY InvCases, PipelineAssumption, FS_CardinalityType DEF JobsOf, CountInv, CountDone
<1>2. Debt(J, CountDone) \in Nat /\ Counted(m) \in Nat /\ faults \in Nat
    BY <1>1, DebtNow, CountNow
<1>3. owed = {j \in J : Debt({j}, CountDone) > 0}
    BY DEF Owed, CountDone
<1> HIDE DEF J, owed
<1>4. Cardinality(owed) \in Nat /\ Cardinality(owed) <= Debt(J, CountDone)
    BY <1>1, <1>3, OwedBound
<1>5. Counted(m) + Cardinality(owed) <= Cardinality(J) + faults
    BY <1>1, <1>2, <1>4
<1> QED
    BY <1>5 DEF J, owed

\* job_done and job_failed of a mission, together with its jobs that are still under
\* way, exceed its jobs by at most the number of faults: without faults no crash,
\* redelivery or retry counts a job twice, and a mission whose counters have reached
\* its total has no job left to count.
THEOREM OvercountBounded == Spec => []OvercountBoundedByFaults
BY Invariance, CountBound, PTL

LEMMA OutcomeBound == IndInv => OneOutcomeWithoutFaults
<1> SUFFICES ASSUME IndInv, faults = 0, NEW j \in Jobs
             PROVE  rows[j] + Cardinality(LettersOf(j)) <= 1
    BY DEF OneOutcomeWithoutFaults, LettersOf
<1> DEFINE J == {j}
           n == rows[j] + Cardinality(LettersOf(j))
<1>1. /\ PipeCore /\ J \in SUBSET Jobs /\ IsFiniteSet(J)
      /\ n + Debt(J, OutcomeDone) <= 1 + faults
  <2>1. PipeCore /\ OutcomeInv
      BY InvCases
  <2> QED
      BY <2>1, FS_Singleton DEF OutcomeInv, OutcomeDone, LettersOf
<1>2. Debt(J, OutcomeDone) \in Nat /\ n \in Nat
    BY <1>1, DebtNow, CountNow
<1> HIDE DEF n, J
<1>3. n <= 1 + faults
    BY <1>1, <1>2, InvSums
<1> QED
    BY <1>3 DEF n

\* Without faults a job ends in one row or in one dead letter, however the stages
\* interleave and whatever expires.
THEOREM OneOutcome == Spec => []OneOutcomeWithoutFaults
BY Invariance, OutcomeBound, PTL

\* What was forwarded is open at the validators or the store workers, stored or dead.
LEMMA ForwardedAccounted ==
    ASSUME PipeCore, NEW k \in C!Ids(cleanData)
    PROVE  LET j == cleanData.log[k].job
           IN  j \in Jobs /\ (InFlight(j) \/ Dead(j) \/ rows[j] > 0)
<1> DEFINE j == cleanData.log[k].job
<1>1. cleanData.log[k] \in Messages(Jobs)
    BY SharedTypes, SameStreams, StageAssumptions, VL!EntryFacts
<1>2. j \in Jobs
    BY <1>1 DEF Messages
<1>3. CASE k \in C!Unacked(cleanData)
  <2>1. OpenIn(cleanData, j)
      BY <1>3 DEF OpenIn
  <2> QED
      BY <1>2, <2>1 DEF InFlight, Streams
<1>4. CASE k \notin C!Unacked(cleanData)
  <2>1. V!HandedOn(k)
      BY <1>4, SameStreams DEF PipeCore, V!CoreInv, V!EntryInv
  <2>2. ASSUME NEW i \in C!Ids(validatedData), validatedData.log[i].job = j
        PROVE  InFlight(j) \/ Dead(j) \/ rows[j] > 0
    <3>1. CASE i \in C!Unacked(validatedData)
        BY <2>2, <3>1 DEF OpenIn, InFlight, Streams
    <3>2. CASE i \notin C!Unacked(validatedData)
        BY <2>2, <3>2, SameStreams DEF PipeCore, S!CoreInv, S!EntryInv, S!HandedOn, Dead
    <3> QED
        BY <3>1, <3>2
  <2> QED
      BY <1>2, <2>1, <2>2, SameStreams DEF V!HandedOn, Dead
<1> QED
    BY <1>3, <1>4

\* A job published by a crawler is accounted for, or its content was torn.
LEMMA PublishedAccounted ==
    ASSUME PipeCore, NEW i \in C!Ids(rawData)
    PROVE  LET j == rawData.log[i].job
           IN  \/ Torn(j)
               \/ \E k \in Jobs :
                      SameTarget(j, k) /\ (InFlight(k) \/ Dead(k) \/ rows[k] > 0)
<1> DEFINE msg == rawData.log[i]
           j == msg.job
           Goal == \/ Torn(j)
                   \/ \E k \in Jobs :
                          SameTarget(j, k) /\ (InFlight(k) \/ Dead(k) \/ rows[k] > 0)
<1>1. msg \in Messages(Jobs)
    BY SharedTypes, SameStreams, StageAssumptions, VL!EntryFacts
<1>2. j \in Jobs /\ SameTarget(j, j)
    BY <1>1 DEF Messages, SameTarget
<1>3. CASE i \in C!Unacked(rawData)
    BY <1>2, <1>3 DEF OpenIn, InFlight, Streams
<1>4. CASE i \notin C!Unacked(rawData)
  <2>1. P!Accounted(msg)
      BY <1>4, SameStreams, SameProcessor DEF PipeCore, P!CoreInv, P!AccountInv
  <2>2. ASSUME NEW other, P!Same(other, msg) PROVE SameTarget(j, other.job)
      BY <2>2 DEF P!Same, P!ContentHash, SameTarget
  <2>3. CASE P!Forwarded(msg)
    <3>1. PICK k \in C!Ids(cleanData) : P!Same(cleanData.log[k], msg)
        BY <2>3, SameStreams DEF P!Forwarded
    <3> QED
        BY <2>2, <3>1, ForwardedAccounted
  <2>4. ASSUME NEW w \in Processors, P!CarriedBy(w, msg) PROVE Goal
    <3>1. P!Msg(w).job \in Jobs
      <4>1. processPc[w] \in PP!HandlerLabels
          BY <2>4 DEF P!CarriedBy, P!Carrying, PP!HandlerLabels
      <4>2. PP!Msg(w) \in Messages(Jobs)
          BY <4>1, StageAssumptions, PP!MsgFacts, SameTypes DEF PipeCore, PP!CoreInv
      <4> QED
          BY <4>2 DEF P!Msg, PP!Msg, Messages
    <3> QED
        BY <2>2, <2>4, <3>1 DEF P!CarriedBy, InFlight
  <2>5. CASE <<MissionOf[msg.job], P!ContentHash(msg)>> \in torn
      BY <2>5 DEF Torn, P!ContentHash
  <2> QED
      BY <2>1, <2>3, <2>4, <2>5 DEF P!Accounted
<1> QED
    BY <1>3, <1>4

\* So is a job that was enqueued.
LEMMA EnqueuedAccounted ==
    ASSUME PipeCore, NEW j \in Jobs, C!Enqueued(j)
    PROVE  \/ Torn(j)
           \/ \E k \in Jobs :
                  SameTarget(j, k) /\ (InFlight(k) \/ Dead(k) \/ rows[k] > 0)
<1>1. CP!Published(j) \/ CP!Dead(j) \/ CP!Open(j)
  <2>1. CP!Enqueued(j)
      BY SameStreams DEF C!Enqueued, CP!Enqueued
  <2> QED
      BY <2>1, StageAssumptions, CP!LastEntryOpen DEF PipeCore, CP!NoJobLost
<1>2. CASE CP!Published(j)
  <2>1. PICK i \in C!Ids(rawData) : rawData.log[i].job = j
      BY <1>2, SameStreams DEF CP!Published
  <2> QED
      BY <2>1, PublishedAccounted
<1>3. CASE CP!Dead(j)
    BY <1>3 DEF CP!Dead, Dead, SameTarget
<1>4. CASE CP!Open(j)
  <2>1. OpenIn(crawlJobs, j)
      BY <1>4, SameStreams DEF CP!Open, OpenIn
  <2> QED
      BY <2>1 DEF InFlight, Streams, SameTarget
<1> QED
    BY <1>1, <1>2, <1>3, <1>4

LEMMA Accounted == IndInv => JobAccounted
BY InvCases, EnqueuedAccounted DEF JobAccounted

\* The pipeline loses no job but to a processor that stops between SADD and XADD: each
\* stage acknowledges an entry only when the next one has it, or dead_letters does.
THEOREM JobsAccounted == Spec => []JobAccounted
BY Invariance, Accounted, PTL

-----------------------------------------------------------------------------
(* The pipeline implements the safety part of AtLeastOnce, for targets.    *)

Outcome(j) == Dead(j) \/ rows[j] > 0

\* A target is in one of the abstract sets when a job of it is.
LEMMA TargetFacts ==
    /\ \A j \in Jobs : TargetOf(j) \in Targets
    /\ \A j, k \in Jobs : SameTarget(j, k) <=> TargetOf(j) = TargetOf(k)
    /\ \A x : /\ x \in OpenTargets <=> \E k \in Jobs : x = TargetOf(k) /\ InFlight(k)
              /\ x \in OpenTargets' <=> \E k \in Jobs : x = TargetOf(k) /\ InFlight(k)'
              /\ x \in SettledTargets <=> \E k \in Jobs : x = TargetOf(k) /\ Outcome(k)
              /\ x \in SettledTargets' <=> \E k \in Jobs : x = TargetOf(k) /\ Outcome(k)'
              /\ x \in LostTargets <=> \E k \in Jobs : x = TargetOf(k) /\ Torn(k)
              /\ x \in LostTargets' <=> \E k \in Jobs : x = TargetOf(k) /\ Torn(k)'
<1>1. /\ \A j \in Jobs : TargetOf(j) \in Targets
      /\ \A j, k \in Jobs : SameTarget(j, k) <=> TargetOf(j) = TargetOf(k)
    BY PipelineAssumption DEF TargetOf, Targets, SameTarget
<1>2. \A x : /\ x \in OpenTargets <=> \E k \in Jobs : x = TargetOf(k) /\ InFlight(k)
             /\ x \in OpenTargets' <=> \E k \in Jobs : x = TargetOf(k) /\ InFlight(k)'
    BY DEF OpenTargets
<1>3. \A x : /\ x \in SettledTargets <=> \E k \in Jobs : x = TargetOf(k) /\ Outcome(k)
             /\ x \in SettledTargets' <=> \E k \in Jobs : x = TargetOf(k) /\ Outcome(k)'
    BY DEF SettledTargets, Outcome
<1>4. \A x : /\ x \in LostTargets <=> \E k \in Jobs : x = TargetOf(k) /\ Torn(k)
             /\ x \in LostTargets' <=> \E k \in Jobs : x = TargetOf(k) /\ Torn(k)'
    BY DEF LostTargets
<1> QED
    BY <1>1, <1>2, <1>3, <1>4

\* The target of a job is being worked on, settled or lost.
Known(j) == TargetOf(j) \in OpenTargets \cup SettledTargets \cup LostTargets

LEMMA KnownFacts ==
    ASSUME NEW j \in Jobs,
           \/ Torn(j)
           \/ \E k \in Jobs : SameTarget(j, k) /\ (InFlight(k) \/ Dead(k) \/ rows[k] > 0)
    PROVE  Known(j)
BY TargetFacts DEF Known, Outcome

\* A step that changes what there is of one job is a step of the abstract stage: its
\* outcome settles a known target, it has an entry more, an entry less of a target that
\* is still known, or a processor that carried its content is lost.
LEMMA TargetStep ==
    ASSUME NEW j \in Jobs,
           \A k \in Jobs : k # j => (InFlight(k)' <=> InFlight(k)) /\ (Outcome(k)' <=> Outcome(k)),
           \/ /\ torn' = torn
              /\ \/ Known(j) /\ (InFlight(j)' <=> InFlight(j)) /\ (Outcome(j) => Outcome(j)')
                 \/ InFlight(j)' /\ (Outcome(j)' <=> Outcome(j))
                 \/ Known(j)' /\ (InFlight(j)' => InFlight(j)) /\ (Outcome(j)' <=> Outcome(j))
           \/ /\ \A k \in Jobs : Torn(k)' <=> (Torn(k) \/ SameTarget(j, k))
              /\ InFlight(j) /\ (Outcome(j)' <=> Outcome(j))
    PROVE  [Promise!Next]_(Promise!vars)
<1> DEFINE t == TargetOf(j)
           Kept(before, after) == \A x : x # t => (x \in after <=> x \in before)
<1>1. t \in Targets
    BY TargetFacts
<1>2. Kept(OpenTargets, OpenTargets') /\ Kept(SettledTargets, SettledTargets')
    BY TargetFacts
<1>3. torn' = torn => LostTargets' = LostTargets
    BY DEF LostTargets, Torn
<1>4. /\ (\A k \in Jobs : InFlight(k)' <=> InFlight(k)) => OpenTargets' = OpenTargets
      /\ (\A k \in Jobs : Outcome(k)' <=> Outcome(k)) => SettledTargets' = SettledTargets
    BY TargetFacts
<1> HIDE DEF t
<1>5. CASE torn' = torn /\ Known(j) /\ (InFlight(j)' <=> InFlight(j)) /\ (Outcome(j) => Outcome(j)')
  <2>1. OpenTargets' = OpenTargets /\ LostTargets' = LostTargets
      BY <1>3, <1>4, <1>5
  <2>2. t \in SettledTargets => t \in SettledTargets'
      BY <1>5, TargetFacts
  <2>3. CASE t \in SettledTargets \/ t \notin SettledTargets'
    <3>1. SettledTargets' = SettledTargets
        BY <1>2, <2>2, <2>3
    <3> QED
        BY <2>1, <3>1 DEF Promise!vars
  <2>4. CASE t \notin SettledTargets /\ t \in SettledTargets'
    <3>1. SettledTargets' = SettledTargets \cup {t} /\ t \in OpenTargets \cup LostTargets
        BY <1>2, <1>5, <2>4 DEF Known, t
    <3> QED
        BY <1>1, <2>1, <3>1 DEF Promise!Settle, Promise!Next
  <2> QED
      BY <2>3, <2>4
<1>6. CASE torn' = torn /\ InFlight(j)' /\ (Outcome(j)' <=> Outcome(j))
  <2>1. SettledTargets' = SettledTargets /\ LostTargets' = LostTargets /\ t \in OpenTargets'
      BY <1>3, <1>4, <1>6, TargetFacts DEF t
  <2>2. CASE t \in OpenTargets
    <3>1. OpenTargets' = OpenTargets
        BY <1>2, <2>1, <2>2
    <3> QED
        BY <2>1, <3>1 DEF Promise!vars
  <2>3. CASE t \notin OpenTargets
    <3>1. OpenTargets' = OpenTargets \cup {t}
        BY <1>2, <2>1
    <3> QED
        BY <1>1, <2>1, <2>3, <3>1 DEF Promise!Admit, Promise!Reopen, Promise!Next
  <2> QED
      BY <2>2, <2>3
<1>7. CASE torn' = torn /\ Known(j)' /\ (InFlight(j)' => InFlight(j)) /\ (Outcome(j)' <=> Outcome(j))
  <2>1. SettledTargets' = SettledTargets /\ LostTargets' = LostTargets
      BY <1>3, <1>4, <1>7
  <2>2. t \in OpenTargets' => t \in OpenTargets
      BY <1>7, TargetFacts
  <2>3. CASE t \in OpenTargets' \/ t \notin OpenTargets
    <3>1. OpenTargets' = OpenTargets
        BY <1>2, <2>2, <2>3
    <3> QED
        BY <2>1, <3>1 DEF Promise!vars
  <2>4. CASE t \notin OpenTargets' /\ t \in OpenTargets
    <3>1. OpenTargets' = OpenTargets \ {t} /\ t \in SettledTargets \cup LostTargets
        BY <1>2, <1>7, <2>1, <2>4 DEF Known, t
    <3> QED
        BY <1>1, <2>1, <2>4, <3>1 DEF Promise!Close, Promise!Next
  <2> QED
      BY <2>3, <2>4
<1>8. CASE /\ \A k \in Jobs : Torn(k)' <=> (Torn(k) \/ SameTarget(j, k))
           /\ InFlight(j) /\ (Outcome(j)' <=> Outcome(j))
  <2>1. SettledTargets' = SettledTargets /\ t \in OpenTargets
      BY <1>4, <1>8, TargetFacts DEF t
  <2>2. LostTargets' = LostTargets \cup {t}
      BY <1>8, TargetFacts DEF t
  <2>3. OpenTargets' \in {OpenTargets, OpenTargets \ {t}}
      BY <1>2, <2>1
  <2> QED
      BY <1>1, <2>1, <2>2, <2>3 DEF Promise!Lose, Promise!Next
<1> QED
    BY <1>5, <1>6, <1>7, <1>8

LEMMA TargetStutter ==
    ASSUME \A k \in Jobs : (InFlight(k)' <=> InFlight(k)) /\ (Outcome(k)' <=> Outcome(k)),
           torn' = torn
    PROVE  UNCHANGED (Promise!vars)
<1>1. OpenTargets' = OpenTargets /\ SettledTargets' = SettledTargets
    BY TargetFacts
<1>2. LostTargets' = LostTargets
    BY DEF LostTargets, Torn
<1> QED
    BY <1>1, <1>2 DEF Promise!vars

\* What a command does to the jobs that are open in its stream.
LEMMA OpenKept ==
    ASSUME NEW s, NEW t, t.log = s.log, C!Unacked(t) = C!Unacked(s)
    PROVE  \A k : OpenIn(t, k) <=> OpenIn(s, k)
BY DEF OpenIn

LEMMA OpenXadd ==
    ASSUME NEW Message, NEW s \in C!StreamOf(Message), NEW msg \in Message
    PROVE  \A k : OpenIn(C!Xadd(s, msg), k) <=> OpenIn(s, k) \/ k = msg.job
<1> DEFINE t == VL!Xadd(s, msg)
           new == VL!Len(s.log) + 1
<1>0. s \in VL!StreamOf(Message)
    BY SameStreams
<1>1. /\ VL!Unacked(s) \subseteq VL!Ids(s)
      /\ \A i \in VL!Ids(s) : t.log[i] = s.log[i]
      /\ t.log[new] = msg
      /\ VL!Unacked(t) = VL!Unacked(s) \cup {new}
    BY <1>0, StageAssumptions, VL!XaddFacts, VL!EntryFacts
<1>2. t = C!Xadd(s, msg) /\ VL!Unacked(t) = C!Unacked(t) /\ VL!Unacked(s) = C!Unacked(s)
    BY SameStreams
<1> HIDE DEF t, new
<1> QED
    BY <1>1, <1>2 DEF OpenIn

LEMMA OpenXack ==
    ASSUME NEW s, NEW t, NEW i, NEW j, s.log[i].job = j,
           t.log = s.log, C!Unacked(t) = C!Unacked(s) \ {i}
    PROVE  \A k : /\ OpenIn(t, k) => OpenIn(s, k)
                  /\ k # j => (OpenIn(t, k) <=> OpenIn(s, k))
BY DEF OpenIn

\* A processor carries a content of the job.
Carried(j) == \E w \in Processors : P!Carrying(w) /\ P!Msg(w).job = j

LEMMA InFlightParts ==
    \A j : /\ InFlight(j) <=> \/ OpenIn(crawlJobs, j) \/ OpenIn(rawData, j)
                              \/ OpenIn(cleanData, j) \/ OpenIn(validatedData, j)
                              \/ Carried(j)
           /\ InFlight(j)' <=> \/ OpenIn(crawlJobs', j) \/ OpenIn(rawData', j)
                               \/ OpenIn(cleanData', j) \/ OpenIn(validatedData', j)
                               \/ Carried(j)'
<1>1. \A j : InFlight(j) <=> \/ OpenIn(crawlJobs, j) \/ OpenIn(rawData, j)
                             \/ OpenIn(cleanData, j) \/ OpenIn(validatedData, j)
                             \/ Carried(j)
    BY DEF InFlight, Streams, Carried
<1>2. \A j : InFlight(j)' <=> \/ OpenIn(crawlJobs', j) \/ OpenIn(rawData', j)
                              \/ OpenIn(cleanData', j) \/ OpenIn(validatedData', j)
                              \/ Carried(j)'
    BY DEF InFlight, Streams, Carried, OpenIn
<1> QED
    BY <1>1, <1>2

\* Every job in a stream has a known target.
EntriesKnown ==
    \A s \in Streams : \A i \in C!Ids(s) : s.log[i].job \in Jobs /\ Known(s.log[i].job)

LEMMA KnownNow == IndInv => EntriesKnown
<1> SUFFICES ASSUME PipeCore
             PROVE  EntriesKnown
    BY InvCases
<1>1. ASSUME NEW i \in C!Ids(crawlJobs)
      PROVE  crawlJobs.log[i].job \in Jobs /\ Known(crawlJobs.log[i].job)
  <2>1. crawlJobs \in CP!StreamOf(CP!Envelope)
      BY DEF PipeCore, CP!CoreInv, CP!TypeOK, CP!LoopTypeOK
  <2>2. crawlJobs.log[i] \in CP!Envelope
      BY <2>1, SameStreams, StageAssumptions, VL!EntryFacts
  <2>3. crawlJobs.log[i].job \in Jobs /\ C!Enqueued(crawlJobs.log[i].job)
      BY <2>2 DEF CP!Envelope, C!Enqueued
  <2> QED
      BY <2>3, EnqueuedAccounted, KnownFacts
<1>2. ASSUME NEW i \in C!Ids(rawData)
      PROVE  rawData.log[i].job \in Jobs /\ Known(rawData.log[i].job)
  <2>1. rawData \in VL!StreamOf(Messages(Jobs)) /\ i \in VL!Ids(rawData)
      BY SharedTypes, SameStreams
  <2>2. rawData.log[i] \in Messages(Jobs)
      BY <2>1, StageAssumptions, VL!EntryFacts
  <2>3. rawData.log[i].job \in Jobs
      BY <2>2 DEF Messages
  <2> QED
      BY <2>3, PublishedAccounted, KnownFacts
<1>3. ASSUME NEW i \in C!Ids(cleanData)
      PROVE  cleanData.log[i].job \in Jobs /\ Known(cleanData.log[i].job)
    BY ForwardedAccounted, KnownFacts DEF SameTarget
<1>4. ASSUME NEW i \in C!Ids(validatedData)
      PROVE  validatedData.log[i].job \in Jobs /\ Known(validatedData.log[i].job)
  <2> DEFINE j == validatedData.log[i].job
  <2>1. validatedData \in VL!StreamOf(Messages(Jobs)) /\ i \in VL!Ids(validatedData)
      BY SharedTypes, SameStreams
  <2>2. j \in Jobs
    <3>1. validatedData.log[i] \in Messages(Jobs)
        BY <2>1, StageAssumptions, VL!EntryFacts
    <3> QED
        BY <3>1 DEF Messages
  <2>3. InFlight(j) \/ Dead(j) \/ rows[j] > 0
    <3>1. CASE i \in C!Unacked(validatedData)
        BY <3>1 DEF OpenIn, InFlight, Streams
    <3>2. CASE i \notin C!Unacked(validatedData)
        BY <3>2, SameStreams DEF PipeCore, S!CoreInv, S!EntryInv, S!HandedOn, Dead
    <3> QED
        BY <3>1, <3>2
  <2> QED
      BY <2>2, <2>3, KnownFacts DEF SameTarget
<1> QED
    BY <1>1, <1>2, <1>3, <1>4 DEF EntriesKnown, Streams

\* Processors that do not move carry what they carried: raw_data keeps its entries.
LEMMA CarriedSame ==
    ASSUME PipeCore, UNCHANGED <<processPc, processCur>>,
           \A i \in C!Ids(rawData) : rawData'.log[i] = rawData.log[i]
    PROVE  \A k : Carried(k)' <=> Carried(k)
<1>1. ASSUME NEW w \in Processors, P!Carrying(w)
      PROVE  P!Msg(w)' = P!Msg(w)
  <2>1. processPc[w] \in PP!HandlerLabels
      BY <1>1 DEF P!Carrying, PP!HandlerLabels
  <2>2. processCur[w] \in C!Ids(rawData)
      BY <2>1, StageAssumptions, SameStreams, PP!MsgFacts DEF PipeCore, PP!CoreInv
  <2> QED
      BY <2>2 DEF P!Msg
<1>2. \A w \in Processors : P!Carrying(w)' <=> P!Carrying(w)
    BY DEF P!Carrying
<1> QED
    BY <1>1, <1>2 DEF Carried

\* The jobs that are open in the streams that a step leaves alone.
LEMMA OpenElsewhere ==
    /\ crawlJobs' = crawlJobs => \A k : OpenIn(crawlJobs', k) <=> OpenIn(crawlJobs, k)
    /\ rawData' = rawData => \A k : OpenIn(rawData', k) <=> OpenIn(rawData, k)
    /\ cleanData' = cleanData => \A k : OpenIn(cleanData', k) <=> OpenIn(cleanData, k)
    /\ validatedData' = validatedData =>
           \A k : OpenIn(validatedData', k) <=> OpenIn(validatedData, k)
    /\ UNCHANGED <<dead, rows>> => \A k : Outcome(k)' <=> Outcome(k)
BY DEF Outcome, Dead

\* Burying a job gives it an outcome, and no other job.
LEMMA OutcomeBury ==
    ASSUME NEW j, NEW r, dead' = dead \cup {[job |-> j, reason |-> r]}, rows' = rows
    PROVE  /\ \A k : k # j => (Outcome(k)' <=> Outcome(k))
           /\ Outcome(j)'
<1> DEFINE letter == [job |-> j, reason |-> r]
<1>1. dead' = dead \cup {letter} /\ letter.job = j
    OBVIOUS
<1> HIDE DEF letter
<1>2. /\ \A k : k # j => (Dead(k)' <=> Dead(k))
      /\ Dead(j)'
    BY <1>1 DEF Dead
<1> QED
    BY <1>2 DEF Outcome

\* Every step of the crawlers.
LEMMA CrawlDelivery ==
    ASSUME PipeCore, EntriesKnown, EntriesKnown', CrawlStep
    PROVE  [Promise!Next]_(Promise!vars)
<1>0. /\ CP!Next /\ CP!CoreInv
      /\ UNCHANGED <<cleanData, validatedData, processPc, processCur, torn, rows>>
    BY CrawlIsStep DEF PipeCore, processVars, storeVars
<1>1. /\ \A k : OpenIn(cleanData', k) <=> OpenIn(cleanData, k)
      /\ \A k : OpenIn(validatedData', k) <=> OpenIn(validatedData, k)
      /\ rawData' = rawData => \A k : Carried(k)' <=> Carried(k)
      /\ torn' = torn
    BY <1>0, OpenElsewhere, CarriedSame
<1>2. CASE /\ crawlJobs'.log = crawlJobs.log /\ C!Unacked(crawlJobs') = C!Unacked(crawlJobs)
           /\ UNCHANGED <<rawData, dead>>
  <2>1. \A k : OpenIn(crawlJobs', k) <=> OpenIn(crawlJobs, k)
      BY <1>2, OpenKept
  <2> QED
      BY <1>0, <1>1, <1>2, <2>1, OpenElsewhere, InFlightParts, TargetStutter
<1>3. ASSUME NEW msg \in CP!Envelope, crawlJobs' = C!Xadd(crawlJobs, msg),
             UNCHANGED <<rawData, dead>>
      PROVE  [Promise!Next]_(Promise!vars)
  <2> DEFINE j == msg.job
  <2>1. j \in Jobs
      BY DEF CP!Envelope
  <2>2. \A k : OpenIn(crawlJobs', k) <=> OpenIn(crawlJobs, k) \/ k = j
    <3>1. crawlJobs \in C!StreamOf(CP!Envelope)
        BY <1>0, SameStreams DEF CP!CoreInv, CP!TypeOK, CP!LoopTypeOK
    <3> QED
        BY <1>3, <3>1, OpenXadd
  <2> HIDE DEF j
  <2> QED
      BY <1>0, <1>1, <1>3, <2>1, <2>2, OpenElsewhere, InFlightParts, TargetStep
<1>4. ASSUME NEW w \in Crawlers, CP!PublishedBy(w) \/ CP!BuriedBy(w) \/ CP!AckedBy(w)
      PROVE  [Promise!Next]_(Promise!vars)
  <2>0. crawlCur[w] \in C!Ids(crawlJobs) /\ CP!Msg(w).job \in Jobs
    <3>1. crawlPc[w] \in CP!HandlerLabels
        BY <1>4 DEF CP!PublishedBy, CP!BuriedBy, CP!AckedBy
    <3>2. crawlCur[w] \in CP!Ids(crawlJobs) /\ CP!Msg(w).job \in Jobs
        BY <1>0, <3>1, StageAssumptions, CP!MsgFacts DEF CP!CoreInv
    <3> QED
        BY <3>2, SameStreams
  <2>1. PICK j \in Jobs : j = CP!Msg(w).job
      BY <2>0
  <2>2. PICK i \in C!Ids(crawlJobs) : i = crawlCur[w] /\ j = crawlJobs.log[i].job
      BY <2>0, <2>1 DEF CP!Msg
  <2>3. CASE CP!PublishedBy(w)
    <3>1. /\ crawlJobs' = crawlJobs /\ dead' = dead
          /\ \E c \in Contents : rawData' = C!Xadd(rawData, [job |-> j, content |-> c])
        BY <2>1, <2>3, SameStreams DEF CP!PublishedBy
    <3>2. PICK msg \in Messages(Jobs) : msg.job = j /\ rawData' = C!Xadd(rawData, msg)
        BY <2>1, <3>1 DEF Messages
    <3>3. \A k : OpenIn(rawData', k) <=> OpenIn(rawData, k) \/ k = j
        BY <3>2, SharedTypes, OpenXadd
    <3>4. \A k : Carried(k)' <=> Carried(k)
      <4>1. rawData \in VL!StreamOf(Messages(Jobs)) /\ rawData' = VL!Xadd(rawData, msg)
          BY <3>2, SharedTypes, SameStreams
      <4>2. \A e \in VL!Ids(rawData) : rawData'.log[e] = rawData.log[e]
          BY <4>1, StageAssumptions, VL!XaddFacts
      <4> QED
          BY <1>0, <4>2, SameStreams, CarriedSame
    <3> QED
        BY <1>0, <1>1, <3>1, <3>3, <3>4, OpenElsewhere, InFlightParts, TargetStep
  <2>4. CASE CP!BuriedBy(w)
    <3>1. PICK reason : dead' = dead \cup {[job |-> j, reason |-> reason]}
        BY <2>1, <2>4 DEF CP!BuriedBy
    <3>2. crawlJobs' = crawlJobs /\ rawData' = rawData /\ rows' = rows
        BY <1>0, <2>4 DEF CP!BuriedBy
    <3>3. (\A k : k # j => (Outcome(k)' <=> Outcome(k))) /\ Outcome(j)'
        BY <3>1, <3>2, OutcomeBury
    <3>4. \A k : InFlight(k)' <=> InFlight(k)
        BY <1>1, <3>2, OpenElsewhere, InFlightParts
    <3>5. Known(j)
        BY <2>2 DEF EntriesKnown, Streams
    <3> QED
        BY <1>1, <3>3, <3>4, <3>5, TargetStep
  <2>5. CASE CP!AckedBy(w)
    <3>1. /\ crawlJobs'.log = crawlJobs.log /\ UNCHANGED <<rawData, dead>>
          /\ C!Unacked(crawlJobs') = C!Unacked(crawlJobs) \ {i}
        BY <2>2, <2>5, SameStreams DEF CP!AckedBy
    <3>2. \A k : /\ OpenIn(crawlJobs', k) => OpenIn(crawlJobs, k)
                 /\ k # j => (OpenIn(crawlJobs', k) <=> OpenIn(crawlJobs, k))
      <4>1. /\ crawlJobs.log[i].job = j /\ crawlJobs'.log = crawlJobs.log
            /\ C!Unacked(crawlJobs') = C!Unacked(crawlJobs) \ {i}
          BY <2>2, <3>1
      <4> QED
          BY <4>1, OpenXack
    <3>3. Known(j)'
      <4>1. i \in C!Ids(crawlJobs)' /\ j = crawlJobs'.log[i].job
          BY <2>2, <3>1 DEF C!Ids
      <4> QED
          BY <4>1 DEF EntriesKnown, Streams
    <3> QED
        BY <1>0, <1>1, <3>1, <3>2, <3>3, OpenElsewhere, InFlightParts, TargetStep
  <2> QED
      BY <1>4, <2>3, <2>4, <2>5
<1>5. \/ /\ crawlJobs'.log = crawlJobs.log /\ C!Unacked(crawlJobs') = C!Unacked(crawlJobs)
         /\ UNCHANGED <<rawData, dead>>
      \/ \E msg \in CP!Envelope : crawlJobs' = C!Xadd(crawlJobs, msg) /\ UNCHANGED <<rawData, dead>>
      \/ \E w \in Crawlers : CP!PublishedBy(w) \/ CP!BuriedBy(w) \/ CP!AckedBy(w)
    BY <1>0, StageAssumptions, SameStreams, CP!Moves
<1> QED
    BY <1>2, <1>3, <1>4, <1>5

\* What the processors W carry, they carry on.
LEMMA CarryOnFacts ==
    ASSUME NEW W, PP!CarryOn(W), rawData'.log = rawData.log
    PROVE  \A x \in W : /\ P!Carrying(x)' <=> P!Carrying(x)
                        /\ P!Carrying(x) => P!Msg(x)' = P!Msg(x)
BY DEF PP!CarryOn, PP!Carrying, P!Carrying, P!Msg

\* A step of one processor changes what is carried of its own job only.
LEMMA CarriedMove ==
    ASSUME NEW w \in Processors, NEW j, j = P!Msg(w).job,
           rawData'.log = rawData.log, PP!CarryOn(Processors \ {w}),
           P!Carrying(w)' => processCur'[w] = processCur[w]
    PROVE  /\ \A k : k # j => (Carried(k)' <=> Carried(k))
           /\ P!Carrying(w) => Carried(j)
           /\ P!Carrying(w)' => Carried(j)'
           /\ ~P!Carrying(w) /\ ~P!Carrying(w)' => (Carried(j)' <=> Carried(j))
<1>1. \A x \in Processors \ {w} : /\ P!Carrying(x)' <=> P!Carrying(x)
                                  /\ P!Carrying(x) => P!Msg(x)' = P!Msg(x)
    BY CarryOnFacts
<1>2. P!Carrying(w)' => P!Msg(w)' = P!Msg(w)
    BY DEF P!Msg
<1> QED
    BY <1>1, <1>2 DEF Carried

\* Every step of the processors.
LEMMA ProcessDelivery ==
    ASSUME PipeCore, EntriesKnown', ProcessStage
    PROVE  [Promise!Next]_(Promise!vars)
<1>0. /\ PP!StageStep /\ PP!CoreInv
      /\ crawlJobs' = crawlJobs /\ validatedData' = validatedData
      /\ dead' = dead /\ rows' = rows
    BY ProcessIsStep DEF PipeCore, storeVars
<1>1. /\ \A k : OpenIn(crawlJobs', k) <=> OpenIn(crawlJobs, k)
      /\ \A k : OpenIn(validatedData', k) <=> OpenIn(validatedData, k)
      /\ \A k : Outcome(k)' <=> Outcome(k)
    BY <1>0, OpenElsewhere
<1>2. ASSUME PP!StreamsKept
      PROVE  /\ rawData'.log = rawData.log
             /\ \A k : OpenIn(rawData', k) <=> OpenIn(rawData, k)
             /\ \A k : OpenIn(cleanData', k) <=> OpenIn(cleanData, k)
  <2>1. /\ rawData'.log = rawData.log /\ C!Unacked(rawData') = C!Unacked(rawData)
        /\ cleanData' = cleanData
      BY <1>2, SameStreams DEF PP!StreamsKept
  <2> QED
      BY <2>1, OpenKept, OpenElsewhere
<1>3. ASSUME PP!Unseen
      PROVE  [Promise!Next]_(Promise!vars)
  <2>1. PP!StreamsKept /\ torn' = torn /\ PP!CarryOn(Processors)
      BY <1>3 DEF PP!Unseen
  <2>2. \A k : Carried(k)' <=> Carried(k)
      BY <1>2, <2>1, CarryOnFacts DEF Carried
  <2> QED
      BY <1>1, <1>2, <2>1, <2>2, InFlightParts, TargetStutter
<1>4. ASSUME NEW w \in Processors, processPc[w] \in PP!HandlerLabels,
             PP!CarryOn(Processors \ {w}),
             PP!MarkedBy(w) \/ PP!ForwardedBy(w) \/ PP!AckedBy(w) \/ PP!TornFrom(w)
      PROVE  [Promise!Next]_(Promise!vars)
  <2>0. /\ processCur[w] \in C!Ids(rawData) /\ PP!Msg(w) \in Messages(Jobs)
        /\ PP!Msg(w) = P!Msg(w) /\ (P!Carrying(w) <=> PP!Carrying(w))
        /\ P!Carrying(w)' <=> PP!Carrying(w)'
    <3>1. processCur[w] \in PP!Ids(rawData) /\ PP!Msg(w) \in PP!RawMessage
        BY <1>0, <1>4, StageAssumptions, PP!MsgFacts DEF PP!CoreInv
    <3> QED
        BY <3>1, SameStreams, SameTypes DEF P!Msg, PP!Msg, P!Carrying, PP!Carrying
  <2>1. PICK msg \in Messages(Jobs) : msg = P!Msg(w)
      BY <2>0
  <2>2. PICK j \in Jobs : j = msg.job /\ j = P!Msg(w).job
      BY <2>1 DEF Messages
  <2>3. PICK i \in C!Ids(rawData) : i = processCur[w] /\ j = rawData.log[i].job
      BY <2>0, <2>2 DEF P!Msg
  <2>4. CASE PP!MarkedBy(w)
    <3>1. /\ rawData' = rawData /\ cleanData' = cleanData /\ torn' = torn
          /\ P!Carrying(w)' /\ processCur'[w] = processCur[w]
        BY <2>0, <2>4 DEF PP!MarkedBy
    <3>2. (\A k : k # j => (Carried(k)' <=> Carried(k))) /\ Carried(j)'
        BY <1>4, <2>2, <3>1, CarriedMove
    <3> QED
        BY <1>1, <3>1, <3>2, OpenElsewhere, InFlightParts, TargetStep
  <2>5. CASE PP!ForwardedBy(w)
    <3>1. /\ rawData' = rawData /\ cleanData' = C!Xadd(cleanData, msg) /\ torn' = torn
          /\ P!Carrying(w) /\ ~P!Carrying(w)'
        BY <2>0, <2>1, <2>5, SameStreams DEF PP!ForwardedBy
    <3>2. \A k : k # j => (Carried(k)' <=> Carried(k))
        BY <1>4, <2>2, <3>1, CarriedMove
    <3>3. \A k : OpenIn(cleanData', k) <=> OpenIn(cleanData, k) \/ k = j
        BY <2>2, <3>1, SharedTypes, OpenXadd
    <3> QED
        BY <1>1, <3>1, <3>2, <3>3, OpenElsewhere, InFlightParts, TargetStep
  <2>6. CASE PP!AckedBy(w)
    <3>1. /\ rawData'.log = rawData.log /\ C!Unacked(rawData') = C!Unacked(rawData) \ {i}
          /\ cleanData' = cleanData /\ torn' = torn
          /\ ~P!Carrying(w) /\ ~P!Carrying(w)'
        BY <2>0, <2>3, <2>6, SameStreams DEF PP!AckedBy
    <3>2. \A k : Carried(k)' <=> Carried(k)
        BY <1>4, <2>2, <3>1, CarriedMove
    <3>3. \A k : /\ OpenIn(rawData', k) => OpenIn(rawData, k)
                 /\ k # j => (OpenIn(rawData', k) <=> OpenIn(rawData, k))
      <4>1. rawData.log[i].job = j
          BY <2>3
      <4> QED
          BY <3>1, <4>1, OpenXack
    <3>4. Known(j)'
      <4>1. i \in C!Ids(rawData)' /\ j = rawData'.log[i].job
          BY <2>3, <3>1 DEF C!Ids
      <4> QED
          BY <4>1 DEF EntriesKnown, Streams
    <3> QED
        BY <1>1, <3>1, <3>2, <3>3, <3>4, OpenElsewhere, InFlightParts, TargetStep
  <2>7. CASE PP!TornFrom(w)
    <3>1. /\ PP!StreamsKept /\ torn' = torn \cup {<<PP!Mission(w), PP!Hash(w)>>}
          /\ P!Carrying(w) /\ ~P!Carrying(w)'
        BY <2>0, <2>7 DEF PP!TornFrom
    <3>2. (\A k : k # j => (Carried(k)' <=> Carried(k))) /\ Carried(j)
        BY <1>2, <1>4, <2>2, <3>1, CarriedMove
    <3>3. \A k \in Jobs : Torn(k)' <=> (Torn(k) \/ SameTarget(j, k))
      <4> DEFINE new == <<PP!Mission(w), PP!Hash(w)>>
      <4>1. new[1] = MissionOf[j] /\ new[2].url = UrlOf[j]
          BY <2>0, <2>2 DEF PP!Mission, PP!Hash, PP!ContentHash
      <4>2. torn' = torn \cup {new}
          BY <3>1
      <4> HIDE DEF new
      <4> QED
          BY <4>1, <4>2 DEF Torn, SameTarget
    <3> QED
        BY <1>1, <1>2, <3>1, <3>2, <3>3, InFlightParts, TargetStep
  <2> QED
      BY <1>4, <2>4, <2>5, <2>6, <2>7
<1> QED
    BY <1>0, <1>3, <1>4, StageAssumptions, PP!Moves

\* Every step of the validators.
LEMMA ValidateDelivery ==
    ASSUME PipeCore, EntriesKnown, EntriesKnown', ValidateStage
    PROVE  [Promise!Next]_(Promise!vars)
<1>0. /\ V!Next /\ V!CoreInv /\ VL!LoopAssumption
      /\ VL!LoopTypeOK(V!CleanMessage, V!HandlerLabels) /\ VL!WorkInv(V!HandlerLabels)
      /\ crawlJobs' = crawlJobs /\ rawData' = rawData /\ rows' = rows /\ torn' = torn
      /\ UNCHANGED <<processPc, processCur>>
    BY StageAssumptions, ValidatorParts DEF PipeCore, ValidateStage, processVars, storeVars
<1>1. /\ \A k : OpenIn(crawlJobs', k) <=> OpenIn(crawlJobs, k)
      /\ \A k : OpenIn(rawData', k) <=> OpenIn(rawData, k)
      /\ \A k : Carried(k)' <=> Carried(k)
    BY <1>0, OpenElsewhere, CarriedSame
<1>2. ASSUME V!ClockStep \/ \E w \in Validators : V!LoopStep(w) \/ V!ClaimError(w) \/ V!LoseBatch(w),
             UNCHANGED <<validatedData, dead>>
      PROVE  [Promise!Next]_(Promise!vars)
  <2>1. VL!ClockStep \/ \E w \in Validators :
                            VL!LoopStep(w) \/ VL!ClaimError(w) \/ VL!LoseBatch(w)
      BY <1>2, SameValidatorSteps
  <2>2. cleanData'.log = cleanData.log /\ VL!Unacked(cleanData') = VL!Unacked(cleanData)
      BY <1>0, <2>1, ValidatorLabels, VL!ClockFacts, VL!LoopFacts
  <2>3. \A k : OpenIn(cleanData', k) <=> OpenIn(cleanData, k)
      BY <2>2, SameStreams, OpenKept
  <2> QED
      BY <1>0, <1>1, <1>2, <2>3, OpenElsewhere, InFlightParts, TargetStutter
<1>3. ASSUME NEW w \in Validators,
             \/ V!Accept(w) \/ V!Reject(w)
             \/ validatePc[w] = "ack" /\ V!AckAndFinish(w) /\ UNCHANGED <<validatedData, dead>>
      PROVE  [Promise!Next]_(Promise!vars)
  <2>1. validatePc[w] \in V!HandlerLabels
      BY <1>3, ValidatorLabels DEF V!Accept, V!Reject
  <2>2. /\ validateCur[w] \in C!Ids(cleanData) /\ V!Msg(w) \in Messages(Jobs)
        /\ V!Msg(w) = cleanData.log[validateCur[w]]
      BY <1>0, <2>1, ValidatorMsg, SameTypes DEF V!Msg
  <2>3. PICK msg \in Messages(Jobs) : msg = V!Msg(w)
      BY <2>2
  <2>4. PICK j \in Jobs : j = msg.job /\ j = V!Msg(w).job
      BY <2>3 DEF Messages
  <2>5. PICK i \in C!Ids(cleanData) : i = validateCur[w] /\ j = cleanData.log[i].job
      BY <2>2, <2>4
  <2>6. CASE V!Accept(w)
    <3>1. /\ cleanData' = cleanData /\ dead' = dead
          /\ validatedData' = C!Xadd(validatedData, msg)
        BY <2>3, <2>6, SameStreams DEF V!Accept
    <3>2. \A k : OpenIn(validatedData', k) <=> OpenIn(validatedData, k) \/ k = j
        BY <2>4, <3>1, SharedTypes, OpenXadd
    <3> QED
        BY <1>0, <1>1, <3>1, <3>2, OpenElsewhere, InFlightParts, TargetStep
  <2>7. CASE V!Reject(w)
    <3>1. /\ cleanData' = cleanData /\ validatedData' = validatedData
          /\ dead' = dead \cup {[job |-> j, reason |-> "validation_failed"]}
        BY <2>4, <2>7 DEF V!Reject
    <3>2. (\A k : k # j => (Outcome(k)' <=> Outcome(k))) /\ Outcome(j)'
        BY <1>0, <3>1, OutcomeBury
    <3>3. \A k : InFlight(k)' <=> InFlight(k)
        BY <1>1, <3>1, OpenElsewhere, InFlightParts
    <3>4. Known(j)
        BY <2>5 DEF EntriesKnown, Streams
    <3> QED
        BY <1>0, <3>2, <3>3, <3>4, TargetStep
  <2>8. CASE validatePc[w] = "ack" /\ V!AckAndFinish(w) /\ UNCHANGED <<validatedData, dead>>
    <3>1. VL!AckAndFinish(w)
        BY <2>8, SameValidatorSteps
    <3>2. /\ cleanData'.log = cleanData.log
          /\ VL!Unacked(cleanData') = VL!Unacked(cleanData) \ {validateCur[w]}
        BY <1>0, <2>1, <3>1, ValidatorLabels, VL!AckAndFinishFacts
    <3>3. \A k : /\ OpenIn(cleanData', k) => OpenIn(cleanData, k)
                 /\ k # j => (OpenIn(cleanData', k) <=> OpenIn(cleanData, k))
      <4>1. /\ cleanData.log[i].job = j /\ cleanData'.log = cleanData.log
            /\ C!Unacked(cleanData') = C!Unacked(cleanData) \ {i}
          BY <2>5, <3>2, SameStreams
      <4> QED
          BY <4>1, OpenXack
    <3>4. Known(j)'
      <4>1. i \in C!Ids(cleanData)' /\ j = cleanData'.log[i].job
          BY <2>5, <3>2 DEF C!Ids
      <4> QED
          BY <4>1 DEF EntriesKnown, Streams
    <3> QED
        BY <1>0, <1>1, <2>8, <3>3, <3>4, OpenElsewhere, InFlightParts, TargetStep
  <2> QED
      BY <1>3, <2>6, <2>7, <2>8
<1>4. \/ /\ UNCHANGED <<validatedData, dead>>
         /\ V!ClockStep \/ \E w \in Validators : V!LoopStep(w) \/ V!ClaimError(w) \/ V!LoseBatch(w)
      \/ \E w \in Validators :
             \/ V!Accept(w) \/ V!Reject(w)
             \/ validatePc[w] = "ack" /\ V!AckAndFinish(w) /\ UNCHANGED <<validatedData, dead>>
    BY <1>0 DEF V!Next, V!Loop, V!Handler, V!Ack, V!Fault, V!Abort, V!ClaimFails, V!Clock, V!local
<1> QED
    BY <1>2, <1>3, <1>4

\* Every step of the store workers.
LEMMA StoreDelivery ==
    ASSUME PipeCore, EntriesKnown, EntriesKnown', StoreStage
    PROVE  [Promise!Next]_(Promise!vars)
<1>0. /\ S!Next /\ S!CoreInv /\ SL!LoopAssumption
      /\ SL!LoopTypeOK(S!ValidMessage, S!HandlerLabels) /\ SL!WorkInv(S!HandlerLabels)
      /\ StoreOwnTypeOK
      /\ crawlJobs' = crawlJobs /\ rawData' = rawData /\ cleanData' = cleanData /\ torn' = torn
      /\ UNCHANGED <<processPc, processCur>>
    BY StageAssumptions, StoreParts DEF PipeCore, StoreStage, processVars
<1>1. /\ \A k : OpenIn(crawlJobs', k) <=> OpenIn(crawlJobs, k)
      /\ \A k : OpenIn(rawData', k) <=> OpenIn(rawData, k)
      /\ \A k : OpenIn(cleanData', k) <=> OpenIn(cleanData, k)
      /\ \A k : Carried(k)' <=> Carried(k)
    BY <1>0, OpenElsewhere, CarriedSame
<1>2. ASSUME StoreIdle, validatedData'.log = validatedData.log,
             C!Unacked(validatedData') = C!Unacked(validatedData)
      PROVE  [Promise!Next]_(Promise!vars)
  <2>1. \A k : OpenIn(validatedData', k) <=> OpenIn(validatedData, k)
      BY <1>2, OpenKept
  <2>2. \A k : Outcome(k)' <=> Outcome(k)
      BY <1>2, OpenElsewhere DEF StoreIdle
  <2> QED
      BY <1>0, <1>1, <2>1, <2>2, InFlightParts, TargetStutter
<1>3. ASSUME S!ClockStep \/ \E w \in Stores : S!LoopStep(w) \/ S!ClaimError(w) \/ S!LoseBatch(w)
      PROVE  /\ validatedData'.log = validatedData.log
             /\ C!Unacked(validatedData') = C!Unacked(validatedData)
  <2>1. SL!ClockStep \/ \E w \in Stores :
                            SL!LoopStep(w) \/ SL!ClaimError(w) \/ SL!LoseBatch(w)
      BY <1>3, SameStoreSteps
  <2>2. /\ validatedData'.log = validatedData.log
        /\ SL!Unacked(validatedData') = SL!Unacked(validatedData)
      BY <1>0, <2>1, StoreLabels, SL!ClockFacts, SL!LoopFacts
  <2> QED
      BY <2>2, SameStreams
<1>4. ASSUME NEW w \in Stores,
             \/ S!StoreRow(w) \/ S!StoreFails(w) \/ S!CountFailed(w)
             \/ S!CountFailedFails(w) \/ S!Bury(w) \/ S!Ack(w)
      PROVE  [Promise!Next]_(Promise!vars)
  <2>1. storePc[w] \in S!HandlerLabels
      BY <1>4, StoreLabels DEF S!StoreRow, S!StoreFails, S!CountFailed, S!CountFailedFails,
                               S!Bury, S!Ack
  <2>2. PICK j \in Jobs : j = S!Msg(w).job
      BY <1>0, <2>1, StoreMsg
  <2>3. PICK i \in C!Ids(validatedData) : i = storeCur[w] /\ j = validatedData.log[i].job
      BY <1>0, <2>1, <2>2, StoreMsg
  <2>4. Known(j)
      BY <2>3 DEF EntriesKnown, Streams
  <2>5. ASSUME validatedData' = validatedData,
               \A k \in Jobs : k # j => (Outcome(k)' <=> Outcome(k)), Outcome(j) => Outcome(j)'
        PROVE  [Promise!Next]_(Promise!vars)
    <3>1. \A k : InFlight(k)' <=> InFlight(k)
        BY <1>1, <2>5, OpenElsewhere, InFlightParts
    <3> QED
        BY <1>0, <2>4, <2>5, <3>1, TargetStep
  <2>6. CASE S!StoreRow(w) \/ S!StoreFails(w) \/ S!CountFailed(w) \/ S!CountFailedFails(w)
    <3>1. /\ validatedData' = validatedData /\ dead' = dead
          /\ S!CommitRow(w) \/ rows' = rows
        BY <2>6 DEF S!StoreRow, S!StoreFails, S!CountFailed, S!CountFailedFails
    <3>2. \A k \in Jobs : /\ k # j => rows'[k] = rows[k]
                          /\ rows[k] > 0 => rows'[k] > 0
      <4>1. \A k \in Jobs : rows[k] \in Nat
          BY <1>0 DEF StoreOwnTypeOK
      <4>2. CASE S!CommitRow(w)
          BY <1>0, <2>1, <2>2, <4>1, <4>2, StoreCommits
      <4> QED
          BY <3>1, <4>2
    <3>3. \A k : Dead(k)' <=> Dead(k)
        BY <3>1 DEF Dead
    <3> QED
        BY <2>5, <3>1, <3>2, <3>3 DEF Outcome
  <2>7. CASE S!Bury(w)
    <3>1. /\ validatedData' = validatedData /\ rows' = rows
          /\ dead' = dead \cup {[job |-> j, reason |-> "db_error"]}
        BY <2>2, <2>7 DEF S!Bury
    <3> QED
        BY <2>5, <3>1, OutcomeBury
  <2>8. CASE S!Ack(w)
    <3>1. /\ validatedData' = SL!Xack(validatedData, i) /\ dead' = dead /\ rows' = rows
        BY <2>3, <2>8 DEF S!Ack, S!local, S!Xack, SL!Xack
    <3>2. /\ validatedData'.log = validatedData.log
          /\ SL!Unacked(validatedData') = SL!Unacked(validatedData) \ {i}
      <4>1. validatedData \in SL!StreamOf(S!ValidMessage) /\ validatedData.last \in Nat
          BY <1>0, SL!StreamFields DEF SL!LoopTypeOK
      <4>2. i \in 1 .. validatedData.last
          BY <1>0, <2>1, <2>3, <4>1 DEF SL!WorkInv
      <4> QED
          BY <1>0, <3>1, <4>1, <4>2, SL!XackFacts
    <3>3. \A k : /\ OpenIn(validatedData', k) => OpenIn(validatedData, k)
                 /\ k # j => (OpenIn(validatedData', k) <=> OpenIn(validatedData, k))
      <4>1. /\ validatedData.log[i].job = j /\ validatedData'.log = validatedData.log
            /\ C!Unacked(validatedData') = C!Unacked(validatedData) \ {i}
          BY <2>3, <3>2, SameStreams
      <4> QED
          BY <4>1, OpenXack
    <3>4. Known(j)'
      <4>1. i \in C!Ids(validatedData)' /\ j = validatedData'.log[i].job
          BY <2>3, <3>2 DEF C!Ids
      <4> QED
          BY <4>1 DEF EntriesKnown, Streams
    <3>5. \A k : Outcome(k)' <=> Outcome(k)
        BY <3>1, OpenElsewhere
    <3> QED
        BY <1>0, <1>1, <3>3, <3>4, <3>5, InFlightParts, TargetStep
  <2> QED
      BY <1>4, <2>6, <2>7, <2>8
<1> QED
    BY <1>0, <1>2, <1>3, <1>4, StoreCases

LEMMA DeliveryStep ==
    ASSUME PipeCore, EntriesKnown, EntriesKnown', [Next]_vars
    PROVE  [Promise!Next]_(Promise!vars)
<1>1. CASE CrawlStep \/ ProcessStage \/ ValidateStage \/ StoreStage
    BY <1>1, CrawlDelivery, ProcessDelivery, ValidateDelivery, StoreDelivery
<1>2. CASE UNCHANGED vars
  <2>1. /\ crawlJobs' = crawlJobs /\ rawData' = rawData /\ cleanData' = cleanData
        /\ validatedData' = validatedData /\ dead' = dead /\ rows' = rows /\ torn' = torn
        /\ UNCHANGED <<processPc, processCur>>
      BY <1>2 DEF vars, processVars, storeVars
  <2>2. (\A k : InFlight(k)' <=> InFlight(k)) /\ \A k : Outcome(k)' <=> Outcome(k)
      BY <2>1, OpenElsewhere, CarriedSame, InFlightParts
  <2> QED
      BY <2>1, <2>2, TargetStutter
<1> QED
    BY <1>1, <1>2 DEF Next, CrawlStep

LEMMA DeliveryInit == Init => Promise!Init
<1> SUFFICES ASSUME Init
             PROVE  Promise!Init
    OBVIOUS
<1>1. /\ crawlJobs = C!EmptyStream /\ rawData = C!EmptyStream
      /\ cleanData = C!EmptyStream /\ validatedData = C!EmptyStream
      /\ dead = {} /\ torn = {} /\ rows = [j \in Jobs |-> 0]
      /\ processPc = [w \in Processors |-> "claim"]
    BY DEF Init, C!Init, P!Init, V!Init, S!Init, C!LoopInit, P!LoopInit, V!LoopInit, S!LoopInit,
           C!EmptyStream, P!EmptyStream, V!EmptyStream, S!EmptyStream
<1>2. C!Unacked(C!EmptyStream) = {}
  <2>1. VL!Unacked(VL!EmptyStream) = {}
    <3>1. VL!Ids(VL!EmptyStream) = {}
        BY StageAssumptions, VL!EmptyStreamFacts
    <3> HIDE DEF VL!EmptyStream
    <3> QED
        BY <3>1 DEF VL!Unacked
  <2>2. VL!EmptyStream = C!EmptyStream
      BY DEF VL!EmptyStream, C!EmptyStream
  <2> QED
      BY <2>1, <2>2, SameStreams
<1>3. \A k \in Jobs : ~InFlight(k) /\ ~Outcome(k) /\ ~Torn(k)
    BY <1>1, <1>2 DEF InFlight, Streams, OpenIn, P!Carrying, Outcome, Dead, Torn
<1> QED
    BY <1>3 DEF Promise!Init, OpenTargets, SettledTargets, LostTargets, Outcome

\* The pipeline, from create_mission to the store, delivers every target at least once:
\* crashes, races and redeliveries of its stages add no way to drop one, but for the
\* processor that stops between SADD and XADD.
THEOREM DeliversAtLeastOnce == Spec => SafeDelivery
<1>1. IndInv => PipeCore /\ EntriesKnown
    BY InvCases, KnownNow
<1>2. (IndInv => PipeCore /\ EntriesKnown)'
    BY <1>1, PTL
<1>3. IndInv /\ IndInv' /\ [Next]_vars => [Promise!Next]_(Promise!vars)
    BY <1>1, <1>2, DeliveryStep
<1> QED
    BY <1>3, Invariance, DeliveryInit, PTL DEF Spec, SafeDelivery, Promise!Spec

=============================================================================
