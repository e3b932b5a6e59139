------------------------------ MODULE CrawlerProofs ------------------------------
(***************************************************************************)
(* Safety of the crawler stage for every number of workers, jobs, domains, *)
(* retries and faults.  CoreInv of Crawler is inductive; it holds the type *)
(* invariant, the bookkeeping of entries from which NoJobLost follows, and *)
(* RetriesExhausted and TTLOwedWithoutFaults themselves.  From NoJobLost   *)
(* follows that the stage implements AtLeastOnce, fairness apart.  So is   *)
(* IndInv, CoreInv with OutcomeInv, from which OneOutcomeWithoutFaults     *)
(* follows.  The last section is what a pipeline needs of the stage.       *)
(***************************************************************************)
EXTENDS Crawler, StreamWorkerProofs, WellFoundedInduction

PastFetch == {"publish", "ackOk", "setCircuit", "expireCircuit", "retry"}

\* The streams and sets that only ever grow.
Grows ==
    /\ Ids(q) \subseteq Ids(q') /\ \A i \in Ids(q) : q'.log[i] = q.log[i]
    /\ Ids(raw) \subseteq Ids(raw') /\ \A i \in Ids(raw) : raw'.log[i] = raw.log[i]
    /\ dead \subseteq dead'
    /\ \A j \in Jobs : tried[j] \subseteq tried'[j]

\* The facts about the labels and constants that the loop's lemmas ask for.
LEMMA LabelFacts ==
    /\ {"start"} \subseteq HandlerLabels
    /\ {"claim", "read"} \cap HandlerLabels = {}
    /\ Acking \subseteq HandlerLabels
    /\ PastFetch \subseteq HandlerLabels
BY DEF HandlerLabels, Acking, PastFetch

\* A handler's message is an envelope of its input stream.
LEMMA MsgFacts ==
    ASSUME TypeOK, WorkInv(HandlerLabels), NEW w \in Workers, pc[w] \in HandlerLabels
    PROVE  /\ cur[w] \in Ids(q)
           /\ Msg(w) \in Envelope
           /\ Msg(w).job \in Jobs /\ Msg(w).retry \in 0 .. MaxRetries
           /\ Domain(w) \in Domains
<1>1. q \in StreamOf(Envelope) /\ q.last \in Nat
    BY StreamFields DEF TypeOK, LoopTypeOK
<1>2. cur[w] \in 1 .. q.last
    BY <1>1 DEF WorkInv
<1>3. cur[w] \in Ids(q) /\ Msg(w) \in Envelope
    BY <1>1, <1>2, EntryFacts DEF Msg
<1> QED
    BY <1>3, CrawlerAssumption DEF Envelope, Domain

-----------------------------------------------------------------------------
(* How each part of the invariant is preserved.                            *)

\* What was handed on stays handed on.
LEMMA HandedOnStable ==
    ASSUME Grows, NEW i \in Ids(q), HandedOn(i)
    PROVE  HandedOn(i)'
BY DEF Grows, HandedOn, Published, Dead

LEMMA EntryPreserved ==
    ASSUME TypeOK, WorkInv(HandlerLabels), EntryInv, Grows,
           \A i \in Ids(q') : i \in Ids(q) \/ i \in Unacked(q'),
           \A i \in Unacked(q) : i \in Unacked(q') \/ HandedOn(i)',
           \A x \in Workers : pc'[x] \in Acking =>
               (pc[x] \in Acking /\ cur'[x] = cur[x]) \/ HandedOn(cur[x])'
    PROVE  EntryInv'
<1>1. ASSUME NEW i \in Ids(q')
      PROVE  i \in Unacked(q') \/ HandedOn(i)'
  <2>1. CASE i \in Ids(q) /\ HandedOn(i)
      BY <2>1, HandedOnStable
  <2>2. CASE i \in Ids(q) /\ i \in Unacked(q)
      BY <2>2
  <2> QED
      BY <1>1, <2>1, <2>2 DEF EntryInv
<1>2. ASSUME NEW x \in Workers, pc'[x] \in Acking
      PROVE  HandedOn(cur[x])'
  <2>1. CASE pc[x] \in Acking /\ cur'[x] = cur[x]
    <3>1. cur[x] \in Ids(q) /\ HandedOn(cur[x])
        BY <2>1, MsgFacts, LabelFacts DEF EntryInv, Acking
    <3>2. ASSUME NEW i \in Ids(q), i = cur[x]
          PROVE  HandedOn(i)'
        BY <3>1, <3>2, HandedOnStable
    <3> QED
        BY <2>1, <3>1, <3>2
  <2> QED
      BY <1>2, <2>1
<1> QED
    BY <1>1, <1>2 DEF EntryInv, Acking

LEMMA TryPreserved ==
    ASSUME TypeOK, WorkInv(HandlerLabels), TryInv, Grows,
           \A i \in Ids(q') \ Ids(q) :
               0 .. q'.log[i].retry - 1 \subseteq tried'[q'.log[i].job],
           \A x \in Workers : pc'[x] \in PastFetch =>
               \/ pc[x] \in PastFetch /\ cur'[x] = cur[x]
               \/ Msg(x)'.retry \in tried'[Msg(x)'.job]
    PROVE  TryInv'
<1>1. ASSUME NEW i \in Ids(q')
      PROVE  0 .. q'.log[i].retry - 1 \subseteq tried'[q'.log[i].job]
  <2>1. CASE i \in Ids(q)
    <3>1. q.log[i] \in Envelope
        BY <2>1, EntryFacts DEF TypeOK, LoopTypeOK
    <3>2. q.log[i].job \in Jobs
        BY <3>1 DEF Envelope
    <3>3. q'.log[i] = q.log[i] /\ tried[q.log[i].job] \subseteq tried'[q.log[i].job]
        BY <2>1, <3>2 DEF Grows
    <3> QED
        BY <2>1, <3>3 DEF TryInv
  <2> QED
      BY <1>1, <2>1
<1>2. ASSUME NEW x \in Workers, pc'[x] \in PastFetch
      PROVE  Msg(x)'.retry \in tried'[Msg(x)'.job]
  <2>1. CASE pc[x] \in PastFetch /\ cur'[x] = cur[x]
    <3>1. cur[x] \in Ids(q) /\ Msg(x).job \in Jobs
        BY <2>1, MsgFacts, LabelFacts
    <3>2. Msg(x)' = Msg(x)
        BY <2>1, <3>1 DEF Msg, Grows
    <3> QED
        BY <2>1, <3>1, <3>2 DEF TryInv, Grows, PastFetch
  <2> QED
      BY <1>2, <2>1
<1> QED
    BY <1>1, <1>2 DEF TryInv, PastFetch

LEMMA RetriesPreserved ==
    ASSUME TypeOK', RetriesExhausted, Grows,
           \A j \in Jobs : [job |-> j, reason |-> "failed"] \in dead' =>
               \/ [job |-> j, reason |-> "failed"] \in dead
               \/ 0 .. MaxRetries \subseteq tried'[j]
    PROVE  RetriesExhausted'
BY DEF TypeOK, RetriesExhausted, Grows

LEMMA TTLPreserved ==
    ASSUME TypeOK, WorkInv(HandlerLabels), TTLOwedWithoutFaults, Grows,
           faults > 0 => faults' > 0,
           \A d \in Domains : circuit'[d] = "openNoTTL" =>
               \/ circuit[d] = "openNoTTL"
               \/ \E x \in Workers : pc'[x] = "expireCircuit" /\ Domain(x)' = d,
           \A x \in Workers : pc[x] = "expireCircuit" =>
               \/ pc'[x] = "expireCircuit" /\ cur'[x] = cur[x]
               \/ faults' > 0
               \/ circuit'[Domain(x)] # "openNoTTL"
    PROVE  TTLOwedWithoutFaults'
<1> SUFFICES ASSUME NEW d \in Domains, circuit'[d] = "openNoTTL", ~(faults' > 0)
             PROVE  \E x \in Workers : pc'[x] = "expireCircuit" /\ Domain(x)' = d
    BY DEF TTLOwedWithoutFaults
<1>1. CASE circuit[d] = "openNoTTL"
  <2>1. PICK x \in Workers : pc[x] = "expireCircuit" /\ Domain(x) = d
      BY <1>1 DEF TTLOwedWithoutFaults
  <2>2. pc'[x] = "expireCircuit" /\ cur'[x] = cur[x]
      BY <2>1
  <2>3. cur[x] \in Ids(q)
      BY <2>1, MsgFacts DEF HandlerLabels
  <2>4. Domain(x)' = Domain(x)
      BY <2>2, <2>3 DEF Domain, Msg, Grows
  <2> QED
      BY <2>1, <2>2, <2>4
<1> QED
    BY <1>1

-----------------------------------------------------------------------------
(* Steps of the same kind.                                                 *)

\* The type of the stage's own variables.
OwnTypeOK ==
    /\ attempt \in [Workers -> Nat]
    /\ circuit \in [Domains -> Circuits]
    /\ raw \in StreamOf(RawMessage)
    /\ dead \subseteq DeadLetter
    /\ tried \in [Jobs -> SUBSET (0 .. MaxRetries)]

LEMMA TypeParts == TypeOK <=> LoopTypeOK(Envelope, HandlerLabels) /\ OwnTypeOK
BY DEF TypeOK, OwnTypeOK

\* A step that adds and finishes no entry and moves workers, if any, to the
\* loop or to the start of a handler.
LEMMA QuietStep ==
    ASSUME CoreInv, TypeOK', q'.log = q.log, Unacked(q') = Unacked(q),
           UNCHANGED <<raw, dead, tried>>,
           \A x \in Workers : \/ pc'[x] \in {"claim", "read", "start"}
                              \/ pc'[x] = pc[x] /\ cur'[x] = cur[x]
    PROVE  Grows /\ EntryInv' /\ TryInv' /\ RetriesExhausted'
<1>1. Grows /\ Ids(q') = Ids(q)
    BY DEF Grows, Ids
<1>2. \A x \in Workers :
          pc'[x] \in Acking \cup PastFetch => pc'[x] = pc[x] /\ cur'[x] = cur[x]
    BY DEF Acking, PastFetch
<1>3. EntryInv'
    BY <1>1, <1>2, EntryPreserved DEF CoreInv
<1>4. TryInv'
    BY <1>1, <1>2, TryPreserved DEF CoreInv
<1>5. RetriesExhausted'
    BY <1>1, RetriesPreserved DEF CoreInv
<1> QED
    BY <1>1, <1>3, <1>4, <1>5

\* A handler's step that leaves its input stream alone.
LEMMA PlainStep ==
    ASSUME CoreInv, NEW w \in Workers, pc[w] \in HandlerLabels,
           NEW label \in HandlerLabels, Goto(w, label), InHandler,
           q' = q, faults' \in 0 .. MaxFaults, OwnTypeOK', Grows,
           label \in Acking => HandedOn(cur[w])',
           label \in PastFetch =>
               pc[w] \in PastFetch \/ Msg(w).retry \in tried'[Msg(w).job]
    PROVE  /\ TypeOK' /\ WorkInv(HandlerLabels)' /\ EntryInv' /\ TryInv'
           /\ pc'[w] = label
           /\ \A x \in Workers : x # w => pc'[x] = pc[x]
<1>1. /\ TypeOK' /\ WorkInv(HandlerLabels)'
      /\ pc'[w] = label
      /\ \A x \in Workers : x # w => pc'[x] = pc[x]
  <2>1. LoopTypeOK(Envelope, HandlerLabels) /\ WorkInv(HandlerLabels)
      BY TypeParts DEF CoreInv
  <2>2. q' \in StreamOf(Envelope) /\ q'.last = q.last
      BY <2>1 DEF LoopTypeOK
  <2>3. /\ LoopTypeOK(Envelope, HandlerLabels)' /\ WorkInv(HandlerLabels)'
        /\ pc'[w] = label
        /\ \A x \in Workers : x # w => pc'[x] = pc[x]
      BY <2>1, <2>2, HandlerMoveFacts DEF InHandler
  <2> QED
      BY <2>3 DEF TypeOK, LoopTypeOK, OwnTypeOK
<1>2. cur' = cur /\ \A x \in Workers : Msg(x)' = Msg(x)
    BY DEF InHandler, Msg
<1>3. EntryInv'
  <2>1. \A x \in Workers : pc'[x] \in Acking =>
            (pc[x] \in Acking /\ cur'[x] = cur[x]) \/ HandedOn(cur[x])'
      BY <1>1, <1>2
  <2>2. TypeOK /\ WorkInv(HandlerLabels) /\ EntryInv
      BY DEF CoreInv
  <2>3. /\ \A i \in Ids(q') : i \in Ids(q) \/ i \in Unacked(q')
        /\ \A i \in Unacked(q) : i \in Unacked(q') \/ HandedOn(i)'
      OBVIOUS
  <2> QED
      BY <2>1, <2>2, <2>3, EntryPreserved
<1>4. TryInv'
  <2>1. \A x \in Workers : pc'[x] \in PastFetch =>
            \/ pc[x] \in PastFetch /\ cur'[x] = cur[x]
            \/ Msg(x)'.retry \in tried'[Msg(x)'.job]
      BY <1>1, <1>2
  <2>2. TypeOK /\ WorkInv(HandlerLabels) /\ TryInv
      BY DEF CoreInv
  <2>3. Ids(q') \ Ids(q) = {}
      OBVIOUS
  <2> QED
      BY <2>1, <2>2, <2>3, TryPreserved
<1> QED
    BY <1>1, <1>3, <1>4

-----------------------------------------------------------------------------
(* Every action preserves the invariant.                                   *)

LEMMA InvParts ==
    ASSUME CoreInv
    PROVE  /\ TypeOK /\ WorkInv(HandlerLabels) /\ EntryInv /\ TryInv
           /\ RetriesExhausted /\ TTLOwedWithoutFaults
           /\ LoopTypeOK(Envelope, HandlerLabels) /\ OwnTypeOK
           /\ q \in StreamOf(Envelope) /\ faults \in 0 .. MaxFaults
BY TypeParts DEF CoreInv, LoopTypeOK

LEMMA CheckCircuitStep ==
    ASSUME CoreInv, NEW w \in Workers, CheckCircuit(w)
    PROVE  CoreInv'
<1> DEFINE label == IF circuit[Domain(w)] = "closed" THEN "fetch" ELSE "buryOpen"
<1>1. /\ pc[w] = "start" /\ pc[w] \in HandlerLabels
      /\ label \in HandlerLabels /\ label \notin Acking /\ label \notin PastFetch
      /\ Goto(w, label) /\ InHandler
      /\ UNCHANGED <<q, faults, attempt, circuit, raw, dead, tried>>
    BY DEF CheckCircuit, HandlerLabels, Acking, PastFetch
<1>2. Grows /\ OwnTypeOK'
    BY <1>1, InvParts DEF Grows, OwnTypeOK
<1> HIDE DEF label
<1>3. /\ TypeOK' /\ WorkInv(HandlerLabels)' /\ EntryInv' /\ TryInv'
      /\ \A x \in Workers : x # w => pc'[x] = pc[x]
    BY <1>1, <1>2, InvParts, PlainStep
<1>4. RetriesExhausted'
    BY <1>1, <1>2, <1>3, InvParts, RetriesPreserved
<1>5. TTLOwedWithoutFaults'
    BY <1>1, <1>2, <1>3, InvParts, TTLPreserved DEF InHandler
<1> QED
    BY <1>3, <1>4, <1>5 DEF CoreInv

LEMMA BuryOpenCircuitStep ==
    ASSUME CoreInv, NEW w \in Workers, BuryOpenCircuit(w)
    PROVE  CoreInv'
<1>1. /\ pc[w] = "buryOpen" /\ pc[w] \in HandlerLabels
      /\ "ackOpen" \in HandlerLabels /\ "ackOpen" \notin PastFetch
      /\ Goto(w, "ackOpen") /\ InHandler
      /\ UNCHANGED <<q, faults, attempt, circuit, raw, tried>>
      /\ dead' = dead \cup {[job |-> Msg(w).job, reason |-> "circuit_open"]}
    BY DEF BuryOpenCircuit, HandlerLabels, PastFetch
<1>2. Grows
    BY <1>1 DEF Grows
<1>3. OwnTypeOK'
    BY <1>1, InvParts, MsgFacts DEF OwnTypeOK, DeadLetter, Reasons
<1>4. HandedOn(cur[w])'
  <2>1. Msg(w)' = Msg(w)
      BY <1>1 DEF Msg, InHandler
  <2>2. [job |-> Msg(w).job, reason |-> "circuit_open"] \in dead'
      BY <1>1
  <2>3. Dead(Msg(w).job)'
      BY <2>1, <2>2 DEF Dead
  <2> QED
      BY <2>3 DEF HandedOn, Msg
<1>5. /\ TypeOK' /\ WorkInv(HandlerLabels)' /\ EntryInv' /\ TryInv'
      /\ \A x \in Workers : x # w => pc'[x] = pc[x]
    BY <1>1, <1>2, <1>3, <1>4, InvParts, PlainStep
<1>6. RetriesExhausted'
    BY <1>1, <1>2, <1>5, InvParts, RetriesPreserved
<1>7. TTLOwedWithoutFaults'
    BY <1>1, <1>2, <1>5, InvParts, TTLPreserved DEF InHandler
<1> QED
    BY <1>5, <1>6, <1>7 DEF CoreInv

\* FetchOk, FetchRateLimited and FetchFails.
LEMMA LeaveFetchStep ==
    ASSUME CoreInv, NEW w \in Workers,
           NEW label \in {"publish", "setCircuit", "retry"}, LeaveFetch(w, label)
    PROVE  CoreInv'
<1>1. /\ pc[w] = "fetch" /\ pc[w] \in HandlerLabels
      /\ label \in HandlerLabels /\ label \notin Acking
      /\ Goto(w, label) /\ InHandler
      /\ UNCHANGED <<q, faults, circuit, raw, dead>>
      /\ attempt' = [attempt EXCEPT ![w] = 0]
      /\ tried' = [tried EXCEPT ![Msg(w).job] = @ \cup {Msg(w).retry}]
    BY DEF LeaveFetch, RecordTry, HandlerLabels, Acking
<1>2. /\ Msg(w).job \in Jobs /\ Msg(w).retry \in 0 .. MaxRetries
      /\ attempt \in [Workers -> Nat] /\ tried \in [Jobs -> SUBSET (0 .. MaxRetries)]
    BY <1>1, InvParts, MsgFacts DEF OwnTypeOK
<1>3. Grows /\ Msg(w).retry \in tried'[Msg(w).job]
    BY <1>1, <1>2 DEF Grows
<1>4. OwnTypeOK'
    BY <1>1, <1>2, InvParts DEF OwnTypeOK
<1>5. /\ TypeOK' /\ WorkInv(HandlerLabels)' /\ EntryInv' /\ TryInv'
      /\ \A x \in Workers : x # w => pc'[x] = pc[x]
    BY <1>1, <1>3, <1>4, InvParts, PlainStep
<1>6. RetriesExhausted'
    BY <1>1, <1>3, <1>5, InvParts, RetriesPreserved
<1>7. TTLOwedWithoutFaults'
    BY <1>1, <1>3, <1>5, InvParts, TTLPreserved DEF InHandler
<1> QED
    BY <1>5, <1>6, <1>7 DEF CoreInv

LEMMA FetchAgainStep ==
    ASSUME CoreInv, NEW w \in Workers, FetchAgain(w)
    PROVE  CoreInv'
<1>1. /\ pc[w] = "fetch" /\ pc[w] \in HandlerLabels
      /\ "fetch" \notin Acking /\ "fetch" \notin PastFetch /\ "fetch" \in HandlerLabels
      /\ InHandler
      /\ UNCHANGED <<q, pc, faults, circuit, raw, dead>>
      /\ attempt' = [attempt EXCEPT ![w] = @ + 1]
      /\ tried' = [tried EXCEPT ![Msg(w).job] = @ \cup {Msg(w).retry}]
    BY DEF FetchAgain, RecordTry, HandlerLabels, Acking, PastFetch
<1>2. /\ Msg(w).job \in Jobs /\ Msg(w).retry \in 0 .. MaxRetries
      /\ attempt \in [Workers -> Nat] /\ tried \in [Jobs -> SUBSET (0 .. MaxRetries)]
    BY <1>1, InvParts, MsgFacts DEF OwnTypeOK
<1>3. Grows
    BY <1>1, <1>2 DEF Grows
<1>4. OwnTypeOK'
    BY <1>1, <1>2, InvParts DEF OwnTypeOK
<1>5. Goto(w, "fetch")
    BY <1>1, InvParts DEF Goto, LoopTypeOK
<1>6. /\ TypeOK' /\ WorkInv(HandlerLabels)' /\ EntryInv' /\ TryInv'
    BY <1>1, <1>3, <1>4, <1>5, InvParts, PlainStep
<1>7. RetriesExhausted'
    BY <1>1, <1>3, <1>6, InvParts, RetriesPreserved
<1>8. TTLOwedWithoutFaults'
    BY <1>1, <1>3, InvParts, TTLPreserved DEF InHandler
<1> QED
    BY <1>6, <1>7, <1>8 DEF CoreInv

\* Adding to raw_data keeps what is published, and publishes the job.
LEMMA PublishFacts ==
    ASSUME OwnTypeOK, NEW j \in Jobs, NEW c \in Contents,
           raw' = Xadd(raw, [job |-> j, content |-> c])
    PROVE  /\ raw' \in StreamOf(RawMessage)
           /\ Ids(raw) \subseteq Ids(raw')
           /\ \A i \in Ids(raw) : raw'.log[i] = raw.log[i]
           /\ \E i \in Ids(raw') : raw'.log[i].job = j
<1>1. raw \in StreamOf(RawMessage) /\ [job |-> j, content |-> c] \in RawMessage
    BY DEF OwnTypeOK, RawMessage
<1> QED
    BY <1>1, XaddFacts

LEMMA PublishRawStep ==
    ASSUME CoreInv, NEW w \in Workers, PublishRaw(w)
    PROVE  CoreInv'
<1>1. /\ pc[w] = "publish" /\ pc[w] \in HandlerLabels /\ pc[w] \in PastFetch
      /\ "ackOk" \in HandlerLabels
      /\ Goto(w, "ackOk") /\ InHandler
      /\ UNCHANGED <<q, faults, attempt, circuit, dead, tried>>
    BY DEF PublishRaw, HandlerLabels, PastFetch
<1>2. PICK c \in Contents : raw' = Xadd(raw, [job |-> Msg(w).job, content |-> c])
    BY DEF PublishRaw
<1>3. Msg(w).job \in Jobs
    BY <1>1, InvParts, MsgFacts
<1>4. /\ raw' \in StreamOf(RawMessage)
      /\ Ids(raw) \subseteq Ids(raw')
      /\ \A i \in Ids(raw) : raw'.log[i] = raw.log[i]
      /\ \E i \in Ids(raw') : raw'.log[i].job = Msg(w).job
    BY <1>2, <1>3, InvParts, PublishFacts
<1>5. Grows
    BY <1>1, <1>4 DEF Grows
<1>6. OwnTypeOK'
    BY <1>1, <1>4, InvParts DEF OwnTypeOK
<1>7. HandedOn(cur[w])'
  <2>1. Msg(w)' = Msg(w)
      BY <1>1 DEF Msg, InHandler
  <2>2. Published(Msg(w).job)'
      BY <1>4, <2>1 DEF Published
  <2> QED
      BY <2>2 DEF HandedOn, Msg
<1>8. /\ TypeOK' /\ WorkInv(HandlerLabels)' /\ EntryInv' /\ TryInv'
      /\ \A x \in Workers : x # w => pc'[x] = pc[x]
    BY <1>1, <1>5, <1>6, <1>7, InvParts, PlainStep
<1>9. RetriesExhausted'
    BY <1>1, <1>5, <1>8, InvParts, RetriesPreserved
<1>10. TTLOwedWithoutFaults'
    BY <1>1, <1>5, <1>8, InvParts, TTLPreserved DEF InHandler
<1> QED
    BY <1>8, <1>9, <1>10 DEF CoreInv

\* One more fault stays within the bound.
LEMMA SpendFaultFacts ==
    ASSUME CoreInv, SpendFault
    PROVE  faults' \in 0 .. MaxFaults /\ faults' > 0
<1>1. faults \in 0 .. MaxFaults /\ MaxFaults \in Nat
    BY InvParts, LoopAssumption
<1> QED
    BY <1>1 DEF SpendFault

LEMMA PublishFailsStep ==
    ASSUME CoreInv, NEW w \in Workers, PublishFails(w)
    PROVE  CoreInv'
<1>1. /\ pc[w] = "publish" /\ pc[w] \in HandlerLabels /\ pc[w] \in PastFetch
      /\ "retry" \in HandlerLabels /\ "retry" \notin Acking
      /\ Goto(w, "retry") /\ InHandler
      /\ UNCHANGED <<q, attempt, circuit, dead, tried>>
      /\ faults' \in 0 .. MaxFaults /\ faults' > 0
    BY SpendFaultFacts DEF PublishFails, HandlerLabels, PastFetch, Acking
<1>2. Msg(w).job \in Jobs
    BY <1>1, InvParts, MsgFacts
<1>3. /\ raw' \in StreamOf(RawMessage)
      /\ Ids(raw) \subseteq Ids(raw')
      /\ \A i \in Ids(raw) : raw'.log[i] = raw.log[i]
  <2>1. CASE raw' = raw
      BY <2>1, InvParts DEF OwnTypeOK
  <2>2. CASE \E c \in Contents : raw' = Xadd(raw, [job |-> Msg(w).job, content |-> c])
      BY <1>2, <2>2, InvParts, PublishFacts
  <2> QED
      BY <2>1, <2>2 DEF PublishFails
<1>4. Grows
    BY <1>1, <1>3 DEF Grows
<1>5. OwnTypeOK'
    BY <1>1, <1>3, InvParts DEF OwnTypeOK
<1>6. TypeOK' /\ WorkInv(HandlerLabels)' /\ EntryInv' /\ TryInv'
    BY <1>1, <1>4, <1>5, InvParts, PlainStep
<1>7. RetriesExhausted'
    BY <1>1, <1>4, <1>6, InvParts, RetriesPreserved
<1>8. TTLOwedWithoutFaults'
    BY <1>1 DEF TTLOwedWithoutFaults
<1> QED
    BY <1>6, <1>7, <1>8 DEF CoreInv

LEMMA SetCircuitStep ==
    ASSUME CoreInv, NEW w \in Workers, SetCircuit(w)
    PROVE  CoreInv'
<1>1. /\ pc[w] = "setCircuit" /\ pc[w] \in HandlerLabels /\ pc[w] \in PastFetch
      /\ "expireCircuit" \in HandlerLabels /\ "expireCircuit" \notin Acking
      /\ Goto(w, "expireCircuit") /\ InHandler
      /\ UNCHANGED <<q, faults, attempt, raw, dead, tried>>
      /\ circuit' = [circuit EXCEPT ![Domain(w)] = IF @ = "open" THEN "open" ELSE "openNoTTL"]
    BY DEF SetCircuit, HandlerLabels, PastFetch, Acking
<1>2. Grows
    BY <1>1 DEF Grows
<1>3. circuit \in [Domains -> Circuits] /\ OwnTypeOK'
    BY <1>1, InvParts DEF OwnTypeOK, Circuits
<1>4. /\ TypeOK' /\ WorkInv(HandlerLabels)' /\ EntryInv' /\ TryInv'
      /\ pc'[w] = "expireCircuit"
      /\ \A x \in Workers : x # w => pc'[x] = pc[x]
    BY <1>1, <1>2, <1>3, InvParts, PlainStep
<1>5. RetriesExhausted'
    BY <1>1, <1>2, <1>4, InvParts, RetriesPreserved
<1>6. TTLOwedWithoutFaults'
  <2>1. Domain(w)' = Domain(w)
      BY <1>1 DEF Domain, Msg, InHandler
  <2>2. \A d \in Domains : circuit'[d] = "openNoTTL" =>
            circuit[d] = "openNoTTL" \/ Domain(w)' = d
      BY <1>1, <1>3, <2>1
  <2>3. \A d \in Domains : circuit'[d] = "openNoTTL" =>
            \/ circuit[d] = "openNoTTL"
            \/ \E x \in Workers : pc'[x] = "expireCircuit" /\ Domain(x)' = d
      BY <1>4, <2>2
  <2>4. \A x \in Workers : pc[x] = "expireCircuit" =>
            pc'[x] = "expireCircuit" /\ cur'[x] = cur[x]
      BY <1>1, <1>4 DEF InHandler
  <2> QED
      BY <1>1, <1>2, <2>3, <2>4, InvParts, TTLPreserved
<1> QED
    BY <1>4, <1>5, <1>6 DEF CoreInv

LEMMA ExpireCircuitStep ==
    ASSUME CoreInv, NEW w \in Workers, ExpireCircuit(w)
    PROVE  CoreInv'
<1>1. /\ pc[w] = "expireCircuit" /\ pc[w] \in HandlerLabels /\ pc[w] \in PastFetch
      /\ "retry" \in HandlerLabels /\ "retry" \notin Acking
      /\ Goto(w, "retry") /\ InHandler
      /\ UNCHANGED <<q, faults, attempt, raw, dead, tried>>
      /\ circuit' = [circuit EXCEPT ![Domain(w)] = IF @ = "closed" THEN "closed" ELSE "open"]
    BY DEF ExpireCircuit, HandlerLabels, PastFetch, Acking
<1>2. Grows
    BY <1>1 DEF Grows
<1>3. circuit \in [Domains -> Circuits] /\ OwnTypeOK'
    BY <1>1, InvParts DEF OwnTypeOK, Circuits
<1>4. /\ TypeOK' /\ WorkInv(HandlerLabels)' /\ EntryInv' /\ TryInv'
      /\ \A x \in Workers : x # w => pc'[x] = pc[x]
    BY <1>1, <1>2, <1>3, InvParts, PlainStep
<1>5. RetriesExhausted'
    BY <1>1, <1>2, <1>4, InvParts, RetriesPreserved
<1>6. TTLOwedWithoutFaults'
  <2>1. Domain(w) \in Domains
      BY <1>1, InvParts, MsgFacts
  <2>2. /\ circuit'[Domain(w)] # "openNoTTL"
        /\ \A d \in Domains : circuit'[d] = "openNoTTL" => circuit[d] = "openNoTTL"
      BY <1>1, <1>3, <2>1
  <2>3. \A x \in Workers : pc[x] = "expireCircuit" =>
            \/ pc'[x] = "expireCircuit" /\ cur'[x] = cur[x]
            \/ circuit'[Domain(x)] # "openNoTTL"
      BY <1>1, <1>4, <2>2 DEF InHandler
  <2> QED
      BY <1>1, <1>2, <2>2, <2>3, InvParts, TTLPreserved
<1> QED
    BY <1>4, <1>5, <1>6 DEF CoreInv

LEMMA BuryFailedStep ==
    ASSUME CoreInv, NEW w \in Workers, BuryFailed(w)
    PROVE  CoreInv'
<1> DEFINE letter == [job |-> Msg(w).job, reason |-> "failed"]
<1>1. /\ pc[w] = "retry" /\ pc[w] \in HandlerLabels /\ pc[w] \in PastFetch
      /\ "ack" \in HandlerLabels /\ "ack" \notin PastFetch
      /\ Goto(w, "ack") /\ InHandler
      /\ UNCHANGED <<q, faults, attempt, circuit, raw, tried>>
      /\ dead' = dead \cup {letter}
      /\ Msg(w).retry >= MaxRetries
    BY DEF BuryFailed, HandlerLabels, PastFetch
<1>2. Grows
    BY <1>1 DEF Grows
<1>3. /\ cur[w] \in Ids(q) /\ Msg(w).job \in Jobs /\ Msg(w).retry \in 0 .. MaxRetries
      /\ MaxRetries \in Nat
    BY <1>1, InvParts, MsgFacts, CrawlerAssumption
<1>4. OwnTypeOK'
    BY <1>1, <1>3, InvParts DEF OwnTypeOK, DeadLetter, Reasons
<1>5. HandedOn(cur[w])'
  <2>1. Msg(w)' = Msg(w)
      BY <1>1 DEF Msg, InHandler
  <2>2. letter \in dead'
      BY <1>1
  <2>3. Dead(Msg(w).job)'
      BY <2>1, <2>2 DEF Dead
  <2> QED
      BY <2>3 DEF HandedOn, Msg
<1>6. /\ TypeOK' /\ WorkInv(HandlerLabels)' /\ EntryInv' /\ TryInv'
      /\ \A x \in Workers : x # w => pc'[x] = pc[x]
    BY <1>1, <1>2, <1>4, <1>5, InvParts, PlainStep
<1>7. RetriesExhausted'
  <2>1. Msg(w).retry \in tried[Msg(w).job]
      BY <1>1, InvParts DEF TryInv
  <2>2. 0 .. Msg(w).retry - 1 \subseteq tried[Msg(w).job]
      BY <1>3, InvParts DEF TryInv, Msg
  <2>3. Msg(w).retry = MaxRetries
      BY <1>1, <1>3
  <2>4. 0 .. MaxRetries \subseteq tried'[Msg(w).job]
      BY <1>1, <1>3, <2>1, <2>2, <2>3
  <2>5. \A j \in Jobs : [job |-> j, reason |-> "failed"] \in dead' =>
            [job |-> j, reason |-> "failed"] \in dead \/ j = Msg(w).job
      BY <1>1
  <2> QED
      BY <1>2, <1>6, <2>4, <2>5, InvParts, RetriesPreserved
<1>8. TTLOwedWithoutFaults'
    BY <1>1, <1>2, <1>6, InvParts, TTLPreserved DEF InHandler
<1> QED
    BY <1>6, <1>7, <1>8 DEF CoreInv

\* The entry of a worker that is acknowledging has been handed on.
LEMMA AckOkFailsStep ==
    ASSUME CoreInv, NEW w \in Workers, AckOkFails(w)
    PROVE  CoreInv'
<1>1. /\ pc[w] = "ackOk" /\ pc[w] \in HandlerLabels /\ pc[w] \in PastFetch
      /\ "retry" \in HandlerLabels /\ "retry" \notin Acking
      /\ Goto(w, "retry") /\ InHandler
      /\ UNCHANGED <<attempt, circuit, raw, dead, tried>>
      /\ faults' \in 0 .. MaxFaults /\ faults' > 0
      /\ q' \in {q, Xack(q, cur[w])}
    BY SpendFaultFacts DEF AckOkFails, HandlerLabels, PastFetch, Acking
<1>2. cur[w] \in 1 .. q.last /\ HandedOn(cur[w])
  <2>1. WorkInv(HandlerLabels) /\ EntryInv /\ q.last \in Nat
      BY InvParts, StreamFields
  <2> QED
      BY <1>1, <2>1 DEF WorkInv, EntryInv
<1>3. /\ q' \in StreamOf(Envelope) /\ q'.log = q.log /\ q'.last = q.last
      /\ \A i \in Unacked(q) : i \in Unacked(q') \/ i = cur[w]
    BY <1>1, <1>2, InvParts, XackFacts
<1>4. Grows /\ Ids(q') = Ids(q)
    BY <1>1, <1>3 DEF Grows, Ids
<1>5. /\ LoopTypeOK(Envelope, HandlerLabels)' /\ WorkInv(HandlerLabels)'
      /\ pc'[w] = "retry"
      /\ \A x \in Workers : x # w => pc'[x] = pc[x]
    BY <1>1, <1>3, InvParts, HandlerMoveFacts DEF InHandler
<1>6. TypeOK'
    BY <1>1, <1>5, InvParts DEF TypeOK, OwnTypeOK, LoopTypeOK
<1>7. cur' = cur
    BY <1>1 DEF InHandler
<1>8. EntryInv'
  <2>1. \A i \in Unacked(q) : i \in Unacked(q') \/ HandedOn(i)'
    <3>1. ASSUME NEW i \in Ids(q), i = cur[w]
          PROVE  HandedOn(i)'
        BY <1>2, <1>4, <3>1, HandedOnStable
    <3>2. Unacked(q) \subseteq Ids(q)
        BY DEF Unacked
    <3> QED
        BY <1>3, <3>1, <3>2
  <2>2. \A x \in Workers : pc'[x] \in Acking => pc[x] \in Acking /\ cur'[x] = cur[x]
      BY <1>1, <1>5, <1>7
  <2> QED
      BY <1>4, <2>1, <2>2, InvParts, EntryPreserved
<1>9. TryInv'
  <2>1. \A x \in Workers : pc'[x] \in PastFetch => pc[x] \in PastFetch /\ cur'[x] = cur[x]
      BY <1>1, <1>5, <1>7
  <2> QED
      BY <1>4, <2>1, InvParts, TryPreserved
<1>10. RetriesExhausted'
    BY <1>1, <1>4, <1>6, InvParts, RetriesPreserved
<1>11. TTLOwedWithoutFaults'
    BY <1>1 DEF TTLOwedWithoutFaults
<1> QED
    BY <1>5, <1>6, <1>8, <1>9, <1>10, <1>11 DEF CoreInv

LEMMA AckStep ==
    ASSUME CoreInv, NEW w \in Workers, Ack(w)
    PROVE  CoreInv'
<1>1. /\ pc[w] \in Acking /\ pc[w] \in HandlerLabels /\ pc[w] # "expireCircuit"
      /\ AckAndFinish(w) /\ faults' = faults
      /\ UNCHANGED <<attempt, circuit, raw, dead, tried>>
    BY LabelFacts DEF Ack, Acking, AckAndFinish
<1>2. /\ LoopTypeOK(Envelope, HandlerLabels)' /\ WorkInv(HandlerLabels)' /\ OnlyMoves(w)
      /\ q'.log = q.log
      /\ Unacked(q') = Unacked(q) \ {cur[w]}
    BY <1>1, InvParts, LabelFacts, AckAndFinishFacts
<1>3. Grows /\ Ids(q') = Ids(q)
    BY <1>1, <1>2 DEF Grows, Ids
<1>4. TypeOK'
    BY <1>1, <1>2, InvParts DEF TypeOK, OwnTypeOK, LoopTypeOK
<1>5. \A x \in Workers : pc'[x] \in Acking \cup PastFetch => pc'[x] = pc[x] /\ cur'[x] = cur[x]
    BY <1>2 DEF OnlyMoves, Acking, PastFetch
<1>6. EntryInv'
  <2>1. cur[w] \in Ids(q) /\ HandedOn(cur[w])
      BY <1>1, InvParts, MsgFacts DEF EntryInv, Acking
  <2>2. ASSUME NEW i \in Ids(q), i = cur[w]
        PROVE  HandedOn(i)'
      BY <1>3, <2>1, <2>2, HandedOnStable
  <2>3. \A i \in Unacked(q) : i \in Unacked(q') \/ HandedOn(i)'
      BY <1>2, <2>1, <2>2
  <2> QED
      BY <1>3, <1>5, <2>3, InvParts, EntryPreserved
<1>7. TryInv'
    BY <1>3, <1>5, InvParts, TryPreserved
<1>8. RetriesExhausted'
    BY <1>1, <1>3, <1>4, InvParts, RetriesPreserved
<1>9. TTLOwedWithoutFaults'
  <2>1. \A x \in Workers : pc[x] = "expireCircuit" =>
            pc'[x] = "expireCircuit" /\ cur'[x] = cur[x]
      BY <1>1, <1>2 DEF OnlyMoves
  <2> QED
      BY <1>1, <1>3, <2>1, InvParts, TTLPreserved
<1> QED
    BY <1>2, <1>4, <1>6, <1>7, <1>8, <1>9 DEF CoreInv

\* A requeued job's new entry hands its old one on.
LEMMA RequeueStep ==
    ASSUME CoreInv, NEW w \in Workers, Requeue(w)
    PROVE  CoreInv'
<1> DEFINE again == [Msg(w) EXCEPT !.retry = @ + 1]
           new == Len(q.log) + 1
<1>1. /\ pc[w] = "retry" /\ pc[w] \in HandlerLabels /\ pc[w] \in PastFetch
      /\ "ack" \in HandlerLabels /\ "ack" \notin PastFetch
      /\ Goto(w, "ack") /\ InHandler
      /\ UNCHANGED <<faults, attempt, circuit, raw, dead, tried>>
      /\ q' = Xadd(q, again)
      /\ Msg(w).retry < MaxRetries
    BY DEF Requeue, HandlerLabels, PastFetch
<1>2. /\ cur[w] \in Ids(q) /\ Msg(w) \in Envelope
      /\ Msg(w).job \in Jobs /\ Msg(w).retry \in 0 .. MaxRetries
      /\ MaxRetries \in Nat
    BY <1>1, InvParts, MsgFacts, CrawlerAssumption
<1>3. again \in Envelope /\ again.job = Msg(w).job /\ again.retry = Msg(w).retry + 1
    BY <1>1, <1>2 DEF Envelope
<1> HIDE DEF again
<1>4. /\ q' \in StreamOf(Envelope) /\ q'.last = q.last
      /\ Ids(q') = Ids(q) \cup {new}
      /\ \A i \in Ids(q) : q'.log[i] = q.log[i]
      /\ q'.log[new] = again
      /\ Unacked(q') = Unacked(q) \cup {new}
    BY <1>1, <1>3, InvParts, XaddFacts
<1> HIDE DEF new
<1>5. Grows
    BY <1>1, <1>4 DEF Grows
<1>6. /\ LoopTypeOK(Envelope, HandlerLabels)' /\ WorkInv(HandlerLabels)'
      /\ pc'[w] = "ack"
      /\ \A x \in Workers : x # w => pc'[x] = pc[x]
    BY <1>1, <1>4, InvParts, HandlerMoveFacts DEF InHandler, LoopTypeOK
<1>7. TypeOK'
    BY <1>1, <1>6, InvParts DEF TypeOK, OwnTypeOK, LoopTypeOK
<1>8. cur' = cur /\ Msg(w)' = Msg(w)
    BY <1>1, <1>2, <1>4 DEF InHandler, Msg
<1>9. EntryInv'
  <2>1. HandedOn(cur[w])'
    <3>1. new \in Ids(q') /\ q'.log[new].job = Msg(w).job /\ q'.log[new].retry = Msg(w).retry + 1
        BY <1>3, <1>4
    <3>2. q'.log[cur'[w]] = Msg(w)
        BY <1>8 DEF Msg
    <3> QED
        BY <3>1, <3>2 DEF HandedOn
  <2>2. \A x \in Workers : pc'[x] \in Acking =>
            (pc[x] \in Acking /\ cur'[x] = cur[x]) \/ HandedOn(cur[x])'
      BY <1>6, <1>8, <2>1
  <2> QED
      BY <1>4, <1>5, <2>2, InvParts, EntryPreserved
<1>10. TryInv'
  <2>1. 0 .. again.retry - 1 \subseteq tried'[again.job]
    <3>1. Msg(w).retry \in tried[Msg(w).job]
        BY <1>1, InvParts DEF TryInv
    <3>2. 0 .. Msg(w).retry - 1 \subseteq tried[Msg(w).job]
        BY <1>2, InvParts DEF TryInv, Msg
    <3> QED
        BY <1>1, <1>2, <1>3, <3>1, <3>2
  <2>2. \A i \in Ids(q') \ Ids(q) : 0 .. q'.log[i].retry - 1 \subseteq tried'[q'.log[i].job]
      BY <1>4, <2>1
  <2>3. \A x \in Workers : pc'[x] \in PastFetch => pc[x] \in PastFetch /\ cur'[x] = cur[x]
      BY <1>1, <1>6, <1>8
  <2> QED
      BY <1>5, <2>2, <2>3, InvParts, TryPreserved
<1>11. RetriesExhausted'
    BY <1>1, <1>5, <1>7, InvParts, RetriesPreserved
<1>12. TTLOwedWithoutFaults'
    BY <1>1, <1>5, <1>6, <1>8, InvParts, TTLPreserved
<1> QED
    BY <1>6, <1>7, <1>9, <1>10, <1>11, <1>12 DEF CoreInv

LEMMA EnqueueStep ==
    ASSUME CoreInv, NEW j \in Jobs, Enqueue(j)
    PROVE  CoreInv'
<1> DEFINE first == [job |-> j, retry |-> 0]
           new == Len(q.log) + 1
<1>1. /\ q' = Xadd(q, first)
      /\ UNCHANGED <<pc, after, batch, cur, faults, attempt, circuit, raw, dead, tried>>
    BY DEF Enqueue
<1>2. first \in Envelope
    BY CrawlerAssumption DEF Envelope
<1>3. /\ q' \in StreamOf(Envelope) /\ q'.last = q.last
      /\ Ids(q') = Ids(q) \cup {new}
      /\ \A i \in Ids(q) : q'.log[i] = q.log[i]
      /\ q'.log[new] = first
      /\ Unacked(q') = Unacked(q) \cup {new}
    BY <1>1, <1>2, InvParts, XaddFacts
<1> HIDE DEF new
<1>4. Grows
    BY <1>1, <1>3 DEF Grows
<1>5. TypeOK' /\ WorkInv(HandlerLabels)'
    BY <1>1, <1>3, InvParts DEF TypeOK, OwnTypeOK, LoopTypeOK, WorkInv
<1>6. EntryInv'
    BY <1>1, <1>3, <1>4, InvParts, EntryPreserved
<1>7. TryInv'
  <2>1. \A i \in Ids(q') \ Ids(q) : 0 .. q'.log[i].retry - 1 = {}
      BY <1>3
  <2> QED
      BY <1>1, <1>4, <2>1, InvParts, TryPreserved
<1>8. RetriesExhausted'
    BY <1>1, <1>4, <1>5, InvParts, RetriesPreserved
<1>9. TTLOwedWithoutFaults'
    BY <1>1, <1>4, InvParts, TTLPreserved
<1> QED
    BY <1>5, <1>6, <1>7, <1>8, <1>9 DEF CoreInv

\* The run() loop, a crash and an error of XAUTOCLAIM.
LEMMA LoopStepInv ==
    ASSUME CoreInv, NEW w \in Workers, Loop(w) \/ Abort(w) \/ ClaimFails(w)
    PROVE  CoreInv'
<1>1. /\ LoopStep(w) \/ LoseBatch(w) \/ ClaimError(w)
      /\ UNCHANGED <<circuit, raw, dead, tried>>
      /\ attempt' = attempt \/ attempt' = [attempt EXCEPT ![w] = 0]
    BY DEF Loop, Abort, ClaimFails
<1>2. /\ LoopTypeOK(Envelope, HandlerLabels)' /\ WorkInv(HandlerLabels)' /\ OnlyMoves(w)
      /\ q'.log = q.log
      /\ Unacked(q') = Unacked(q)
    BY <1>1, InvParts, LabelFacts, LoopFacts, LoopAssumption
<1>3. TypeOK'
    BY <1>1, <1>2, InvParts DEF TypeOK, OwnTypeOK, LoopTypeOK
<1>4. \A x \in Workers : \/ pc'[x] \in {"claim", "read", "start"}
                         \/ pc'[x] = pc[x] /\ cur'[x] = cur[x]
    BY <1>2 DEF OnlyMoves
<1>5. Grows /\ EntryInv' /\ TryInv' /\ RetriesExhausted'
    BY <1>1, <1>2, <1>3, <1>4, QuietStep
<1>6. TTLOwedWithoutFaults'
  <2>1. CASE LoopStep(w)
    <3>1. pc[w] # "expireCircuit" /\ faults' = faults
        BY <2>1 DEF LoopStep, Claim, Read
    <3>2. \A x \in Workers : pc[x] = "expireCircuit" =>
              pc'[x] = "expireCircuit" /\ cur'[x] = cur[x]
        BY <1>2, <3>1 DEF OnlyMoves
    <3> QED
        BY <1>1, <1>5, <3>1, <3>2, InvParts, TTLPreserved
  <2>2. CASE LoseBatch(w) \/ ClaimError(w)
    <3>1. faults' > 0
        BY <2>2, SpendFaultFacts DEF LoseBatch, ClaimError
    <3> QED
        BY <3>1 DEF TTLOwedWithoutFaults
  <2> QED
      BY <1>1, <2>1, <2>2
<1> QED
    BY <1>2, <1>3, <1>5, <1>6 DEF CoreInv

\* The claim timeout and the circuit's TTL.
LEMMA TimeStepInv ==
    ASSUME CoreInv, Clock \/ \E d \in Domains : CircuitTTL(d)
    PROVE  CoreInv'
<1>1. CASE Clock
  <2>1. ClockStep /\ UNCHANGED <<attempt, circuit, raw, dead, tried>>
      BY <1>1 DEF Clock
  <2>2. /\ LoopTypeOK(Envelope, HandlerLabels)' /\ WorkInv(HandlerLabels)'
        /\ q'.log = q.log
        /\ Unacked(q') = Unacked(q)
        /\ UNCHANGED <<pc, cur>>
      BY <2>1, InvParts, ClockFacts, LoopAssumption
  <2>3. TypeOK'
      BY <2>1, <2>2, InvParts DEF TypeOK, OwnTypeOK, LoopTypeOK
  <2>4. Grows /\ EntryInv' /\ TryInv' /\ RetriesExhausted'
      BY <2>1, <2>2, <2>3, QuietStep
  <2>5. faults > 0 => faults' > 0
      BY <2>1, InvParts DEF ClockStep, OrphanGoesIdle, HeldGoesIdle, SpendFault
  <2>6. TTLOwedWithoutFaults'
      BY <2>1, <2>2, <2>4, <2>5, InvParts, TTLPreserved
  <2> QED
      BY <2>2, <2>3, <2>4, <2>6 DEF CoreInv
<1>2. ASSUME NEW d \in Domains, CircuitTTL(d)
      PROVE  CoreInv'
  <2>1. /\ UNCHANGED <<q, pc, after, batch, cur, faults, attempt, raw, dead, tried>>
        /\ circuit' = [circuit EXCEPT ![d] = "closed"]
      BY <1>2 DEF CircuitTTL, loopVars
  <2>2. TypeOK' /\ WorkInv(HandlerLabels)'
      BY <2>1, InvParts DEF TypeOK, OwnTypeOK, LoopTypeOK, WorkInv, Circuits
  <2>3. Grows /\ EntryInv' /\ TryInv' /\ RetriesExhausted'
      BY <2>1, <2>2, QuietStep
  <2>4. \A e \in Domains : circuit'[e] = "openNoTTL" => circuit[e] = "openNoTTL"
      BY <2>1, InvParts DEF OwnTypeOK
  <2>5. TTLOwedWithoutFaults'
      BY <2>1, <2>3, <2>4, InvParts, TTLPreserved
  <2> QED
      BY <2>2, <2>3, <2>5 DEF CoreInv
<1> QED
    BY <1>1, <1>2

LEMMA CoreInit == Init => CoreInv
<1> SUFFICES ASSUME Init PROVE CoreInv
    OBVIOUS
<1>1. /\ q = EmptyStream /\ raw = EmptyStream /\ dead = {} /\ faults = 0
      /\ pc = [w \in Workers |-> "claim"]
      /\ after = [w \in Workers |-> "claim"]
      /\ batch = [w \in Workers |-> {}]
      /\ cur = [w \in Workers |-> 0]
      /\ attempt = [w \in Workers |-> 0]
      /\ circuit = [d \in Domains |-> "closed"]
      /\ tried = [j \in Jobs |-> {}]
    BY DEF Init, LoopInit
<1>2. q \in StreamOf(Envelope) /\ raw \in StreamOf(RawMessage) /\ Ids(q) = {} /\ q.last = 0
    BY <1>1, EmptyStreamFacts
<1>3. faults \in 0 .. MaxFaults
    BY <1>1, LoopAssumption
<1>4. TypeOK
    BY <1>1, <1>2, <1>3 DEF TypeOK, LoopTypeOK, Circuits
<1>5. WorkInv(HandlerLabels)
    BY <1>1, <1>2, LabelFacts DEF WorkInv
<1>6. EntryInv /\ TryInv
    BY <1>1, <1>2 DEF EntryInv, TryInv
<1>7. RetriesExhausted
    BY <1>1 DEF RetriesExhausted
<1>8. TTLOwedWithoutFaults
    BY <1>1 DEF TTLOwedWithoutFaults
<1> QED
    BY <1>4, <1>5, <1>6, <1>7, <1>8 DEF CoreInv

LEMMA CoreNext == CoreInv /\ [Next]_vars => CoreInv'
<1> SUFFICES ASSUME CoreInv, [Next]_vars PROVE CoreInv'
    OBVIOUS
<1>1. ASSUME NEW j \in Jobs, Enqueue(j) PROVE CoreInv'
    BY <1>1, EnqueueStep
<1>2. ASSUME NEW w \in Workers, Loop(w) PROVE CoreInv'
    BY <1>2, LoopStepInv
<1>3. ASSUME NEW w \in Workers, Handler(w) PROVE CoreInv'
  <2>1. CASE CheckCircuit(w)
      BY <2>1, CheckCircuitStep
  <2>2. CASE BuryOpenCircuit(w)
      BY <2>2, BuryOpenCircuitStep
  <2>3. CASE FetchOk(w) \/ FetchRateLimited(w) \/ FetchFails(w)
      BY <2>3, LeaveFetchStep DEF FetchOk, FetchRateLimited, FetchFails
  <2>4. CASE FetchAgain(w)
      BY <2>4, FetchAgainStep
  <2>5. CASE PublishRaw(w)
      BY <2>5, PublishRawStep
  <2>6. CASE SetCircuit(w)
      BY <2>6, SetCircuitStep
  <2>7. CASE ExpireCircuit(w)
      BY <2>7, ExpireCircuitStep
  <2>8. CASE Requeue(w)
      BY <2>8, RequeueStep
  <2>9. CASE BuryFailed(w)
      BY <2>9, BuryFailedStep
  <2>10. CASE Ack(w)
      BY <2>10, AckStep
  <2> QED
      BY <1>3, <2>1, <2>2, <2>3, <2>4, <2>5, <2>6, <2>7, <2>8, <2>9, <2>10 DEF Handler
<1>4. ASSUME NEW w \in Workers, Fault(w) PROVE CoreInv'
  <2>1. CASE Abort(w) \/ ClaimFails(w)
      BY <2>1, LoopStepInv
  <2>2. CASE PublishFails(w)
      BY <2>2, PublishFailsStep
  <2>3. CASE AckOkFails(w)
      BY <2>3, AckOkFailsStep
  <2> QED
      BY <1>4, <2>1, <2>2, <2>3 DEF Fault
<1>5. CASE Clock \/ \E d \in Domains : CircuitTTL(d)
    BY <1>5, TimeStepInv
<1>6. CASE UNCHANGED vars
    BY <1>6 DEF vars, loopVars, CoreInv, TypeOK, LoopTypeOK, WorkInv, EntryInv, HandedOn,
        Published, Dead, TryInv, Msg, RetriesExhausted, TTLOwedWithoutFaults, Domain
<1> QED
    BY <1>1, <1>2, <1>3, <1>4, <1>5, <1>6 DEF Next

-----------------------------------------------------------------------------
(* The theorems.                                                           *)

\* The part of the inductive invariant that the next theorems use.
LEMMA CoreInvariance == Spec => []CoreInv
BY CoreInit, CoreNext, PTL DEF Spec

\* The variables of the crawler stage keep their types.
THEOREM TypeCorrect == Spec => []TypeOK
<1>1. CoreInv => TypeOK
    BY DEF CoreInv
<1> QED
    BY <1>1, CoreInvariance, PTL

\* A job that worker.py dead-letters as failed was fetched with every retry
\* count from 0 to MAX_RETRIES.
THEOREM DeadOnlyAfterRetries == Spec => []RetriesExhausted
<1>1. CoreInv => RetriesExhausted
    BY DEF CoreInv
<1> QED
    BY <1>1, CoreInvariance, PTL

\* Unless a fault came between HSET and EXPIRE of circuit_open, an open circuit
\* has a TTL or is about to be given one.
THEOREM CircuitGetsTTL == Spec => []TTLOwedWithoutFaults
<1>1. CoreInv => TTLOwedWithoutFaults
    BY DEF CoreInv
<1> QED
    BY <1>1, CoreInvariance, PTL

\* Of the entries of a job one has the highest retry count.
LEMMA LastEntry ==
    ASSUME TypeOK, NEW j \in Jobs, Enqueued(j)
    PROVE  \E i \in Ids(q) : /\ q.log[i].job = j
                             /\ \A k \in Ids(q) : q.log[k].job = j =>
                                    q.log[k].retry <= q.log[i].retry
<1> DEFINE left(i) == MaxRetries - q.log[i].retry
           T == {left(i) : i \in {i \in Ids(q) : q.log[i].job = j}}
<1>0. \A i \in Ids(q) : q.log[i] \in Envelope
    BY EntryFacts DEF TypeOK, LoopTypeOK
<1>1. /\ MaxRetries \in Nat
      /\ \A i \in Ids(q) : q.log[i].retry \in 0 .. MaxRetries
    BY <1>0, CrawlerAssumption DEF Envelope
<1>2. T \subseteq Nat /\ T # {}
    BY <1>1 DEF Enqueued
<1>3. PICK x \in T : \A y \in T : ~(<<y, x>> \in OpToRel(<, Nat))
    BY <1>2, WFMin, NatLessThanWellFounded
<1>4. \A y \in T : ~(y < x)
    BY <1>2, <1>3 DEF OpToRel
<1>5. PICK i \in Ids(q) : q.log[i].job = j /\ x = left(i)
    BY <1>3
<1>6. ASSUME NEW k \in Ids(q), q.log[k].job = j
      PROVE  q.log[k].retry <= q.log[i].retry
  <2>1. ~(left(k) < left(i))
      BY <1>4, <1>5, <1>6
  <2> QED
      BY <1>1, <2>1
<1> QED
    BY <1>5, <1>6

\* Of a job's entries the one with the highest retry count is open, or its job has
\* an outcome.
LEMMA LastEntryOpen == CoreInv => NoJobLost
<1> SUFFICES ASSUME CoreInv, NEW j \in Jobs, Enqueued(j), ~Published(j), ~Dead(j)
             PROVE  Open(j)
    BY DEF NoJobLost
<1>1. PICK i \in Ids(q) : /\ q.log[i].job = j
                          /\ \A k \in Ids(q) : q.log[k].job = j =>
                                 q.log[k].retry <= q.log[i].retry
    BY InvParts, LastEntry
<1>2. \A k \in Ids(q) : q.log[k].retry \in Nat
  <2>1. \A k \in Ids(q) : q.log[k] \in Envelope
      BY InvParts, EntryFacts DEF TypeOK, LoopTypeOK
  <2> QED
      BY <2>1, CrawlerAssumption DEF Envelope
<1>3. ~HandedOn(i)
    BY <1>1, <1>2 DEF HandedOn
<1>4. i \in Unacked(q)
    BY <1>3, InvParts DEF EntryInv
<1> QED
    BY <1>1, <1>4 DEF Open

\* No job is lost: whatever crashes, is redelivered or retried, a job that was
\* enqueued is published, dead-lettered, or still has an entry to process.
THEOREM CrawlerLosesNothing == Spec => []NoJobLost
BY LastEntryOpen, CoreInvariance, PTL

-----------------------------------------------------------------------------
(* What can still come of the envelopes M after each step.                 *)

LEMMA LiveNext == ASSUME CoreInv', NEW M PROVE Live(M, Acking)' \in Nat
<1>1. q' \in StreamOf(Envelope)
    BY DEF CoreInv, TypeOK, LoopTypeOK
<1> QED
    BY <1>1, LiveFiniteNext, LoopAssumption

\* 1 if worker w has one of the envelopes M in its hands.
One(w, M) == IF Msg(w) \in M THEN 1 ELSE 0

\* A step that hands nothing on; a fault can make one more thing happen.
Quiet(M) ==
    /\ q'.log = q.log
    /\ UNCHANGED <<raw, dead>>
    /\ Live(M, Acking)' <= Live(M, Acking) + faults' - faults

Publishes(w, M) ==
    /\ q' = q /\ dead' = dead
    /\ \E c \in Contents : raw' = Xadd(raw, [job |-> Msg(w).job, content |-> c])
    /\ Live(M, Acking)' + One(w, M) <= Live(M, Acking) + faults' - faults

Buries(w, M) ==
    /\ UNCHANGED <<q, raw, faults>>
    /\ \E r \in Reasons : dead' = dead \cup {[job |-> Msg(w).job, reason |-> r]}
    /\ Live(M, Acking)' + One(w, M) <= Live(M, Acking)

Requeues(w, M) ==
    LET next == [job |-> Msg(w).job, retry |-> Msg(w).retry + 1]
    IN  /\ UNCHANGED <<raw, dead, faults>>
        /\ Msg(w).retry < MaxRetries
        /\ q' = Xadd(q, next)
        /\ Live(M, Acking)' + One(w, M) <= Live(M, Acking) + (IF next \in M THEN 1 ELSE 0)

Enqueues(j, M) ==
    LET new == [job |-> j, retry |-> 0]
    IN  /\ UNCHANGED <<raw, dead, faults>>
        /\ ~Enqueued(j)
        /\ q' = Xadd(q, new)
        /\ Live(M, Acking)' = Live(M, Acking) + (IF new \in M THEN 1 ELSE 0)

LEMMA FaultsNext == CoreInv' => faults' \in Nat
<1>1. CoreInv' => faults' \in 0 .. MaxFaults
    BY DEF CoreInv, TypeOK, LoopTypeOK
<1> QED
    BY <1>1, LoopAssumption

\* The facts about the loop that its lemmas on Live ask for.
LEMMA LiveFacts ==
    ASSUME CoreInv, NEW M
    PROVE  /\ Live(M, Acking) \in Nat /\ faults \in Nat
           /\ LoopTypeOK(Envelope, HandlerLabels) /\ WorkInv(HandlerLabels)
<1>1. q \in StreamOf(Envelope) /\ faults \in 0 .. MaxFaults
    BY InvParts
<1>2. faults \in Nat
    BY <1>1, LoopAssumption
<1> QED
    BY <1>1, <1>2, InvParts, LiveFinite, LoopAssumption

\* A handler's step that leaves its input stream alone.
LEMMA PlainLive ==
    ASSUME CoreInv, NEW w \in Workers, pc[w] \in HandlerLabels, pc[w] \notin Acking,
           NEW label, Goto(w, label), InHandler, q' = q, NEW M
    PROVE  /\ Live(M, Acking)' <= Live(M, Acking)
           /\ label \in Acking => Live(M, Acking)' + One(w, M) <= Live(M, Acking)
<1>1. Live(M, Acking)' + HandsOn(w, label, M, Acking)
          <= Live(M, Acking) + TakesBack(w, label, Acking)
    BY LiveFacts, HandlerLive, LoopAssumption DEF InHandler
<1>2. TakesBack(w, label, Acking) = 0 /\ HandsOn(w, label, M, Acking) \in Nat
    BY DEF TakesBack, HandsOn
<1>3. label \in Acking => HandsOn(w, label, M, Acking) = One(w, M)
    BY DEF HandsOn, One
<1>4. Live(M, Acking) \in Nat /\ Live(M, Acking)' \in Nat
  <2>1. q' \in StreamOf(Envelope)
      BY InvParts
  <2> QED
      BY <2>1, LiveFacts, LiveFiniteNext, LoopAssumption
<1>5. One(w, M) \in Nat
    BY DEF One
<1> QED
    BY <1>1, <1>2, <1>3, <1>4, <1>5

LEMMA QuietFlow ==
    ASSUME CoreInv, NEW M,
           \/ \E w \in Workers : Loop(w) \/ Abort(w) \/ ClaimFails(w) \/ Ack(w)
           \/ Clock \/ (\E d \in Domains : CircuitTTL(d)) \/ UNCHANGED vars
    PROVE  Quiet(M)
<1>1. LoopTypeOK(Envelope, HandlerLabels) /\ WorkInv(HandlerLabels) /\ Live(M, Acking) \in Nat
      /\ faults \in Nat
    BY LiveFacts
<1>2. CASE \E w \in Workers : Loop(w) \/ Abort(w) \/ ClaimFails(w)
  <2>1. PICK w \in Workers : Loop(w) \/ Abort(w) \/ ClaimFails(w)
      BY <1>2
  <2>2. /\ LoopStep(w) \/ ClaimError(w) \/ LoseBatch(w)
        /\ UNCHANGED <<raw, dead>>
      BY <2>1 DEF Loop, Abort, ClaimFails
  <2>3. q'.log = q.log /\ Live(M, Acking)' <= Live(M, Acking) + faults' - faults
      BY <1>1, <2>2, LoopFacts, LoopLive, LabelFacts, LoopAssumption
  <2> QED
      BY <2>2, <2>3 DEF Quiet
<1>3. CASE \E w \in Workers : Ack(w)
  <2>1. PICK w \in Workers : Ack(w)
      BY <1>3
  <2>2. /\ pc[w] \in HandlerLabels /\ Finish(w) /\ q' = Xack(q, cur[w])
        /\ UNCHANGED <<raw, dead, faults>>
      BY <2>1 DEF Ack, AckAndFinish, HandlerLabels
  <2>3. /\ q'.log = q.log /\ q'.last = q.last
        /\ q'.pel = q.pel \ {cur[w]} /\ q'.idle = q.idle \ {cur[w]} /\ q.idle \subseteq q.pel
      BY <1>1, <2>2, StreamFields DEF Xack, StreamRecord, LoopTypeOK
  <2>4. Live(M, Acking)' <= Live(M, Acking)
      BY <1>1, <2>2, <2>3, FinishLive, LoopAssumption
  <2> QED
      BY <1>1, <2>2, <2>3, <2>4 DEF Quiet
<1>4. CASE Clock
  <2>1. ClockStep /\ UNCHANGED <<raw, dead>>
      BY <1>4 DEF Clock
  <2>2. q'.log = q.log /\ Live(M, Acking)' <= Live(M, Acking) + faults' - faults
      BY <1>1, <2>1, ClockFacts, ClockLive, LoopAssumption
  <2> QED
      BY <2>1, <2>2 DEF Quiet
<1>5. CASE UNCHANGED vars \/ \E d \in Domains : CircuitTTL(d)
  <2>1. UNCHANGED <<q, pc, batch, cur, faults, raw, dead>>
      BY <1>5 DEF vars, loopVars, CircuitTTL
  <2>2. Live(M, Acking)' = Live(M, Acking)
      BY <2>1 DEF Live, Waiting, InHand, Ids, Held
  <2> QED
      BY <1>1, <2>1, <2>2 DEF Quiet
<1> QED
    BY <1>2, <1>3, <1>4, <1>5

\* An envelope in a worker's hands becomes at most one outcome, or one envelope.
LEMMA HandlerFlow ==
    ASSUME CoreInv, CoreInv', NEW w \in Workers, Handler(w) \/ PublishFails(w) \/ AckOkFails(w), NEW M
    PROVE  \/ Quiet(M)
           \/ pc[w] \in HandlerLabels /\ (Publishes(w, M) \/ Buries(w, M) \/ Requeues(w, M))
<1>1. /\ Live(M, Acking) \in Nat /\ faults \in Nat /\ Live(M, Acking)' \in Nat
      /\ LoopTypeOK(Envelope, HandlerLabels) /\ WorkInv(HandlerLabels)
      /\ One(w, M) \in 0 .. 1
    BY LiveFacts, LiveNext DEF One
<1>2. CASE \/ CheckCircuit(w) \/ FetchOk(w) \/ FetchRateLimited(w) \/ FetchFails(w)
           \/ FetchAgain(w) \/ SetCircuit(w) \/ ExpireCircuit(w)
  <2>1. /\ pc[w] \in HandlerLabels /\ pc[w] \notin Acking
        /\ InHandler /\ UNCHANGED <<q, raw, dead, faults>>
      BY <1>2 DEF CheckCircuit, FetchOk, FetchRateLimited, FetchFails, LeaveFetch, FetchAgain,
          SetCircuit, ExpireCircuit, HandlerLabels, Acking
  <2>2. \E label : Goto(w, label)
    <3>1. CASE FetchAgain(w)
        BY <1>1, <3>1 DEF FetchAgain, Goto, LoopTypeOK
    <3> QED
        BY <1>2, <3>1 DEF CheckCircuit, FetchOk, FetchRateLimited, FetchFails, LeaveFetch,
            SetCircuit, ExpireCircuit
  <2>3. Live(M, Acking)' <= Live(M, Acking)
      BY <2>1, <2>2, PlainLive
  <2> QED
      BY <1>1, <2>1, <2>3 DEF Quiet
<1>3. CASE BuryOpenCircuit(w) \/ BuryFailed(w)
  <2>1. /\ pc[w] \in HandlerLabels /\ pc[w] \notin Acking
        /\ InHandler /\ UNCHANGED <<q, raw, faults>>
        /\ \E label \in Acking : Goto(w, label)
        /\ \E r \in Reasons : dead' = dead \cup {[job |-> Msg(w).job, reason |-> r]}
      BY <1>3 DEF BuryOpenCircuit, BuryFailed, HandlerLabels, Acking, Reasons
  <2>2. Live(M, Acking)' + One(w, M) <= Live(M, Acking)
      BY <2>1, PlainLive
  <2> QED
      BY <2>1, <2>2 DEF Buries
<1>4. CASE PublishRaw(w)
  <2>1. /\ pc[w] \in HandlerLabels /\ pc[w] \notin Acking /\ "ackOk" \in Acking
        /\ InHandler /\ UNCHANGED <<q, dead, faults>> /\ Goto(w, "ackOk")
        /\ \E c \in Contents : raw' = Xadd(raw, [job |-> Msg(w).job, content |-> c])
      BY <1>4 DEF PublishRaw, HandlerLabels, Acking
  <2>2. Live(M, Acking)' + One(w, M) <= Live(M, Acking)
      BY <2>1, PlainLive
  <2> QED
      BY <1>1, <2>1, <2>2 DEF Publishes
<1>5. CASE PublishFails(w)
  <2>1. /\ pc[w] \in HandlerLabels /\ pc[w] \notin Acking
        /\ InHandler /\ UNCHANGED <<q, dead>> /\ Goto(w, "retry") /\ faults' = faults + 1
        /\ \/ raw' = raw
           \/ \E c \in Contents : raw' = Xadd(raw, [job |-> Msg(w).job, content |-> c])
      BY <1>5 DEF PublishFails, HandlerLabels, Acking, SpendFault
  <2>2. Live(M, Acking)' <= Live(M, Acking)
      BY <2>1, PlainLive
  <2> QED
      BY <1>1, <2>1, <2>2 DEF Publishes, Quiet
<1>6. CASE AckOkFails(w)
  <2>1. /\ pc[w] \in HandlerLabels /\ InHandler /\ UNCHANGED <<raw, dead>>
        /\ Goto(w, "retry") /\ faults' = faults + 1 /\ q' \in {q, Xack(q, cur[w])}
      BY <1>6 DEF AckOkFails, HandlerLabels, SpendFault
  <2>2. /\ q'.log = q.log /\ q'.last = q.last
        /\ q'.pel \subseteq q.pel /\ q'.idle \subseteq q.idle
    <3>1. q \in StreamRecord(Envelope)
        BY <1>1, StreamFields DEF LoopTypeOK
    <3>2. CASE q' = q
        BY <3>2
    <3>3. CASE q' = Xack(q, cur[w])
        BY <3>1, <3>3 DEF Xack, StreamRecord
    <3> QED
        BY <2>1, <3>2, <3>3
  <2>3. Live(M, Acking)' + HandsOn(w, "retry", M, Acking)
            <= Live(M, Acking) + TakesBack(w, "retry", Acking)
      BY <1>1, <2>1, <2>2, HandlerLive, LoopAssumption DEF InHandler
  <2>4. HandsOn(w, "retry", M, Acking) \in Nat /\ TakesBack(w, "retry", Acking) \in 0 .. 1
      BY DEF HandsOn, TakesBack
  <2> QED
      BY <1>1, <2>1, <2>2, <2>3, <2>4 DEF Quiet
<1>7. CASE Requeue(w)
  <2> DEFINE next == [job |-> Msg(w).job, retry |-> Msg(w).retry + 1]
  <2>1. /\ pc[w] \in HandlerLabels /\ pc[w] \notin Acking /\ "ack" \in Acking
        /\ InHandler /\ UNCHANGED <<raw, dead, faults>> /\ Goto(w, "ack")
        /\ Msg(w).retry < MaxRetries
        /\ q' = Xadd(q, [Msg(w) EXCEPT !.retry = @ + 1])
      BY <1>7 DEF Requeue, HandlerLabels, Acking
  <2>2. Msg(w) \in Envelope /\ Msg(w).retry \in 0 .. MaxRetries /\ MaxRetries \in Nat
      BY <2>1, InvParts, MsgFacts, CrawlerAssumption
  <2>3. next \in Envelope /\ [Msg(w) EXCEPT !.retry = @ + 1] = next
      BY <2>1, <2>2 DEF Envelope
  <2>4. q' = Xadd(q, next)
      BY <2>1, <2>3
  <2> HIDE DEF next
  <2>5. Live(M, Acking)' + HandsOn(w, "ack", M, Acking)
            <= Live(M, Acking) + TakesBack(w, "ack", Acking) + (IF next \in M THEN 1 ELSE 0)
      BY <1>1, <2>1, <2>3, <2>4, RequeueLive, LoopAssumption DEF InHandler
  <2>6. HandsOn(w, "ack", M, Acking) = One(w, M) /\ TakesBack(w, "ack", Acking) = 0
      BY <2>1 DEF HandsOn, TakesBack, One
  <2> QED
      BY <1>1, <2>1, <2>4, <2>5, <2>6 DEF Requeues, next
<1>8. CASE Ack(w)
    BY <1>8, QuietFlow
<1> QED
    BY <1>2, <1>3, <1>4, <1>5, <1>6, <1>7, <1>8 DEF Handler

LEMMA EnqueueFlow ==
    ASSUME CoreInv, NEW j \in Jobs, Enqueue(j), NEW M
    PROVE  Enqueues(j, M)
<1> DEFINE new == [job |-> j, retry |-> 0]
<1>1. new \in Envelope
    BY CrawlerAssumption DEF Envelope
<1>2. /\ q' = Xadd(q, new) /\ UNCHANGED <<pc, batch, cur, faults, raw, dead>>
      /\ ~Enqueued(j)
    BY DEF Enqueue, Enqueued
<1> HIDE DEF new
<1>3. Live(M, Acking)' = Live(M, Acking) + (IF new \in M THEN 1 ELSE 0)
    BY <1>1, <1>2, LiveFacts, ArriveLive, LoopAssumption
<1> QED
    BY <1>2, <1>3 DEF Enqueues, new

LEMMA FlowStep ==
    ASSUME CoreInv, CoreInv', [Next]_vars, NEW M
    PROVE  \/ Quiet(M)
           \/ \E w \in Workers : /\ pc[w] \in HandlerLabels
                                 /\ Publishes(w, M) \/ Buries(w, M) \/ Requeues(w, M)
           \/ \E j \in Jobs : Enqueues(j, M)
BY QuietFlow, HandlerFlow, EnqueueFlow DEF Next, Fault

-----------------------------------------------------------------------------
(* Outcomes and what can still become one.                                 *)

Envelopes(j) == [job : {j}, retry : 0 .. MaxRetries]

Earlier(j, r) == [job : {j}, retry : 0 .. r - 1]

Letters(j) == {d \in dead : d.job = j}

RawOf(j) == [job : {j}, content : Contents]

\* The two parts of OutcomeInv.
EndsInv(j) ==
    CountOf(raw, RawOf(j)) + Cardinality(Letters(j)) + Live(Envelopes(j), Acking)
        + Unstarted(j) <= 1 + faults

RetryInv(j, r) ==
    CountOf(q, {[job |-> j, retry |-> r]}) + Live(Earlier(j, r), Acking) + Unstarted(j)
        <= 1 + faults

LEMMA OutcomeParts ==
    OutcomeInv <=> \A j \in Jobs : EndsInv(j) /\ \A r \in 0 .. MaxRetries : RetryInv(j, r)
BY DEF OutcomeInv, EndsInv, RetryInv, Envelopes, Earlier, Letters, RawOf

LEMMA OutcomeTypes ==
    ASSUME CoreInv, NEW j, NEW M
    PROVE  /\ CountOf(raw, M) \in Nat /\ CountOf(q, M) \in Nat
           /\ Cardinality(Letters(j)) \in Nat
           /\ Unstarted(j) \in 0 .. 1
           /\ Live(M, Acking) \in Nat /\ faults \in Nat
<1>1. /\ raw \in StreamOf(RawMessage) /\ q \in StreamOf(Envelope)
      /\ dead \subseteq [job : Jobs, reason : Reasons]
    BY InvParts DEF OwnTypeOK, DeadLetter
<1>2. CountOf(raw, M) \in Nat /\ CountOf(q, M) \in Nat
    BY <1>1, FiniteIds DEF CountOf
<1>3. Cardinality(Letters(j)) \in Nat
    BY <1>1, LettersFinite DEF Letters
<1> QED
    BY <1>2, <1>3, LiveFacts DEF Unstarted

\* What of a job has ended, and what can still end.
LEMMA EndsNext ==
    ASSUME CoreInv, CoreInv', [Next]_vars, NEW j \in Jobs, EndsInv(j)
    PROVE  EndsInv(j)'
<1> DEFINE M == Envelopes(j)
<1>1. /\ CountOf(raw, RawOf(j)) \in Nat /\ Cardinality(Letters(j)) \in Nat
      /\ Unstarted(j) \in 0 .. 1 /\ Live(M, Acking) \in Nat /\ faults \in Nat
      /\ Live(M, Acking)' \in Nat /\ faults' \in Nat
    BY OutcomeTypes, LiveNext, FaultsNext
<1>2. /\ raw \in StreamOf(RawMessage) /\ q \in StreamOf(Envelope)
      /\ dead \subseteq [job : Jobs, reason : Reasons] /\ MaxRetries \in Nat
    BY InvParts, CrawlerAssumption DEF OwnTypeOK, DeadLetter
<1>3. ASSUME NEW w \in Workers, pc[w] \in HandlerLabels
      PROVE  /\ Msg(w) \in Envelope /\ Msg(w).job \in Jobs /\ Enqueued(Msg(w).job)
             /\ One(w, M) = IF Msg(w).job = j THEN 1 ELSE 0
  <2>1. cur[w] \in Ids(q) /\ Msg(w) \in Envelope
      BY <1>3, InvParts, MsgFacts
  <2> QED
      BY <2>1 DEF Enqueued, Msg, Envelope, One, Envelopes
<1>4. EndsInv(j) <=> CountOf(raw, RawOf(j)) + Cardinality(Letters(j)) + Live(M, Acking)
                         + Unstarted(j) <= 1 + faults
    BY DEF EndsInv
<1>5. EndsInv(j)' <=> CountOf(raw', RawOf(j)) + Cardinality(Letters(j)') + Live(M, Acking)'
                         + Unstarted(j)' <= 1 + faults'
    BY DEF EndsInv, RawOf, Envelopes
<1>6. q'.log = q.log => Unstarted(j)' = Unstarted(j)
    BY DEF Unstarted, Enqueued, Ids
<1>7. UNCHANGED dead => Letters(j)' = Letters(j)
    BY DEF Letters
<1> HIDE DEF M
<1>8. CASE Quiet(M)
    BY <1>1, <1>4, <1>5, <1>6, <1>7, <1>8 DEF Quiet
<1>9. ASSUME NEW w \in Workers, pc[w] \in HandlerLabels, Publishes(w, M)
      PROVE  EndsInv(j)'
  <2>1. PICK c \in Contents : raw' = Xadd(raw, [job |-> Msg(w).job, content |-> c])
      BY <1>9 DEF Publishes
  <2>2. [job |-> Msg(w).job, content |-> c] \in RawMessage
      BY <1>3, <1>9 DEF RawMessage
  <2>3. CountOf(raw', RawOf(j)) = CountOf(raw, RawOf(j))
            + (IF [job |-> Msg(w).job, content |-> c] \in RawOf(j) THEN 1 ELSE 0)
      BY <1>2, <2>1, <2>2, CountFacts
  <2>4. [job |-> Msg(w).job, content |-> c] \in RawOf(j) <=> Msg(w).job = j
      BY DEF RawOf
  <2>5. CountOf(raw', RawOf(j)) = CountOf(raw, RawOf(j)) + One(w, M)
      BY <1>3, <1>9, <2>3, <2>4
  <2>6. /\ Unstarted(j)' = Unstarted(j) /\ Letters(j)' = Letters(j)
        /\ Live(M, Acking)' + One(w, M) <= Live(M, Acking) + faults' - faults
      BY <1>6, <1>7, <1>9 DEF Publishes
  <2>7. One(w, M) \in 0 .. 1
      BY DEF One
  <2> QED
      BY <1>1, <1>4, <1>5, <2>5, <2>6, <2>7
<1>10. ASSUME NEW w \in Workers, pc[w] \in HandlerLabels, Buries(w, M)
       PROVE  EndsInv(j)'
  <2>1. PICK r \in Reasons : dead' = dead \cup {[job |-> Msg(w).job, reason |-> r]}
      BY <1>10 DEF Buries
  <2>2. Cardinality(Letters(j)')
            <= Cardinality(Letters(j)) + (IF Msg(w).job = j THEN 1 ELSE 0)
      BY <1>2, <2>1, LettersBury DEF Letters
  <2>3. /\ Unstarted(j)' = Unstarted(j) /\ raw' = raw /\ faults' = faults
        /\ Live(M, Acking)' + One(w, M) <= Live(M, Acking)
      BY <1>6, <1>10 DEF Buries
  <2>4. Cardinality(Letters(j)') \in Nat
    <3>1. dead' \subseteq [job : Jobs, reason : Reasons]
        BY DEF CoreInv, TypeOK, DeadLetter
    <3> QED
        BY <3>1, LettersFinite DEF Letters
  <2> QED
      BY <1>1, <1>3, <1>4, <1>5, <1>10, <2>2, <2>3, <2>4
<1>11. ASSUME NEW w \in Workers, pc[w] \in HandlerLabels, Requeues(w, M)
       PROVE  EndsInv(j)'
  <2> DEFINE next == [job |-> Msg(w).job, retry |-> Msg(w).retry + 1]
  <2>1. /\ UNCHANGED <<raw, dead, faults>> /\ q' = Xadd(q, next) /\ Msg(w).retry < MaxRetries
        /\ Live(M, Acking)' + One(w, M) <= Live(M, Acking) + (IF next \in M THEN 1 ELSE 0)
      BY <1>11 DEF Requeues
  <2>2. next \in Envelope
      BY <1>2, <1>3, <1>11, <2>1 DEF Envelope
  <2>3. next \in M <=> Msg(w).job = j
      BY <2>2 DEF M, Envelopes, Envelope
  <2>4. Enqueued(j)' <=> Enqueued(j) \/ next.job = j
      BY <1>2, <2>1, <2>2, XaddFacts DEF Enqueued
  <2>5. Unstarted(j)' = Unstarted(j)
      BY <1>3, <1>11, <2>4 DEF Unstarted
  <2> HIDE DEF next
  <2> QED
      BY <1>1, <1>3, <1>4, <1>5, <1>7, <1>11, <2>1, <2>3, <2>5
<1>12. ASSUME NEW k \in Jobs, Enqueues(k, M)
       PROVE  EndsInv(j)'
  <2> DEFINE new == [job |-> k, retry |-> 0]
  <2>1. /\ UNCHANGED <<raw, dead, faults>> /\ q' = Xadd(q, new) /\ ~Enqueued(k)
        /\ Live(M, Acking)' = Live(M, Acking) + (IF new \in M THEN 1 ELSE 0)
      BY <1>12 DEF Enqueues
  <2>2. new \in Envelope
      BY <1>2 DEF Envelope
  <2>3. new \in M <=> k = j
      BY <1>2 DEF M, Envelopes
  <2>4. Enqueued(j)' <=> Enqueued(j) \/ k = j
      BY <1>2, <2>1, <2>2, XaddFacts DEF Enqueued
  <2>5. Unstarted(j)' = Unstarted(j) - (IF k = j THEN 1 ELSE 0)
      BY <2>1, <2>4 DEF Unstarted
  <2> HIDE DEF new
  <2> QED
      BY <1>1, <1>4, <1>5, <1>7, <2>1, <2>3, <2>5
<1> QED
    BY <1>8, <1>9, <1>10, <1>11, <1>12, FlowStep

\* How often a job was queued with a retry count, and can still be.
LEMMA RetryNext ==
    ASSUME CoreInv, CoreInv', [Next]_vars, NEW j \in Jobs, NEW r \in 0 .. MaxRetries,
           RetryInv(j, r)
    PROVE  RetryInv(j, r)'
<1> DEFINE M == Earlier(j, r)
           it == [job |-> j, retry |-> r]
<1>1. /\ CountOf(q, {it}) \in Nat
      /\ Unstarted(j) \in 0 .. 1 /\ Live(M, Acking) \in Nat /\ faults \in Nat
      /\ Live(M, Acking)' \in Nat /\ faults' \in Nat
    BY OutcomeTypes, LiveNext, FaultsNext
<1>2. q \in StreamOf(Envelope) /\ MaxRetries \in Nat
    BY InvParts, CrawlerAssumption
<1>3. ASSUME NEW w \in Workers, pc[w] \in HandlerLabels
      PROVE  /\ Msg(w).job \in Jobs /\ Msg(w).retry \in 0 .. MaxRetries
             /\ Enqueued(Msg(w).job)
             /\ One(w, M) = IF Msg(w).job = j /\ Msg(w).retry < r THEN 1 ELSE 0
  <2>1. cur[w] \in Ids(q) /\ Msg(w) \in Envelope
      BY <1>3, InvParts, MsgFacts
  <2>2. Msg(w) \in M <=> Msg(w).job = j /\ Msg(w).retry < r
      BY <1>2, <2>1 DEF Envelope, Earlier
  <2> QED
      BY <2>1, <2>2 DEF Enqueued, Msg, Envelope, One
<1>4. RetryInv(j, r) <=>
          CountOf(q, {it}) + Live(M, Acking) + Unstarted(j) <= 1 + faults
    BY DEF RetryInv
<1>5. RetryInv(j, r)' <=>
          CountOf(q', {it}) + Live(M, Acking)' + Unstarted(j)' <= 1 + faults'
    BY DEF RetryInv, Earlier
<1>6. q'.log = q.log => Unstarted(j)' = Unstarted(j) /\ CountOf(q', {it}) = CountOf(q, {it})
    BY DEF Unstarted, Enqueued, Ids, CountOf
<1>7. ASSUME NEW msg \in Envelope, q' = Xadd(q, msg)
      PROVE  /\ CountOf(q', {it}) = CountOf(q, {it}) + (IF msg = it THEN 1 ELSE 0)
             /\ Enqueued(j)' <=> Enqueued(j) \/ msg.job = j
  <2>1. CountOf(q', {it}) = CountOf(q, {it}) + (IF msg \in {it} THEN 1 ELSE 0)
      BY <1>2, <1>7, CountFacts
  <2>2. Enqueued(j)' <=> Enqueued(j) \/ msg.job = j
      BY <1>2, <1>7, XaddFacts DEF Enqueued
  <2> QED
      BY <2>1, <2>2
<1> HIDE DEF M
<1>8. CASE Quiet(M)
    BY <1>1, <1>4, <1>5, <1>6, <1>8 DEF Quiet
<1>9. ASSUME NEW w \in Workers, pc[w] \in HandlerLabels, Publishes(w, M) \/ Buries(w, M)
      PROVE  RetryInv(j, r)'
  <2>1. /\ q' = q
        /\ Live(M, Acking)' + One(w, M) <= Live(M, Acking) + faults' - faults
      BY <1>1, <1>9 DEF Publishes, Buries
  <2>2. One(w, M) \in Nat
      BY DEF One
  <2> QED
      BY <1>1, <1>4, <1>5, <1>6, <2>1, <2>2
<1>10. ASSUME NEW w \in Workers, pc[w] \in HandlerLabels, Requeues(w, M)
       PROVE  RetryInv(j, r)'
  <2> DEFINE next == [job |-> Msg(w).job, retry |-> Msg(w).retry + 1]
  <2>1. /\ faults' = faults /\ q' = Xadd(q, next) /\ Msg(w).retry < MaxRetries
        /\ Live(M, Acking)' + One(w, M) <= Live(M, Acking) + (IF next \in M THEN 1 ELSE 0)
      BY <1>10 DEF Requeues
  <2>2. next \in Envelope
      BY <1>2, <1>3, <1>10, <2>1 DEF Envelope
  <2>3. next \in M <=> Msg(w).job = j /\ Msg(w).retry + 1 < r
      BY <1>2, <1>3, <1>10 DEF M, Earlier
  <2>4. next = it <=> Msg(w).job = j /\ Msg(w).retry + 1 = r
      OBVIOUS
  <2>5. next.job = Msg(w).job
      OBVIOUS
  <2> HIDE DEF next, it
  <2>6. /\ CountOf(q', {it}) = CountOf(q, {it}) + (IF next = it THEN 1 ELSE 0)
        /\ Enqueued(j)' <=> Enqueued(j) \/ next.job = j
      BY <1>7, <2>1, <2>2
  <2>7. Unstarted(j)' = Unstarted(j)
      BY <1>3, <1>10, <2>5, <2>6 DEF Unstarted
  <2>8. One(w, M) = (IF next \in M THEN 1 ELSE 0) + (IF next = it THEN 1 ELSE 0)
      BY <1>2, <1>3, <1>10, <2>3, <2>4
  <2> QED
      BY <1>1, <1>4, <1>5, <2>1, <2>6, <2>7, <2>8
<1>11. ASSUME NEW k \in Jobs, Enqueues(k, M)
       PROVE  RetryInv(j, r)'
  <2> DEFINE new == [job |-> k, retry |-> 0]
  <2>1. /\ faults' = faults /\ q' = Xadd(q, new) /\ ~Enqueued(k)
        /\ Live(M, Acking)' = Live(M, Acking) + (IF new \in M THEN 1 ELSE 0)
      BY <1>11 DEF Enqueues
  <2>2. new \in Envelope /\ new.job = k
      BY <1>2 DEF Envelope
  <2>3. new \in M <=> k = j /\ 0 < r
      BY <1>2 DEF M, Earlier
  <2>4. new = it <=> k = j /\ 0 = r
      OBVIOUS
  <2> HIDE DEF new, it
  <2>5. /\ CountOf(q', {it}) = CountOf(q, {it}) + (IF new = it THEN 1 ELSE 0)
        /\ Enqueued(j)' <=> Enqueued(j) \/ k = j
      BY <1>7, <2>1, <2>2
  <2>6. Unstarted(j)' = Unstarted(j) - (IF k = j THEN 1 ELSE 0)
      BY <2>1, <2>5 DEF Unstarted
  <2>7. (IF k = j THEN 1 ELSE 0) = (IF new \in M THEN 1 ELSE 0) + (IF new = it THEN 1 ELSE 0)
      BY <1>2, <2>3, <2>4
  <2> QED
      BY <1>1, <1>4, <1>5, <2>1, <2>5, <2>6, <2>7
<1> QED
    BY <1>8, <1>9, <1>10, <1>11, FlowStep

LEMMA InitInv == Init => IndInv
<1> SUFFICES ASSUME Init, CoreInv PROVE OutcomeInv
    BY CoreInit DEF IndInv
<1>1. q = EmptyStream /\ raw = EmptyStream /\ dead = {} /\ faults = 0
    BY DEF Init, LoopInit
<1>2. Ids(EmptyStream) = {}
    BY EmptyStreamFacts
<1>3. \A M : CountOf(EmptyStream, M) = 0
    BY <1>2, FS_EmptySet DEF CountOf
<1>4. \A M : Live(M, Acking) = 0
  <2>1. \A M : Waiting(M) = {} /\ InHand(M, Acking) = {}
      BY <1>1, <1>2 DEF Waiting, InHand
  <2> QED
      BY <2>1, FS_EmptySet DEF Live
<1>5. \A j : Cardinality(Letters(j)) = 0
    BY <1>1, FS_EmptySet DEF Letters
<1>6. \A j : Unstarted(j) \in 0 .. 1
    BY DEF Unstarted
<1>7. \A j \in Jobs : EndsInv(j) /\ \A r \in 0 .. MaxRetries : RetryInv(j, r)
    BY <1>1, <1>3, <1>4, <1>5, <1>6 DEF EndsInv, RetryInv
<1> QED
    BY <1>7, OutcomeParts

LEMMA NextInv == IndInv /\ [Next]_vars => IndInv'
<1> SUFFICES ASSUME CoreInv, OutcomeInv, [Next]_vars PROVE CoreInv' /\ OutcomeInv'
    BY DEF IndInv
<1>1. CoreInv'
    BY CoreNext
<1>2. \A j \in Jobs : EndsInv(j)' /\ \A r \in 0 .. MaxRetries : RetryInv(j, r)'
    BY <1>1, OutcomeParts, EndsNext, RetryNext
<1>3. OutcomeInv'
    BY <1>2 DEF OutcomeInv, EndsInv, RetryInv, Envelopes, Earlier, Letters, RawOf
<1> QED
    BY <1>1, <1>3

\* The inductive invariant holds in every state of every behaviour.
THEOREM Invariance == Spec => []IndInv
BY InitInv, NextInv, PTL DEF Spec

\* Two members of a set that has at most one are the same.
LEMMA AtMostOne ==
    ASSUME NEW S, IsFiniteSet(S), Cardinality(S) <= 1, NEW x \in S, NEW y \in S
    PROVE  x = y
<1> SUFFICES ASSUME x # y PROVE FALSE
    OBVIOUS
<1>1. IsFiniteSet({x}) /\ Cardinality({x}) = 1
    BY FS_Singleton
<1>2. Cardinality({x} \cup {y}) = 2
  <2>1. y \notin {x}
      OBVIOUS
  <2>2. Cardinality({x} \cup {y}) = Cardinality({x}) + 1
      BY <1>1, <2>1, FS_AddElement
  <2> QED
      BY <1>1, <2>2
<1>3. Cardinality({x} \cup {y}) <= Cardinality(S)
    BY FS_Subset
<1> QED
    BY <1>2, <1>3, FS_CardinalityType

\* Without faults worker.py gives a job one outcome, and queues it once for each
\* retry count, whatever the interleaving of the crawlers.
THEOREM OneOutcome == Spec => []OneOutcomeWithoutFaults
<1>1. ASSUME IndInv PROVE OneOutcomeWithoutFaults
  <2> SUFFICES ASSUME faults = 0
               PROVE  /\ \A j \in Jobs :
                             Cardinality({i \in Ids(raw) : raw.log[i].job = j})
                                 + Cardinality({d \in dead : d.job = j}) <= 1
                      /\ \A i, k \in Ids(q) : q.log[i] = q.log[k] => i = k
      BY DEF OneOutcomeWithoutFaults
  <2>0. CoreInv /\ raw \in StreamOf(RawMessage) /\ q \in StreamOf(Envelope)
      BY <1>1, InvParts DEF IndInv, OwnTypeOK
  <2>1. ASSUME NEW j \in Jobs
        PROVE  Cardinality({i \in Ids(raw) : raw.log[i].job = j})
                   + Cardinality({d \in dead : d.job = j}) <= 1
    <3>1. {i \in Ids(raw) : raw.log[i].job = j} = {i \in Ids(raw) : raw.log[i] \in RawOf(j)}
      <4>1. \A i \in Ids(raw) : raw.log[i] \in RawMessage
          BY <2>0, EntryFacts
      <4>2. \A msg \in RawMessage : msg.job = j <=> msg \in RawOf(j)
          BY DEF RawOf, RawMessage
      <4> QED
          BY <4>1, <4>2
    <3>2. EndsInv(j)
        BY <1>1, OutcomeParts DEF IndInv
    <3>3. CountOf(raw, RawOf(j)) + Cardinality(Letters(j)) <= 1
        BY <2>0, <3>2, OutcomeTypes DEF EndsInv
    <3> QED
        BY <3>1, <3>3 DEF CountOf, Letters
  <2>2. ASSUME NEW i \in Ids(q), NEW k \in Ids(q), q.log[i] = q.log[k]
        PROVE  i = k
    <3> DEFINE it == q.log[i]
               S == {n \in Ids(q) : q.log[n] \in {it}}
    <3>1. it \in Envelope
        BY <2>0, EntryFacts
    <3>2. it = [job |-> it.job, retry |-> it.retry] /\ it.job \in Jobs /\ it.retry \in 0 .. MaxRetries
        BY <3>1 DEF Envelope
    <3> HIDE DEF it
    <3>3. RetryInv(it.job, it.retry)
        BY <1>1, <3>2, OutcomeParts DEF IndInv
    <3>4. CountOf(q, {it}) + Live(Earlier(it.job, it.retry), Acking) + Unstarted(it.job) <= 1
        BY <3>2, <3>3 DEF RetryInv
    <3>5. CountOf(q, {it}) <= 1
        BY <2>0, <3>4, OutcomeTypes
    <3>6. IsFiniteSet(S) /\ Cardinality(S) <= 1
        BY <2>0, <3>5, FiniteIds DEF CountOf
    <3>7. i \in S /\ k \in S
        BY <2>2 DEF it
    <3> QED
        BY <3>6, <3>7, AtMostOne
  <2> QED
      BY <2>1, <2>2
<1> QED
    BY <1>1, Invariance, PTL

-----------------------------------------------------------------------------
(* The crawler stage implements the safety part of AtLeastOnce.            *)

Settled(j) == Published(j) \/ Dead(j)

\* A step that opens, closes or settles one job is a step of the abstract stage:
\* since no job is lost, what it closes is settled, and what it settles is open.
LEMMA PromiseStep ==
    ASSUME NoJobLost, NoJobLost', NEW j \in Jobs, Enqueued(j)',
           \A x \in Jobs : x # j => (Open(x)' <=> Open(x)) /\ (Settled(x)' <=> Settled(x)),
           Settled(j) => Settled(j)',
           (Settled(j)' <=> Settled(j)) \/ (Enqueued(j) /\ (Open(j)' <=> Open(j)))
    PROVE  [Promise!Next]_(Promise!vars)
<1> DEFINE open == {x \in Jobs : Open(x)}
           openNext == {x \in Jobs : Open(x)'}
           settled == {x \in Jobs : Settled(x)}
           settledNext == {x \in Jobs : Settled(x)'}
<1>1. /\ Enqueued(j) => Settled(j) \/ Open(j)
      /\ Settled(j)' \/ Open(j)'
    BY DEF NoJobLost, Settled
<1>2. CASE ~Settled(j) /\ Settled(j)'
  <2>1. j \in open /\ openNext = open /\ settledNext = settled \cup {j}
      BY <1>1, <1>2
  <2>2. Promise!Settle(j)
      BY <2>1 DEF Promise!Settle, Settled
  <2> QED
      BY <2>2 DEF Promise!Next
<1>3. CASE (Settled(j)' <=> Settled(j)) /\ Open(j) /\ ~Open(j)'
  <2>1. j \in open /\ j \in settled /\ openNext = open \ {j} /\ settledNext = settled
      BY <1>1, <1>3
  <2>2. Promise!Close(j)
      BY <2>1 DEF Promise!Close, Settled
  <2> QED
      BY <2>2 DEF Promise!Next
<1>4. CASE (Settled(j)' <=> Settled(j)) /\ ~Open(j) /\ Open(j)'
  <2>1. j \notin open /\ openNext = open \cup {j} /\ settledNext = settled
      BY <1>4
  <2>2. Promise!Reopen(j) \/ Promise!Admit(j)
      BY <2>1 DEF Promise!Reopen, Promise!Admit, Settled
  <2> QED
      BY <2>2 DEF Promise!Next
<1>5. CASE (Settled(j)' <=> Settled(j)) /\ (Open(j)' <=> Open(j))
  <2>1. openNext = open /\ settledNext = settled
      BY <1>5
  <2> QED
      BY <2>1 DEF Promise!vars, Settled
<1> QED
    BY <1>2, <1>3, <1>4, <1>5

\* Steps of the crawler that the abstract stage does not see.
LEMMA PromiseStutter ==
    ASSUME q'.log = q.log, Unacked(q') = Unacked(q), UNCHANGED <<raw, dead>>
    PROVE  UNCHANGED (Promise!vars)
BY DEF Promise!vars, Open, Published, Dead

\* XADD of an entry opens its job.
LEMMA OpenStep ==
    ASSUME CoreInv, NoJobLost, NoJobLost', NEW msg \in Envelope, q' = Xadd(q, msg),
           UNCHANGED <<raw, dead>>
    PROVE  [Promise!Next]_(Promise!vars)
<1> DEFINE new == Len(q.log) + 1
<1>1. /\ Ids(q') = Ids(q) \cup {new}
      /\ \A i \in Ids(q) : q'.log[i] = q.log[i]
      /\ q'.log[new] = msg
      /\ Unacked(q') = Unacked(q) \cup {new}
      /\ Unacked(q) \subseteq Ids(q)
    BY InvParts, XaddFacts, EntryFacts
<1> HIDE DEF new
<1>2. msg.job \in Jobs /\ Enqueued(msg.job)'
    BY <1>1 DEF Envelope, Enqueued
<1>3. \A x \in Jobs : Settled(x)' <=> Settled(x)
    BY DEF Settled, Published, Dead
<1>4. \A x \in Jobs : x # msg.job => (Open(x)' <=> Open(x))
    BY <1>1 DEF Open
<1>5. ASSUME NEW j \in Jobs, j = msg.job
      PROVE  [Promise!Next]_(Promise!vars)
    BY <1>2, <1>3, <1>4, <1>5, PromiseStep
<1> QED
    BY <1>2, <1>5

\* An outcome of the job in a worker's hands settles it.
LEMMA SettleStep ==
    ASSUME CoreInv, NoJobLost, NoJobLost', NEW w \in Workers, pc[w] \in HandlerLabels,
           q' = q, \A x \in Jobs : Settled(x) => Settled(x)',
           \A x \in Jobs : x # Msg(w).job => (Settled(x)' <=> Settled(x))
    PROVE  [Promise!Next]_(Promise!vars)
<1>1. cur[w] \in Ids(q) /\ Msg(w).job \in Jobs
    BY InvParts, MsgFacts
<1>2. Enqueued(Msg(w).job)
    BY <1>1 DEF Enqueued, Msg
<1>3. \A x \in Jobs : (Open(x)' <=> Open(x)) /\ (Enqueued(x)' <=> Enqueued(x))
    BY DEF Open, Enqueued
<1>4. ASSUME NEW j \in Jobs, j = Msg(w).job
      PROVE  [Promise!Next]_(Promise!vars)
    BY <1>2, <1>3, <1>4, PromiseStep
<1> QED
    BY <1>1, <1>4

\* XACK closes the job of the worker's entry, if it has no other.
LEMMA CloseStep ==
    ASSUME CoreInv, NoJobLost, NoJobLost', NEW w \in Workers, pc[w] \in HandlerLabels,
           q'.log = q.log, Unacked(q') = Unacked(q) \ {cur[w]}, UNCHANGED <<raw, dead>>
    PROVE  [Promise!Next]_(Promise!vars)
<1>1. cur[w] \in Ids(q) /\ Msg(w).job \in Jobs
    BY InvParts, MsgFacts
<1>2. Ids(q') = Ids(q)
    BY DEF Ids
<1>3. \A x \in Jobs : (Settled(x)' <=> Settled(x)) /\ (Enqueued(x)' <=> Enqueued(x))
    BY <1>2 DEF Settled, Published, Dead, Enqueued
<1>4. \A x \in Jobs : x # Msg(w).job => (Open(x)' <=> Open(x))
    BY DEF Open, Msg
<1>5. Enqueued(Msg(w).job)
    BY <1>1 DEF Enqueued, Msg
<1>6. ASSUME NEW j \in Jobs, j = Msg(w).job
      PROVE  [Promise!Next]_(Promise!vars)
    BY <1>3, <1>4, <1>5, <1>6, PromiseStep
<1> QED
    BY <1>1, <1>6

\* A worker publishes a content of its job.
PublishedBy(w) ==
    /\ pc[w] \in HandlerLabels /\ q' = q /\ dead' = dead
    /\ \E c \in Contents : raw' = Xadd(raw, [job |-> Msg(w).job, content |-> c])

\* A worker dead-letters its job.
BuriedBy(w) ==
    /\ pc[w] \in HandlerLabels /\ q' = q /\ raw' = raw
    /\ \E r : dead' = dead \cup {[job |-> Msg(w).job, reason |-> r]}

\* A worker acknowledges its entry.
AckedBy(w) ==
    /\ pc[w] \in HandlerLabels /\ UNCHANGED <<raw, dead>>
    /\ q'.log = q.log /\ Unacked(q') = Unacked(q) \ {cur[w]}

\* What a step of the crawlers does to the streams.
LEMMA Moves ==
    ASSUME CoreInv, [Next]_vars
    PROVE  \/ q'.log = q.log /\ Unacked(q') = Unacked(q) /\ UNCHANGED <<raw, dead>>
           \/ (\E msg \in Envelope : q' = Xadd(q, msg)) /\ UNCHANGED <<raw, dead>>
           \/ \E w \in Workers : PublishedBy(w) \/ BuriedBy(w) \/ AckedBy(w)
<1> DEFINE Still == q'.log = q.log /\ Unacked(q') = Unacked(q) /\ UNCHANGED <<raw, dead>>
           Queued == (\E msg \in Envelope : q' = Xadd(q, msg)) /\ UNCHANGED <<raw, dead>>
<1>1. ASSUME NEW j \in Jobs, Enqueue(j)
      PROVE  Queued
  <2>1. [job |-> j, retry |-> 0] \in Envelope
      BY CrawlerAssumption DEF Envelope
  <2> QED
      BY <1>1, <2>1 DEF Enqueue
<1>2. ASSUME NEW w \in Workers, Requeue(w)
      PROVE  Queued
  <2>1. Msg(w) \in Envelope /\ Msg(w).retry < MaxRetries
      BY <1>2, InvParts, MsgFacts DEF Requeue, HandlerLabels
  <2>2. [Msg(w) EXCEPT !.retry = @ + 1] \in Envelope
      BY <2>1, CrawlerAssumption DEF Envelope
  <2> QED
      BY <1>2, <2>2 DEF Requeue
<1>3. ASSUME NEW w \in Workers, PublishRaw(w) \/ PublishFails(w)
      PROVE  Still \/ PublishedBy(w)
    BY <1>3 DEF PublishRaw, PublishFails, HandlerLabels, PublishedBy
<1>4. ASSUME NEW w \in Workers, BuryOpenCircuit(w) \/ BuryFailed(w)
      PROVE  BuriedBy(w)
    BY <1>4 DEF BuryOpenCircuit, BuryFailed, HandlerLabels, BuriedBy
<1>5. ASSUME NEW w \in Workers, Ack(w) \/ AckOkFails(w)
      PROVE  Still \/ AckedBy(w)
  <2>1. /\ pc[w] \in HandlerLabels /\ UNCHANGED <<raw, dead>>
        /\ q' = q \/ q' = Xack(q, cur[w])
      BY <1>5 DEF Ack, AckOkFails, AckAndFinish, HandlerLabels
  <2>2. cur[w] \in 1 .. q.last
      BY <2>1, InvParts, StreamFields DEF WorkInv
  <2>3. q' = Xack(q, cur[w]) => q'.log = q.log /\ Unacked(q') = Unacked(q) \ {cur[w]}
      BY <2>2, InvParts, XackFacts
  <2> QED
      BY <2>1, <2>3 DEF AckedBy
<1>6. ASSUME NEW w \in Workers, Loop(w) \/ Abort(w) \/ ClaimFails(w)
      PROVE  Still
  <2>1. /\ LoopStep(w) \/ LoseBatch(w) \/ ClaimError(w)
        /\ UNCHANGED <<raw, dead>>
      BY <1>6 DEF Loop, Abort, ClaimFails
  <2>2. q'.log = q.log /\ Unacked(q') = Unacked(q)
      BY <2>1, InvParts, LabelFacts, LoopFacts, LoopAssumption
  <2> QED
      BY <2>1, <2>2
<1>7. ASSUME NEW w \in Workers,
             \/ CheckCircuit(w) \/ FetchOk(w) \/ FetchRateLimited(w) \/ FetchFails(w)
             \/ FetchAgain(w) \/ SetCircuit(w) \/ ExpireCircuit(w)
      PROVE  Still
    BY <1>7 DEF CheckCircuit, FetchOk, FetchRateLimited, FetchFails, LeaveFetch, FetchAgain,
        SetCircuit, ExpireCircuit
<1>8. CASE Clock
  <2>1. ClockStep /\ UNCHANGED <<raw, dead>>
      BY <1>8 DEF Clock
  <2>2. q'.log = q.log /\ Unacked(q') = Unacked(q)
      BY <2>1, InvParts, ClockFacts, LoopAssumption
  <2> QED
      BY <2>1, <2>2
<1>9. CASE UNCHANGED vars \/ \E d \in Domains : CircuitTTL(d)
  <2>1. Still
      BY <1>9 DEF vars, loopVars, CircuitTTL
  <2> QED
      BY <2>1
<1> QED
    BY <1>1, <1>2, <1>3, <1>4, <1>5, <1>6, <1>7, <1>8, <1>9 DEF Next, Handler, Fault

\* Every step of the crawler is one of the abstract stage, or invisible to it.
LEMMA DeliveryStep ==
    ASSUME CoreInv, NoJobLost, NoJobLost', [Next]_vars
    PROVE  [Promise!Next]_(Promise!vars)
<1>1. ASSUME NEW w \in Workers, PublishedBy(w)
      PROVE  [Promise!Next]_(Promise!vars)
  <2>1. PICK c \in Contents : raw' = Xadd(raw, [job |-> Msg(w).job, content |-> c])
      BY <1>1 DEF PublishedBy
  <2> DEFINE new == Len(raw.log) + 1
  <2>2. [job |-> Msg(w).job, content |-> c] \in RawMessage
      BY <1>1, InvParts, MsgFacts DEF RawMessage, PublishedBy
  <2>3. /\ Ids(raw') = Ids(raw) \cup {new}
        /\ \A i \in Ids(raw) : raw'.log[i] = raw.log[i]
        /\ raw'.log[new].job = Msg(w).job
      BY <2>1, <2>2, InvParts, XaddFacts DEF OwnTypeOK
  <2> HIDE DEF new
  <2>4. \A x \in Jobs : /\ Published(x) => Published(x)'
                        /\ x # Msg(w).job => (Published(x)' <=> Published(x))
      BY <2>3 DEF Published
  <2>5. \A x \in Jobs : Dead(x)' <=> Dead(x)
      BY <1>1 DEF Dead, PublishedBy
  <2>6. \A x \in Jobs : /\ Settled(x) => Settled(x)'
                        /\ x # Msg(w).job => (Settled(x)' <=> Settled(x))
      BY <2>4, <2>5 DEF Settled
  <2> QED
      BY <1>1, <2>6, SettleStep DEF PublishedBy
<1>2. ASSUME NEW w \in Workers, BuriedBy(w)
      PROVE  [Promise!Next]_(Promise!vars)
  <2>1. \A x \in Jobs : /\ Settled(x) => Settled(x)'
                        /\ x # Msg(w).job => (Settled(x)' <=> Settled(x))
      BY <1>2 DEF Settled, Published, Dead, BuriedBy
  <2> QED
      BY <1>2, <2>1, SettleStep DEF BuriedBy
<1>3. ASSUME NEW w \in Workers, AckedBy(w)
      PROVE  [Promise!Next]_(Promise!vars)
    BY <1>3, CloseStep DEF AckedBy
<1> QED
    BY <1>1, <1>2, <1>3, Moves, OpenStep, PromiseStutter

\* The crawler stage is an at-least-once stage, fairness apart: an entry is
\* acknowledged for good only when its job has an outcome, and outcomes are stable.
THEOREM DeliversAtLeastOnce == Spec => SafeDelivery
<1>1. Init => Promise!Init
  <2>1. Init => q = EmptyStream /\ raw = EmptyStream /\ dead = {}
      BY DEF Init, LoopInit
  <2>2. Ids(EmptyStream) = {} /\ Unacked(EmptyStream) = {}
      BY EmptyStreamFacts DEF Unacked
  <2> QED
      BY <2>1, <2>2 DEF Promise!Init, Open, Published, Dead
<1>2. CoreInv /\ NoJobLost /\ NoJobLost' /\ [Next]_vars => [Promise!Next]_(Promise!vars)
    BY DeliveryStep
<1> QED
    BY <1>1, <1>2, CoreInvariance, CrawlerLosesNothing, PTL DEF Spec, SafeDelivery, Promise!Spec

-----------------------------------------------------------------------------
(* The stage in a pipeline.                                                *)

\* A step of another stage, which can take entries from raw_data, bury messages
\* for its own reasons, and fail.
Elsewhere ==
    /\ UNCHANGED <<q, pc, after, batch, cur, attempt, circuit, tried>>
    /\ raw' \in StreamOf(RawMessage) /\ raw'.log = raw.log
    /\ dead \subseteq dead' /\ dead' \subseteq DeadLetter
    /\ \A j \in Jobs :
           [job |-> j, reason |-> "failed"] \in dead' => [job |-> j, reason |-> "failed"] \in dead
    /\ faults' \in 0 .. MaxFaults /\ faults <= faults'

LEMMA ElsewhereStep ==
    ASSUME CoreInv, Elsewhere
    PROVE  CoreInv' /\ \A M : Live(M, Acking)' = Live(M, Acking)
<1>1. TypeOK'
    BY InvParts DEF Elsewhere, TypeOK, LoopTypeOK, OwnTypeOK
<1>2. WorkInv(HandlerLabels)'
    BY InvParts DEF Elsewhere, WorkInv
<1>3. Ids(raw') = Ids(raw) /\ Ids(q') = Ids(q) /\ Grows
    BY DEF Elsewhere, Ids, Grows
<1>4. EntryInv'
  <2>1. \A x \in Workers : pc'[x] \in Acking => pc[x] \in Acking /\ cur'[x] = cur[x]
      BY DEF Elsewhere
  <2>2. \A i \in Unacked(q) : i \in Unacked(q')
      BY DEF Elsewhere
  <2> QED
      BY <1>3, <2>1, <2>2, InvParts, EntryPreserved
<1>5. TryInv'
  <2>1. \A x \in Workers : pc'[x] \in PastFetch => pc[x] \in PastFetch /\ cur'[x] = cur[x]
      BY DEF Elsewhere
  <2> QED
      BY <1>3, <2>1, InvParts, TryPreserved
<1>6. RetriesExhausted'
    BY <1>1, <1>3, InvParts, RetriesPreserved DEF Elsewhere
<1>7. TTLOwedWithoutFaults'
  <2>1. faults > 0 => faults' > 0
      BY InvParts, LoopAssumption DEF Elsewhere
  <2>2. /\ \A d \in Domains : circuit'[d] = "openNoTTL" => circuit[d] = "openNoTTL"
        /\ \A x \in Workers : pc[x] = "expireCircuit" =>
               pc'[x] = "expireCircuit" /\ cur'[x] = cur[x]
      BY DEF Elsewhere
  <2> QED
      BY <1>3, <2>1, <2>2, InvParts, TTLPreserved
<1>8. \A M : Live(M, Acking)' = Live(M, Acking)
    BY DEF Elsewhere, Live, Waiting, InHand, Ids, Held
<1> QED
    BY <1>1, <1>2, <1>4, <1>5, <1>6, <1>7, <1>8 DEF CoreInv

\* Faults are never forgotten.
LEMMA FaultsGrow == ASSUME CoreInv, [Next]_vars PROVE faults <= faults'
<1>1. faults \in Nat
    BY LoopAssumption DEF CoreInv, TypeOK, LoopTypeOK
<1>2. faults' = faults \/ faults' = faults + 1
    BY DEF Next, Enqueue, Loop, LoopStep, Claim, Read, Handler, CheckCircuit, BuryOpenCircuit,
        FetchOk, FetchRateLimited, FetchFails, LeaveFetch, FetchAgain, PublishRaw, SetCircuit,
        ExpireCircuit, Requeue, BuryFailed, Ack, AckAndFinish, Fault, Abort, LoseBatch,
        ClaimFails, ClaimError, PublishFails, AckOkFails, SpendFault, Clock, ClockStep,
        OrphanGoesIdle, HeldGoesIdle, CircuitTTL, vars, loopVars
<1> QED
    BY <1>1, <1>2

=============================================================================
