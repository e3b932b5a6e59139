------------------------------- MODULE Processor -------------------------------
(***************************************************************************)
(* The processor stage: services/processor/worker.py.  Processors take     *)
(* fetched contents from raw_data (the stream q), drop those whose hash is *)
(* in the mission's Redis set, store a raw event, remember the hash, and   *)
(* pass the extracted fields on to clean_data.                             *)
(*                                                                         *)
(* The fields extracted from a content are a function of it (and of the    *)
(* target's extract config), so a message of clean_data carries the        *)
(* content itself.  The hash is of the URL and the first 2000 characters   *)
(* of the content, its head: contents that begin alike are duplicates.     *)
(***************************************************************************)
EXTENDS StreamWorker

CONSTANTS
    Jobs, Missions, Urls, Contents, Heads,
    MissionOf,     \* MissionOf[j]: the job's mission_id
    UrlOf,         \* UrlOf[j]: the job's target_url
    HeadOf,        \* HeadOf[c]: the first 2000 characters of content c
    MaxArrivals,   \* bound on the entries of raw_data
    MaxExpiries    \* bound on the expiries of each mission's dedup set

VARIABLES
    seen,      \* seen[m]: members of the Redis set dedup:<mission>
    seenTTL,   \* seenTTL[m]: whether that key has a TTL
    events,    \* ids of the entries that have a row in raw_events
    clean,     \* the clean_data stream
    expiries,  \* history: expiries[m], how often the dedup set of m expired
    torn       \* history: <<m, hash>> that a worker marked and then lost

local == <<seen, seenTTL, events, clean, expiries, torn>>
vars == <<loopVars, seen, seenTTL, events, clean, expiries, torn>>

ASSUME ProcessorAssumption ==
    /\ MissionOf \in [Jobs -> Missions]
    /\ UrlOf \in [Jobs -> Urls]
    /\ HeadOf \in [Contents -> Heads]
    /\ MaxArrivals \in Nat
    /\ MaxExpiries \in Nat

RawMessage == [job : Jobs, content : Contents]

Hashes == [url : Urls, head : Heads]

HandlerLabels == {"start", "drop", "persist", "markSeen", "touch", "forward", "ack"}

\* Faulty variant of ContentHash: the URL is left out of the hash.
HeadHash(msg) == [head |-> HeadOf[msg.content]]

\* _content_hash, within the set of the message's mission.
ContentHash(msg) == [url |-> UrlOf[msg.job], head |-> HeadOf[msg.content]]

Mission(w) == MissionOf[Msg(w).job]
Hash(w) == ContentHash(Msg(w))

Init ==
    /\ LoopInit
    /\ faults = 0
    /\ seen = [m \in Missions |-> {}]
    /\ seenTTL = [m \in Missions |-> FALSE]
    /\ events = {}
    /\ clean = EmptyStream
    /\ expiries = [m \in Missions |-> 0]
    /\ torn = {}

InHandler == UNCHANGED <<after, batch, cur>>

-----------------------------------------------------------------------------
(* Faulty variants of the actions below, which the properties must reject. *)

\* CheckDuplicate by the answer of SADD, which marks the content too early.
CheckBySadd(w) ==
    /\ pc[w] = "start"
    /\ Goto(w, IF Hash(w) \in seen[Mission(w)] THEN "drop" ELSE "persist")
    /\ seen' = [seen EXCEPT ![Mission(w)] = @ \cup {Hash(w)}]
    /\ InHandler
    /\ UNCHANGED <<q, faults, seenTTL, events, clean, expiries, torn>>

\* DropDuplicate without XACK.
DropUnacknowledged(w) ==
    /\ pc[w] = "drop"
    /\ Finish(w)
    /\ UNCHANGED <<q, faults, local>>

\* PersistRawEvent without a commit.
PersistNothing(w) ==
    /\ pc[w] = "persist"
    /\ Goto(w, "markSeen")
    /\ InHandler
    /\ UNCHANGED <<q, faults, local>>

\* MarkSeen without SADD.
MarkNothing(w) ==
    /\ pc[w] = "markSeen"
    /\ Goto(w, "touch")
    /\ InHandler
    /\ UNCHANGED <<q, faults, local>>

-----------------------------------------------------------------------------
\* A crawler publishes a content; a job may be fetched, and publish, again.
Arrive(msg) ==
    /\ Len(q.log) < MaxArrivals
    /\ q' = Xadd(q, msg)
    /\ UNCHANGED <<pc, after, batch, cur, faults, local>>

Loop(w) == LoopStep(w) /\ UNCHANGED local

\* await r.sismember.
CheckDuplicate(w) ==
    /\ pc[w] = "start"
    /\ Goto(w, IF Hash(w) \in seen[Mission(w)] THEN "drop" ELSE "persist")
    /\ InHandler
    /\ UNCHANGED <<q, faults, local>>

\* A duplicate is acknowledged and forgotten.
DropDuplicate(w) ==
    /\ pc[w] = "drop"
    /\ AckAndFinish(w)
    /\ UNCHANGED local

\* The insert into raw_events.
PersistRawEvent(w) ==
    /\ pc[w] = "persist"
    /\ events' = events \cup {cur[w]}
    /\ Goto(w, "markSeen")
    /\ InHandler
    /\ UNCHANGED <<q, faults, seen, seenTTL, clean, expiries, torn>>

\* An error of that insert, committed or not, is logged and ignored.
PersistFails(w) ==
    /\ pc[w] = "persist"
    /\ SpendFault
    /\ events' \in {events, events \cup {cur[w]}}
    /\ Goto(w, "markSeen")
    /\ InHandler
    /\ UNCHANGED <<q, seen, seenTTL, clean, expiries, torn>>

\* await r.sadd, which keeps the TTL of a set that has one ...
MarkSeen(w) ==
    /\ pc[w] = "markSeen"
    /\ seen' = [seen EXCEPT ![Mission(w)] = @ \cup {Hash(w)}]
    /\ Goto(w, "touch")
    /\ InHandler
    /\ UNCHANGED <<q, faults, seenTTL, events, clean, expiries, torn>>

\* ... await r.expire, which does nothing when the set is gone ...
TouchTTL(w) ==
    /\ pc[w] = "touch"
    /\ seenTTL' = [seenTTL EXCEPT ![Mission(w)] = seen[Mission(w)] # {}]
    /\ Goto(w, "forward")
    /\ InHandler
    /\ UNCHANGED <<q, faults, seen, events, clean, expiries, torn>>

\* ... and then the xadd to clean_data.
Forward(w) ==
    /\ pc[w] = "forward"
    /\ clean' = Xadd(clean, Msg(w))
    /\ Goto(w, "ack")
    /\ InHandler
    /\ UNCHANGED <<q, faults, seen, seenTTL, events, expiries, torn>>

Ack(w) ==
    /\ pc[w] = "ack"
    /\ AckAndFinish(w)
    /\ UNCHANGED local

-----------------------------------------------------------------------------
Handler(w) ==
    \/ CheckDuplicate(w)
    \/ DropDuplicate(w)
    \/ PersistRawEvent(w)
    \/ MarkSeen(w)
    \/ TouchTTL(w)
    \/ Forward(w)
    \/ Ack(w)

\* The worker has marked its content and not yet forwarded it.
Carrying(w) == pc[w] \in {"touch", "forward"}

Abort(w) ==
    /\ LoseBatch(w)
    /\ torn' = IF Carrying(w) THEN torn \cup {<<Mission(w), Hash(w)>>} ELSE torn
    /\ UNCHANGED <<seen, seenTTL, events, clean, expiries>>

ClaimFails(w) == ClaimError(w) /\ UNCHANGED local

Fault(w) == Abort(w) \/ ClaimFails(w) \/ PersistFails(w)

Clock == ClockStep /\ UNCHANGED local

\* The dedup set expires, DEDUP_TTL after the last content was added.
DedupTTL(m) ==
    /\ seenTTL[m]
    /\ expiries[m] < MaxExpiries
    /\ seen' = [seen EXCEPT ![m] = {}]
    /\ seenTTL' = [seenTTL EXCEPT ![m] = FALSE]
    /\ expiries' = [expiries EXCEPT ![m] = @ + 1]
    /\ UNCHANGED <<loopVars, events, clean, torn>>

Next ==
    \/ \E msg \in RawMessage : Arrive(msg)
    \/ \E w \in Workers : Loop(w) \/ Handler(w) \/ Fault(w)
    \/ Clock
    \/ \E m \in Missions : DedupTTL(m)

\* As in Crawler: running workers go on, and orphaned entries become claimable.
Fairness ==
    /\ \A w \in Workers : WF_vars(Loop(w) \/ Handler(w))
    /\ WF_vars(OrphanGoesIdle /\ UNCHANGED local)

Spec == Init /\ [][Next]_vars

FairSpec == Spec /\ Fairness

-----------------------------------------------------------------------------
(* Properties.                                                             *)

TypeOK ==
    /\ LoopTypeOK(RawMessage, HandlerLabels)
    /\ seen \in [Missions -> SUBSET Hashes]
    /\ seenTTL \in [Missions -> BOOLEAN]
    /\ events \subseteq Nat
    /\ clean \in StreamOf(RawMessage)
    /\ expiries \in [Missions -> 0 .. MaxExpiries]
    /\ torn \subseteq Missions \X Hashes

Same(msg1, msg2) ==
    /\ MissionOf[msg1.job] = MissionOf[msg2.job]
    /\ ContentHash(msg1) = ContentHash(msg2)

Forwarded(msg) == \E k \in Ids(clean) : Same(clean.log[k], msg)

CarriedBy(w, msg) == Carrying(w) /\ Same(Msg(w), msg)

Acknowledged(i) == i \in Ids(q) \ Unacked(q)

\* The content of an acknowledged entry is in clean_data, or a worker that
\* marked it is about to put it there: what a stage that loses no message
\* promises (AGENT_SWARM_PROPOSAL.md: by PEL and XAUTOCLAIM).
NoContentLost ==
    \A i \in Ids(q) :
        Acknowledged(i) =>
            Forwarded(q.log[i]) \/ \E w \in Workers : CarriedBy(w, q.log[i])

\* The content of a message is in clean_data, on its way there, or was torn from
\* the worker that had marked it.
Accounted(msg) ==
    \/ Forwarded(msg)
    \/ \E w \in Workers : CarriedBy(w, msg)
    \/ <<MissionOf[msg.job], ContentHash(msg)>> \in torn

\* The one way to lose a content: its worker stopped between SADD and XADD,
\* and the redelivered entry was then taken for its own duplicate.
OnlyTornContentLost ==
    \A i \in Ids(q) : Acknowledged(i) => Accounted(q.log[i])

\* The check and the SADD are two commands, so a content can be forwarded more
\* than once; but at most once by each worker in each life of the dedup set,
\* whatever is redelivered, crashes or races.
DedupBound ==
    \A k \in Ids(clean) :
        Cardinality({i \in Ids(clean) : Same(clean.log[i], clean.log[k])})
            <= Cardinality(Workers) * (1 + expiries[MissionOf[clean.log[k].job]])

\* Without faults every content in clean_data has its row in raw_events, and
\* no entry gets one without being forwarded by the worker that wrote it.
RawEventsWithoutFaults ==
    faults = 0 =>
        /\ \A k \in Ids(clean) : \E i \in events : q.log[i] = clean.log[k]
        /\ \A i \in events :
               \/ \E k \in Ids(clean) : clean.log[k] = q.log[i]
               \/ \E w \in Workers : cur[w] = i

\* When faults stop, every entry of raw_data is acknowledged for good: no claim
\* and no early return makes a message go round for ever.  (One that stops its
\* processor at every delivery is a fault that never stops, and does.)
EventuallyDrained == <>[](Unacked(q) = {})

-----------------------------------------------------------------------------
(* The invariant that the proofs of ProcessorProofs use.                   *)

\* Whatever the dedup set, an acknowledgement or a worker takes for done is.
AccountInv ==
    /\ \A msg \in RawMessage :
           ContentHash(msg) \in seen[MissionOf[msg.job]] => Accounted(msg)
    /\ \A i \in Ids(q) : i \in Unacked(q) \/ Accounted(q.log[i])
    /\ \A w \in Workers : pc[w] \in {"drop", "ack"} => Accounted(Msg(w))

\* The handler is past the insert into raw_events.
Persisted == {"markSeen", "touch", "forward", "ack"}

\* Without faults, raw events and forwarded contents match, up to the workers
\* between the two.
EventInv ==
    /\ events \subseteq Ids(q)
    /\ faults = 0 =>
        /\ \A k \in Ids(clean) : \E i \in events : q.log[i] = clean.log[k]
        /\ \A i \in events :
               \/ \E k \in Ids(clean) : clean.log[k] = q.log[i]
               \/ \E w \in Workers : cur[w] = i /\ pc[w] \in Persisted
        /\ \A w \in Workers : pc[w] \in Persisted => cur[w] \in events
        /\ \A w \in Workers : pc[w] = "ack" => \E k \in Ids(clean) : clean.log[k] = Msg(w)

CoreInv == TypeOK /\ WorkInv(HandlerLabels) /\ AccountInv /\ EventInv

\* The labels at which a handler only acknowledges its entry.
Acking == {"drop", "ack"}

\* Where the copies of a message are, or will be: in clean_data, with the workers
\* that marked it, and with those that found it new and have yet to mark it.
Copies(msg) == {k \in Ids(clean) : Same(clean.log[k], msg)}
Carriers(msg) == {w \in Workers : CarriedBy(w, msg)}
Checked(msg) == {w \in Workers : pc[w] \in {"persist", "markSeen"} /\ Same(Msg(w), msg)}

\* A life of the dedup set makes at most one copy per worker: those that passed
\* the check before the first of them marked the content.
DedupInv ==
    \A msg \in RawMessage :
        LET m == MissionOf[msg.job]
            made == Cardinality(Copies(msg)) + Cardinality(Carriers(msg))
        IN  IF ContentHash(msg) \in seen[m]
            THEN made + Cardinality(Checked(msg)) <= Cardinality(Workers) * (1 + expiries[m])
            ELSE made <= Cardinality(Workers) * expiries[m]

IndInv == CoreInv /\ DedupInv

=============================================================================
