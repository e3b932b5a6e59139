---------------------------- MODULE ProcessorProofs ----------------------------
(***************************************************************************)
(* Safety of the processor stage for every number of workers, missions and *)
(* contents, whichever contents begin alike, and for any faults, expiries  *)
(* and arrivals.  CoreInv of Processor is inductive: whatever is taken for  *)
(* done is forwarded, carried by a worker or torn (AccountInv), and raw    *)
(* events and forwarded contents match (EventInv).                         *)
(***************************************************************************)
EXTENDS Processor, StreamWorkerProofs, FiniteSetTheorems

\* The streams and histories that only ever grow.
Grows ==
    /\ Ids(q) \subseteq Ids(q') /\ \A i \in Ids(q) : q'.log[i] = q.log[i]
    /\ Ids(clean) \subseteq Ids(clean') /\ \A k \in Ids(clean) : clean'.log[k] = clean.log[k]
    /\ torn \subseteq torn'

\* A message is accounted for after the step.
NowAccounted(msg) ==
    \/ \E k \in Ids(clean') : Same(clean'.log[k], msg)
    \/ \E x \in Workers : pc'[x] \in {"touch", "forward"} /\ Same(q'.log[cur'[x]], msg)
    \/ <<MissionOf[msg.job], ContentHash(msg)>> \in torn'

\* What a worker carries is still carried, forwarded or torn after the step.
CarriedOn ==
    \A x \in Workers : Carrying(x) =>
        \/ pc'[x] \in {"touch", "forward"} /\ cur'[x] = cur[x]
        \/ \E k \in Ids(clean') : Same(clean'.log[k], Msg(x))
        \/ <<Mission(x), Hash(x)>> \in torn'

\* The facts about the labels that the loop's lemmas ask for.
LEMMA LabelFacts ==
    /\ {"start"} \subseteq HandlerLabels
    /\ {"claim", "read"} \cap HandlerLabels = {}
    /\ Persisted \subseteq HandlerLabels
BY DEF HandlerLabels, Persisted

\* The types of the stage's own variables.
OwnTypeOK ==
    /\ seen \in [Missions -> SUBSET Hashes]
    /\ seenTTL \in [Missions -> BOOLEAN]
    /\ events \subseteq Nat
    /\ clean \in StreamOf(RawMessage)
    /\ expiries \in [Missions -> 0 .. MaxExpiries]
    /\ torn \subseteq Missions \X Hashes

\* The parts of the invariant, in the form in which the steps use them.
LEMMA InvParts ==
    ASSUME CoreInv
    PROVE  /\ TypeOK /\ LoopTypeOK(RawMessage, HandlerLabels) /\ OwnTypeOK
           /\ WorkInv(HandlerLabels) /\ AccountInv /\ EventInv
           /\ q \in StreamOf(RawMessage)
           /\ pc \in [Workers -> {"claim", "read"} \cup HandlerLabels]
           /\ faults \in 0 .. MaxFaults /\ MaxFaults \in Nat
BY LoopAssumption DEF CoreInv, TypeOK, LoopTypeOK, OwnTypeOK

\* A handler's message is one of its input stream.
LEMMA MsgFacts ==
    ASSUME TypeOK, WorkInv(HandlerLabels), NEW w \in Workers, pc[w] \in HandlerLabels
    PROVE  /\ cur[w] \in Ids(q)
           /\ Msg(w) \in RawMessage
           /\ Mission(w) \in Missions
           /\ Hash(w) \in Hashes
<1>1. q \in StreamOf(RawMessage) /\ q.last \in Nat
    BY StreamFields DEF TypeOK, LoopTypeOK
<1>2. cur[w] \in 1 .. q.last
    BY <1>1 DEF WorkInv
<1>3. cur[w] \in Ids(q) /\ Msg(w) \in RawMessage
    BY <1>1, <1>2, EntryFacts DEF Msg
<1>4. Msg(w).job \in Jobs /\ Msg(w).content \in Contents
    BY <1>3 DEF RawMessage
<1> QED
    BY <1>3, <1>4, ProcessorAssumption DEF Mission, Hash, ContentHash, Hashes

-----------------------------------------------------------------------------
(* How each part of the invariant is preserved.                            *)

\* What is accounted for stays so.
LEMMA AccountedStable ==
    ASSUME TypeOK, WorkInv(HandlerLabels), Grows, CarriedOn
    PROVE  \A msg \in RawMessage : Accounted(msg) => NowAccounted(msg)
<1> SUFFICES ASSUME NEW msg \in RawMessage, Accounted(msg)
             PROVE  NowAccounted(msg)
    OBVIOUS
<1>1. CASE Forwarded(msg)
    BY <1>1 DEF Forwarded, NowAccounted, Grows
<1>2. ASSUME NEW x \in Workers, CarriedBy(x, msg)
      PROVE  NowAccounted(msg)
  <2>1. Carrying(x) /\ Same(Msg(x), msg)
      BY <1>2 DEF CarriedBy
  <2>2. cur[x] \in Ids(q)
      BY <2>1, MsgFacts DEF Carrying, HandlerLabels
  <2>3. CASE pc'[x] \in {"touch", "forward"} /\ cur'[x] = cur[x]
    <3>1. q'.log[cur'[x]] = Msg(x)
        BY <2>2, <2>3 DEF Grows, Msg
    <3> QED
        BY <2>1, <2>3, <3>1 DEF NowAccounted
  <2>4. CASE \E k \in Ids(clean') : Same(clean'.log[k], Msg(x))
      BY <2>1, <2>4 DEF Same, NowAccounted
  <2>5. CASE <<Mission(x), Hash(x)>> \in torn'
      BY <2>1, <2>5 DEF Same, NowAccounted, Mission, Hash
  <2> QED
      BY <2>1, <2>3, <2>4, <2>5 DEF CarriedOn
<1>3. CASE <<MissionOf[msg.job], ContentHash(msg)>> \in torn
    BY <1>3 DEF NowAccounted, Grows
<1> QED
    BY <1>1, <1>2, <1>3 DEF Accounted

LEMMA AccountPreserved ==
    ASSUME TypeOK, WorkInv(HandlerLabels), AccountInv, Grows, CarriedOn,
           \A msg \in RawMessage :
               ContentHash(msg) \in seen'[MissionOf[msg.job]] =>
                   ContentHash(msg) \in seen[MissionOf[msg.job]] \/ NowAccounted(msg),
           \A i \in Ids(q') : i \in Ids(q) \/ i \in Unacked(q'),
           \A i \in Unacked(q) : i \in Unacked(q') \/ NowAccounted(q.log[i]),
           \A x \in Workers : pc'[x] \in {"drop", "ack"} =>
               (pc[x] \in {"drop", "ack"} /\ cur'[x] = cur[x]) \/ NowAccounted(q'.log[cur'[x]])
    PROVE  AccountInv'
<1>1. \A msg \in RawMessage : Accounted(msg) => NowAccounted(msg)
    BY AccountedStable
<1>2. ASSUME NEW msg \in RawMessage, ContentHash(msg) \in seen'[MissionOf[msg.job]]
      PROVE  NowAccounted(msg)
    BY <1>1, <1>2 DEF AccountInv
<1>3. ASSUME NEW i \in Ids(q')
      PROVE  i \in Unacked(q') \/ NowAccounted(q'.log[i])
  <2>1. CASE i \in Ids(q)
    <3>1. q.log[i] \in RawMessage /\ q'.log[i] = q.log[i]
        BY <2>1, EntryFacts DEF TypeOK, LoopTypeOK, Grows
    <3> QED
        BY <1>1, <2>1, <3>1 DEF AccountInv
  <2> QED
      BY <1>3, <2>1
<1>4. ASSUME NEW x \in Workers, pc'[x] \in {"drop", "ack"}
      PROVE  NowAccounted(q'.log[cur'[x]])
  <2>1. CASE pc[x] \in {"drop", "ack"} /\ cur'[x] = cur[x]
    <3>1. cur[x] \in Ids(q) /\ Msg(x) \in RawMessage
        BY <2>1, MsgFacts DEF HandlerLabels
    <3>2. q'.log[cur'[x]] = Msg(x)
        BY <2>1, <3>1 DEF Grows, Msg
    <3> QED
        BY <1>1, <2>1, <3>1, <3>2 DEF AccountInv
  <2> QED
      BY <1>4, <2>1
<1> QED
    BY <1>2, <1>3, <1>4 DEF AccountInv, Accounted, NowAccounted, Forwarded, CarriedBy,
        Carrying, Msg

\* Steps that neither insert a raw event nor forward a content.
LEMMA EventPreserved ==
    ASSUME TypeOK, WorkInv(HandlerLabels), EventInv, Grows,
           UNCHANGED <<clean, events>>,
           faults' = 0 => faults = 0,
           \A x \in Workers : pc'[x] \in Persisted =>
               /\ pc[x] \in Persisted /\ cur'[x] = cur[x]
               /\ pc'[x] = "ack" => pc[x] = "ack",
           \A x \in Workers : pc[x] \in Persisted =>
               \/ pc'[x] \in Persisted /\ cur'[x] = cur[x]
               \/ pc[x] = "ack"
               \/ faults' # 0
    PROVE  EventInv'
<1>1. events' \subseteq Ids(q')
    BY DEF EventInv, Grows
<1> SUFFICES ASSUME faults' = 0
             PROVE  /\ \A k \in Ids(clean') : \E i \in events' : q'.log[i] = clean'.log[k]
                    /\ \A i \in events' :
                           \/ \E k \in Ids(clean') : clean'.log[k] = q'.log[i]
                           \/ \E x \in Workers : cur'[x] = i /\ pc'[x] \in Persisted
                    /\ \A x \in Workers : pc'[x] \in Persisted => cur'[x] \in events'
                    /\ \A x \in Workers : pc'[x] = "ack" =>
                           \E k \in Ids(clean') : clean'.log[k] = q'.log[cur'[x]]
    BY <1>1 DEF EventInv, Persisted, Msg
<1>2. faults = 0 /\ \A i \in events : q'.log[i] = q.log[i]
    BY DEF EventInv, Grows
<1>3. \A k \in Ids(clean') : \E i \in events' : q'.log[i] = clean'.log[k]
    BY <1>2 DEF EventInv
<1>4. ASSUME NEW i \in events
      PROVE  \/ \E k \in Ids(clean) : clean.log[k] = q.log[i]
             \/ \E x \in Workers : cur'[x] = i /\ pc'[x] \in Persisted
  <2>1. ASSUME NEW x \in Workers, cur[x] = i, pc[x] \in Persisted
        PROVE  \/ \E k \in Ids(clean) : clean.log[k] = q.log[i]
               \/ \E y \in Workers : cur'[y] = i /\ pc'[y] \in Persisted
    <3>1. CASE pc'[x] \in Persisted /\ cur'[x] = cur[x]
        BY <2>1, <3>1
    <3>2. CASE pc[x] = "ack"
        BY <1>2, <2>1, <3>2 DEF EventInv, Msg
    <3> QED
        BY <2>1, <3>1, <3>2
  <2> QED
      BY <1>2, <2>1 DEF EventInv
<1>5. \A x \in Workers : pc'[x] \in Persisted => cur'[x] \in events'
    BY <1>2 DEF EventInv
<1>6. ASSUME NEW x \in Workers, pc'[x] = "ack"
      PROVE  \E k \in Ids(clean') : clean'.log[k] = q'.log[cur'[x]]
  <2>1. pc[x] = "ack" /\ cur'[x] = cur[x]
      BY <1>6 DEF Persisted
  <2>2. cur[x] \in events
      BY <1>2, <2>1 DEF EventInv, Persisted
  <2> QED
      BY <1>2, <2>1, <2>2 DEF EventInv, Msg
<1> QED
    BY <1>2, <1>3, <1>4, <1>5, <1>6

-----------------------------------------------------------------------------
(* The steps.                                                              *)

\* A step of the handler that leaves the input stream alone.
LEMMA MoveFacts ==
    ASSUME CoreInv, NEW w \in Workers, pc[w] \in HandlerLabels,
           NEW label \in HandlerLabels, Goto(w, label), InHandler, q' = q,
           faults' \in 0 .. MaxFaults
    PROVE  /\ LoopTypeOK(RawMessage, HandlerLabels)' /\ WorkInv(HandlerLabels)'
           /\ pc'[w] = label
           /\ \A x \in Workers : x # w => pc'[x] = pc[x]
           /\ cur' = cur
           /\ \A i \in Ids(q') : i \in Ids(q)
           /\ \A i \in Unacked(q) : i \in Unacked(q')
BY InvParts, HandlerMoveFacts DEF InHandler

LEMMA CheckDuplicateStep ==
    ASSUME CoreInv, NEW w \in Workers, CheckDuplicate(w)
    PROVE  CoreInv'
<1> DEFINE label == IF Hash(w) \in seen[Mission(w)] THEN "drop" ELSE "persist"
<1>1. /\ pc[w] = "start" /\ pc[w] \in HandlerLabels /\ label \in HandlerLabels
      /\ Goto(w, label) /\ InHandler
      /\ UNCHANGED <<q, faults, seen, seenTTL, events, clean, expiries, torn>>
    BY DEF CheckDuplicate, HandlerLabels, local
<1>2. /\ LoopTypeOK(RawMessage, HandlerLabels)' /\ WorkInv(HandlerLabels)'
      /\ pc'[w] = label
      /\ \A x \in Workers : x # w => pc'[x] = pc[x]
      /\ cur' = cur
      /\ \A i \in Ids(q') : i \in Ids(q)
      /\ \A i \in Unacked(q) : i \in Unacked(q')
  <2> HIDE DEF label
  <2> QED
      BY <1>1, InvParts, MoveFacts
<1>3. TypeOK'
    BY <1>1, <1>2, InvParts DEF TypeOK, OwnTypeOK, LoopTypeOK
<1>4. Grows
    BY <1>1 DEF Grows
<1>5. CarriedOn
    BY <1>1, <1>2 DEF CarriedOn, Carrying
<1>6. AccountInv'
  <2>1. ASSUME Hash(w) \in seen[Mission(w)]
        PROVE  NowAccounted(q'.log[cur'[w]])
    <3>1. Msg(w) \in RawMessage
        BY <1>1, InvParts, MsgFacts
    <3>2. Accounted(Msg(w))
        BY <2>1, <3>1, InvParts DEF AccountInv, Hash, Mission
    <3>3. q'.log[cur'[w]] = Msg(w)
        BY <1>1, <1>2 DEF Msg
    <3> QED
        BY <1>4, <1>5, <3>1, <3>2, <3>3, InvParts, AccountedStable
  <2>2. \A x \in Workers : pc'[x] \in {"drop", "ack"} =>
            (pc[x] \in {"drop", "ack"} /\ cur'[x] = cur[x]) \/ NowAccounted(q'.log[cur'[x]])
      BY <1>2, <2>1
  <2> QED
      BY <1>1, <1>2, <1>4, <1>5, <2>2, InvParts, AccountPreserved
<1>7. EventInv'
    BY <1>1, <1>2, <1>4, InvParts, EventPreserved DEF Persisted
<1> QED
    BY <1>2, <1>3, <1>6, <1>7 DEF CoreInv

\* XACK of a duplicate, or of a content that was forwarded.
LEMMA AckStep ==
    ASSUME CoreInv, NEW w \in Workers, DropDuplicate(w) \/ Ack(w)
    PROVE  CoreInv'
<1>1. /\ pc[w] \in {"drop", "ack"} /\ pc[w] \in HandlerLabels
      /\ AckAndFinish(w) /\ faults' = faults
      /\ UNCHANGED <<seen, seenTTL, events, clean, expiries, torn>>
    BY DEF DropDuplicate, Ack, AckAndFinish, HandlerLabels, local
<1>2. /\ LoopTypeOK(RawMessage, HandlerLabels)' /\ WorkInv(HandlerLabels)' /\ OnlyMoves(w)
      /\ q'.log = q.log
      /\ Unacked(q') = Unacked(q) \ {cur[w]}
    BY <1>1, InvParts, LabelFacts, AckAndFinishFacts
<1>3. TypeOK'
    BY <1>1, <1>2, InvParts DEF TypeOK, OwnTypeOK, LoopTypeOK
<1>4. Grows /\ Ids(q') = Ids(q)
    BY <1>1, <1>2 DEF Grows, Ids
<1>5. /\ pc'[w] \in {"claim", "read", "start"}
      /\ \A x \in Workers : x # w => pc'[x] = pc[x] /\ cur'[x] = cur[x]
    BY <1>2 DEF OnlyMoves
<1>6. CarriedOn
    BY <1>1, <1>5 DEF CarriedOn, Carrying
<1>7. AccountInv'
  <2>1. Msg(w) \in RawMessage /\ Accounted(Msg(w))
      BY <1>1, InvParts, MsgFacts DEF AccountInv
  <2>2. NowAccounted(q.log[cur[w]])
      BY <1>4, <1>6, <2>1, InvParts, AccountedStable DEF Msg
  <2>3. \A i \in Unacked(q) : i \in Unacked(q') \/ NowAccounted(q.log[i])
      BY <1>2, <2>2
  <2> QED
      BY <1>1, <1>4, <1>5, <1>6, <2>3, InvParts, AccountPreserved
<1>8. EventInv'
  <2>1. \A x \in Workers : pc'[x] \in Persisted =>
            /\ pc[x] \in Persisted /\ cur'[x] = cur[x]
            /\ pc'[x] = "ack" => pc[x] = "ack"
      BY <1>5 DEF Persisted
  <2>2. \A x \in Workers : pc[x] \in Persisted =>
            (pc'[x] \in Persisted /\ cur'[x] = cur[x]) \/ pc[x] = "ack"
      BY <1>1, <1>5 DEF Persisted
  <2> QED
      BY <1>1, <1>4, <2>1, <2>2, InvParts, EventPreserved
<1> QED
    BY <1>2, <1>3, <1>7, <1>8 DEF CoreInv

\* The insert into raw_events, done or failed.
LEMMA PersistStep ==
    ASSUME CoreInv, NEW w \in Workers, PersistRawEvent(w) \/ PersistFails(w)
    PROVE  CoreInv'
<1>1. /\ pc[w] = "persist" /\ pc[w] \in HandlerLabels /\ "markSeen" \in HandlerLabels
      /\ Goto(w, "markSeen") /\ InHandler
      /\ UNCHANGED <<q, seen, seenTTL, clean, expiries, torn>>
      /\ events' \in {events, events \cup {cur[w]}}
      /\ \/ faults' = faults /\ events' = events \cup {cur[w]}
         \/ faults' = faults + 1 /\ faults < MaxFaults
    BY DEF PersistRawEvent, PersistFails, SpendFault, HandlerLabels
<1>2. faults' \in 0 .. MaxFaults
    BY <1>1, InvParts
<1>3. /\ LoopTypeOK(RawMessage, HandlerLabels)' /\ WorkInv(HandlerLabels)'
      /\ pc'[w] = "markSeen"
      /\ \A x \in Workers : x # w => pc'[x] = pc[x]
      /\ cur' = cur
      /\ \A i \in Ids(q') : i \in Ids(q)
      /\ \A i \in Unacked(q) : i \in Unacked(q')
    BY <1>1, <1>2, InvParts, MoveFacts
<1>4. cur[w] \in Ids(q) /\ Ids(q) \subseteq Nat
    BY <1>1, InvParts, MsgFacts, EntryFacts
<1>5. TypeOK'
    BY <1>1, <1>3, <1>4, InvParts DEF TypeOK, OwnTypeOK, LoopTypeOK
<1>6. Grows
    BY <1>1 DEF Grows
<1>7. CarriedOn
    BY <1>1, <1>3 DEF CarriedOn, Carrying
<1>8. AccountInv'
  <2>1. \A x \in Workers : pc'[x] \in {"drop", "ack"} =>
            pc[x] \in {"drop", "ack"} /\ cur'[x] = cur[x]
      BY <1>3
  <2> QED
      BY <1>1, <1>3, <1>6, <1>7, <2>1, InvParts, AccountPreserved
<1>9. EventInv'
  <2>1. events' \subseteq Ids(q')
      BY <1>1, <1>4, InvParts DEF EventInv
  <2>2. CASE faults' = faults + 1
    <3>1. faults' # 0
        BY <2>2, InvParts
    <3> QED
        BY <2>1, <3>1 DEF EventInv
  <2>3. CASE faults' = faults /\ events' = events \cup {cur[w]}
    <3> SUFFICES ASSUME faults = 0
                 PROVE  /\ \A k \in Ids(clean) : \E i \in events' : q.log[i] = clean.log[k]
                        /\ \A i \in events' :
                               \/ \E k \in Ids(clean) : clean.log[k] = q.log[i]
                               \/ \E x \in Workers : cur[x] = i /\ pc'[x] \in Persisted
                        /\ \A x \in Workers : pc'[x] \in Persisted => cur[x] \in events'
                        /\ \A x \in Workers : pc'[x] = "ack" =>
                               \E k \in Ids(clean) : clean.log[k] = q.log[cur[x]]
        BY <1>1, <1>3, <2>1, <2>3 DEF EventInv, Persisted, Msg
    <3>1. EventInv /\ pc'[w] \in Persisted /\ pc'[w] # "ack"
        BY <1>3, InvParts DEF Persisted
    <3>2. \A x \in Workers : pc[x] \in Persisted => pc'[x] = pc[x]
        BY <1>1, <1>3 DEF Persisted
    <3>3. \A x \in Workers : x # w => pc'[x] = pc[x]
        BY <1>3
    <3> QED
        BY <2>3, <3>1, <3>2, <3>3 DEF EventInv, Msg
  <2> QED
      BY <1>1, <2>2, <2>3
<1> QED
    BY <1>3, <1>5, <1>8, <1>9 DEF CoreInv

\* SADD: the marked content is now the worker's to forward.
LEMMA MarkSeenStep ==
    ASSUME CoreInv, NEW w \in Workers, MarkSeen(w)
    PROVE  CoreInv'
<1>1. /\ pc[w] = "markSeen" /\ pc[w] \in HandlerLabels /\ "touch" \in HandlerLabels
      /\ Goto(w, "touch") /\ InHandler
      /\ UNCHANGED <<q, faults, seenTTL, events, clean, expiries, torn>>
      /\ seen' = [seen EXCEPT ![Mission(w)] = @ \cup {Hash(w)}]
    BY DEF MarkSeen, HandlerLabels
<1>2. /\ LoopTypeOK(RawMessage, HandlerLabels)' /\ WorkInv(HandlerLabels)'
      /\ pc'[w] = "touch"
      /\ \A x \in Workers : x # w => pc'[x] = pc[x]
      /\ cur' = cur
      /\ \A i \in Ids(q') : i \in Ids(q)
      /\ \A i \in Unacked(q) : i \in Unacked(q')
    BY <1>1, InvParts, MoveFacts
<1>3. Mission(w) \in Missions /\ Hash(w) \in Hashes
    BY <1>1, InvParts, MsgFacts
<1>4. TypeOK'
    BY <1>1, <1>2, <1>3, InvParts DEF TypeOK, OwnTypeOK, LoopTypeOK
<1>5. Grows
    BY <1>1 DEF Grows
<1>6. CarriedOn
    BY <1>1, <1>2 DEF CarriedOn, Carrying
<1>7. AccountInv'
  <2>1. ASSUME NEW msg \in RawMessage, ContentHash(msg) \in seen'[MissionOf[msg.job]]
        PROVE  ContentHash(msg) \in seen[MissionOf[msg.job]] \/ NowAccounted(msg)
    <3>1. MissionOf[msg.job] \in Missions
        BY ProcessorAssumption DEF RawMessage
    <3>2. CASE MissionOf[msg.job] = Mission(w) /\ ContentHash(msg) = Hash(w)
      <4>1. Same(q'.log[cur'[w]], msg)
          BY <1>1, <1>2, <3>2 DEF Same, Mission, Hash, Msg
      <4> QED
          BY <1>2, <4>1 DEF NowAccounted
    <3> QED
        BY <1>1, <2>1, <3>1, <3>2, InvParts DEF OwnTypeOK
  <2>2. \A x \in Workers : pc'[x] \in {"drop", "ack"} =>
            pc[x] \in {"drop", "ack"} /\ cur'[x] = cur[x]
      BY <1>2
  <2> QED
      BY <1>1, <1>2, <1>5, <1>6, <2>1, <2>2, InvParts, AccountPreserved
<1>8. EventInv'
    BY <1>1, <1>2, <1>5, InvParts, EventPreserved DEF Persisted
<1> QED
    BY <1>2, <1>4, <1>7, <1>8 DEF CoreInv

LEMMA TouchTTLStep ==
    ASSUME CoreInv, NEW w \in Workers, TouchTTL(w)
    PROVE  CoreInv'
<1>1. /\ pc[w] = "touch" /\ pc[w] \in HandlerLabels /\ "forward" \in HandlerLabels
      /\ Goto(w, "forward") /\ InHandler
      /\ UNCHANGED <<q, faults, seen, events, clean, expiries, torn>>
      /\ seenTTL' = [seenTTL EXCEPT ![Mission(w)] = seen[Mission(w)] # {}]
    BY DEF TouchTTL, HandlerLabels
<1>2. /\ LoopTypeOK(RawMessage, HandlerLabels)' /\ WorkInv(HandlerLabels)'
      /\ pc'[w] = "forward"
      /\ \A x \in Workers : x # w => pc'[x] = pc[x]
      /\ cur' = cur
      /\ \A i \in Ids(q') : i \in Ids(q)
      /\ \A i \in Unacked(q) : i \in Unacked(q')
    BY <1>1, InvParts, MoveFacts
<1>3. TypeOK'
  <2>1. seenTTL' \in [Missions -> BOOLEAN]
      BY <1>1, InvParts DEF OwnTypeOK
  <2> QED
      BY <1>1, <1>2, <2>1, InvParts DEF TypeOK, OwnTypeOK, LoopTypeOK
<1>4. Grows
    BY <1>1 DEF Grows
<1>5. CarriedOn
    BY <1>1, <1>2 DEF CarriedOn, Carrying
<1>6. AccountInv'
  <2>1. \A x \in Workers : pc'[x] \in {"drop", "ack"} =>
            pc[x] \in {"drop", "ack"} /\ cur'[x] = cur[x]
      BY <1>2
  <2> QED
      BY <1>1, <1>2, <1>4, <1>5, <2>1, InvParts, AccountPreserved
<1>7. EventInv'
    BY <1>1, <1>2, <1>4, InvParts, EventPreserved DEF Persisted
<1> QED
    BY <1>2, <1>3, <1>6, <1>7 DEF CoreInv

\* XADD to clean_data: what was carried is forwarded.
LEMMA ForwardStep ==
    ASSUME CoreInv, NEW w \in Workers, Forward(w)
    PROVE  CoreInv'
<1> DEFINE new == Len(clean.log) + 1
<1>1. /\ pc[w] = "forward" /\ pc[w] \in HandlerLabels /\ "ack" \in HandlerLabels
      /\ Goto(w, "ack") /\ InHandler
      /\ UNCHANGED <<q, faults, seen, seenTTL, events, expiries, torn>>
      /\ clean' = Xadd(clean, Msg(w))
    BY DEF Forward, HandlerLabels
<1>2. /\ LoopTypeOK(RawMessage, HandlerLabels)' /\ WorkInv(HandlerLabels)'
      /\ pc'[w] = "ack"
      /\ \A x \in Workers : x # w => pc'[x] = pc[x]
      /\ cur' = cur
      /\ \A i \in Ids(q') : i \in Ids(q)
      /\ \A i \in Unacked(q) : i \in Unacked(q')
    BY <1>1, InvParts, MoveFacts
<1>3. Msg(w) \in RawMessage /\ clean \in StreamOf(RawMessage)
    BY <1>1, InvParts, MsgFacts DEF OwnTypeOK
<1>4. /\ clean' \in StreamOf(RawMessage)
      /\ Ids(clean') = Ids(clean) \cup {new}
      /\ \A k \in Ids(clean) : clean'.log[k] = clean.log[k]
      /\ clean'.log[new] = Msg(w)
    BY <1>1, <1>3, XaddFacts
<1> HIDE DEF new
<1>5. TypeOK'
    BY <1>1, <1>2, <1>4, InvParts DEF TypeOK, OwnTypeOK, LoopTypeOK
<1>6. Grows
    BY <1>1, <1>4 DEF Grows
<1>7. \E k \in Ids(clean') : Same(clean'.log[k], Msg(w))
    BY <1>4 DEF Same
<1>8. CarriedOn
    BY <1>2, <1>7 DEF CarriedOn, Carrying
<1>9. q'.log[cur'[w]] = Msg(w)
    BY <1>1, <1>2 DEF Msg
<1>10. AccountInv'
  <2>1. NowAccounted(q'.log[cur'[w]])
      BY <1>7, <1>9 DEF NowAccounted
  <2>2. \A x \in Workers : pc'[x] \in {"drop", "ack"} =>
            (pc[x] \in {"drop", "ack"} /\ cur'[x] = cur[x]) \/ NowAccounted(q'.log[cur'[x]])
      BY <1>2, <2>1
  <2> QED
      BY <1>1, <1>2, <1>6, <1>8, <2>2, InvParts, AccountPreserved
<1>11. EventInv'
  <2> SUFFICES ASSUME faults = 0
               PROVE  /\ \A k \in Ids(clean') : \E i \in events : q.log[i] = clean'.log[k]
                      /\ \A i \in events :
                             \/ \E k \in Ids(clean') : clean'.log[k] = q.log[i]
                             \/ \E x \in Workers : cur[x] = i /\ pc'[x] \in Persisted
                      /\ \A x \in Workers : pc'[x] \in Persisted => cur[x] \in events
                      /\ \A x \in Workers : pc'[x] = "ack" =>
                             \E k \in Ids(clean') : clean'.log[k] = q.log[cur[x]]
      BY <1>1, <1>2, InvParts DEF EventInv, Persisted, Msg
  <2>1. EventInv /\ cur[w] \in events
      BY <1>1, InvParts DEF EventInv, Persisted
  <2>2. \A x \in Workers : (pc'[x] \in Persisted) = (pc[x] \in Persisted)
      BY <1>1, <1>2 DEF Persisted
  <2>3. \A k \in Ids(clean') : \E i \in events : q.log[i] = clean'.log[k]
      BY <1>4, <2>1 DEF EventInv, Msg
  <2>4. \A i \in events : \/ \E k \in Ids(clean') : clean'.log[k] = q.log[i]
                          \/ \E x \in Workers : cur[x] = i /\ pc'[x] \in Persisted
      BY <1>4, <2>1, <2>2 DEF EventInv
  <2>5. \A x \in Workers : pc'[x] \in Persisted => cur[x] \in events
      BY <2>1, <2>2 DEF EventInv
  <2>6. \A x \in Workers : pc'[x] = "ack" =>
            \E k \in Ids(clean') : clean'.log[k] = q.log[cur[x]]
      BY <1>2, <1>4, <2>1 DEF EventInv, Msg
  <2> QED
      BY <2>3, <2>4, <2>5, <2>6
<1> QED
    BY <1>2, <1>5, <1>10, <1>11 DEF CoreInv

\* The run() loop, a crash and an error of XAUTOCLAIM.
LEMMA LoopStepInv ==
    ASSUME CoreInv, NEW w \in Workers, Loop(w) \/ Abort(w) \/ ClaimFails(w)
    PROVE  CoreInv'
<1>1. /\ LoopStep(w) \/ LoseBatch(w) \/ ClaimError(w)
      /\ UNCHANGED <<seen, seenTTL, events, clean, expiries>>
      /\ torn' = IF Carrying(w) THEN torn \cup {<<Mission(w), Hash(w)>>} ELSE torn
    BY DEF Loop, Abort, ClaimFails, LoopStep, Claim, Read, ClaimError, Carrying, local
<1>2. /\ LoopTypeOK(RawMessage, HandlerLabels)' /\ WorkInv(HandlerLabels)' /\ OnlyMoves(w)
      /\ q'.log = q.log
      /\ Unacked(q') = Unacked(q)
    BY <1>1, InvParts, LabelFacts, LoopFacts, LoopAssumption
<1>3. torn' \subseteq Missions \X Hashes
  <2>1. CASE Carrying(w)
    <3>1. Mission(w) \in Missions /\ Hash(w) \in Hashes
        BY <2>1, InvParts, MsgFacts DEF Carrying, HandlerLabels
    <3> QED
        BY <1>1, <2>1, <3>1, InvParts DEF OwnTypeOK
  <2> QED
      BY <1>1, <2>1, InvParts DEF OwnTypeOK
<1>4. TypeOK'
    BY <1>1, <1>2, <1>3, InvParts DEF TypeOK, OwnTypeOK, LoopTypeOK
<1>5. Grows /\ Ids(q') = Ids(q)
    BY <1>1, <1>2 DEF Grows, Ids
<1>6. /\ pc'[w] \in {"claim", "read", "start"}
      /\ \A x \in Workers : x # w => pc'[x] = pc[x] /\ cur'[x] = cur[x]
    BY <1>2 DEF OnlyMoves
<1>7. CarriedOn
    BY <1>1, <1>6 DEF CarriedOn, Carrying
<1>8. AccountInv'
    BY <1>1, <1>2, <1>5, <1>6, <1>7, InvParts, AccountPreserved
<1>9. EventInv'
  <2>1. faults' = 0 => faults = 0 /\ pc[w] \in {"claim", "read"}
    <3>1. CASE LoopStep(w)
        BY <3>1 DEF LoopStep, Claim, Read
    <3>2. CASE LoseBatch(w) \/ ClaimError(w)
        BY <3>2, InvParts DEF LoseBatch, ClaimError, SpendFault
    <3> QED
        BY <1>1, <3>1, <3>2
  <2>2. \A x \in Workers : pc'[x] \in Persisted =>
            /\ pc[x] \in Persisted /\ cur'[x] = cur[x]
            /\ pc'[x] = "ack" => pc[x] = "ack"
      BY <1>6 DEF Persisted
  <2>3. \A x \in Workers : pc[x] \in Persisted =>
            (pc'[x] \in Persisted /\ cur'[x] = cur[x]) \/ faults' # 0
      BY <1>6, <2>1 DEF Persisted
  <2> QED
      BY <1>1, <1>5, <2>1, <2>2, <2>3, InvParts, EventPreserved
<1> QED
    BY <1>2, <1>4, <1>8, <1>9 DEF CoreInv

\* Arrivals, the claim timeout and the expiry of a dedup set move no worker.
LEMMA EnvironmentStep ==
    ASSUME CoreInv,
           (\E msg \in RawMessage : Arrive(msg)) \/ Clock \/ \E m \in Missions : DedupTTL(m)
    PROVE  CoreInv'
<1>1. CASE \E msg \in RawMessage : Arrive(msg)
  <2>1. PICK msg \in RawMessage : Arrive(msg)
      BY <1>1
  <2> DEFINE new == Len(q.log) + 1
  <2>2. /\ q' = Xadd(q, msg)
        /\ UNCHANGED <<pc, after, batch, cur, faults, seen, seenTTL, events, clean, expiries, torn>>
      BY <2>1 DEF Arrive, local
  <2>3. /\ q' \in StreamOf(RawMessage) /\ q'.last = q.last
        /\ Ids(q') = Ids(q) \cup {new}
        /\ \A i \in Ids(q) : q'.log[i] = q.log[i]
        /\ Unacked(q') = Unacked(q) \cup {new}
      BY <2>2, InvParts, XaddFacts
  <2> HIDE DEF new
  <2>4. TypeOK' /\ WorkInv(HandlerLabels)'
      BY <2>2, <2>3, InvParts DEF TypeOK, OwnTypeOK, LoopTypeOK, WorkInv
  <2>5. Grows /\ CarriedOn
      BY <2>2, <2>3 DEF Grows, CarriedOn, Carrying
  <2>6. AccountInv'
      BY <2>2, <2>3, <2>5, InvParts, AccountPreserved
  <2>7. EventInv'
      BY <2>2, <2>5, InvParts, EventPreserved
  <2> QED
      BY <2>4, <2>6, <2>7 DEF CoreInv
<1>2. CASE Clock
  <2>1. ClockStep /\ UNCHANGED <<seen, seenTTL, events, clean, expiries, torn>>
      BY <1>2 DEF Clock, local
  <2>2. /\ LoopTypeOK(RawMessage, HandlerLabels)' /\ WorkInv(HandlerLabels)'
        /\ q'.log = q.log
        /\ Unacked(q') = Unacked(q)
        /\ UNCHANGED <<pc, cur>>
      BY <2>1, InvParts, ClockFacts, LoopAssumption
  <2>3. TypeOK'
      BY <2>1, <2>2, InvParts DEF TypeOK, OwnTypeOK, LoopTypeOK
  <2>4. Grows /\ CarriedOn /\ Ids(q') = Ids(q)
      BY <2>1, <2>2 DEF Grows, CarriedOn, Carrying, Ids
  <2>5. AccountInv'
      BY <2>1, <2>2, <2>4, InvParts, AccountPreserved
  <2>6. faults' = 0 => faults = 0
      BY <2>1, InvParts DEF ClockStep, OrphanGoesIdle, HeldGoesIdle, SpendFault
  <2>7. EventInv'
      BY <2>1, <2>2, <2>4, <2>6, InvParts, EventPreserved
  <2> QED
      BY <2>2, <2>3, <2>5, <2>7 DEF CoreInv
<1>3. ASSUME NEW m \in Missions, DedupTTL(m)
      PROVE  CoreInv'
  <2>1. /\ UNCHANGED <<q, pc, after, batch, cur, faults, events, clean, torn>>
        /\ seen' = [seen EXCEPT ![m] = {}]
        /\ seenTTL' = [seenTTL EXCEPT ![m] = FALSE]
        /\ expiries' = [expiries EXCEPT ![m] = @ + 1]
        /\ expiries[m] < MaxExpiries
      BY <1>3 DEF DedupTTL, loopVars
  <2>2. TypeOK' /\ WorkInv(HandlerLabels)'
    <3>1. expiries' \in [Missions -> 0 .. MaxExpiries]
        BY <2>1, InvParts, ProcessorAssumption DEF OwnTypeOK
    <3> QED
        BY <2>1, <3>1, InvParts DEF TypeOK, OwnTypeOK, LoopTypeOK, WorkInv
  <2>3. Grows /\ CarriedOn
      BY <2>1 DEF Grows, CarriedOn, Carrying
  <2>4. AccountInv'
    <3>1. \A msg \in RawMessage : seen'[MissionOf[msg.job]] \subseteq seen[MissionOf[msg.job]]
        BY <2>1, InvParts, ProcessorAssumption DEF OwnTypeOK, RawMessage
    <3> QED
        BY <2>1, <2>3, <3>1, InvParts, AccountPreserved
  <2>5. EventInv'
      BY <2>1, <2>3, InvParts, EventPreserved
  <2> QED
      BY <2>2, <2>4, <2>5 DEF CoreInv
<1> QED
    BY <1>1, <1>2, <1>3

-----------------------------------------------------------------------------
LEMMA InitCore == Init => CoreInv
<1> SUFFICES ASSUME Init PROVE CoreInv
    OBVIOUS
<1>1. /\ q = EmptyStream /\ clean = EmptyStream /\ faults = 0 /\ events = {} /\ torn = {}
      /\ pc = [w \in Workers |-> "claim"]
      /\ after = [w \in Workers |-> "claim"]
      /\ batch = [w \in Workers |-> {}]
      /\ cur = [w \in Workers |-> 0]
      /\ seen = [m \in Missions |-> {}]
      /\ seenTTL = [m \in Missions |-> FALSE]
      /\ expiries = [m \in Missions |-> 0]
    BY DEF Init, LoopInit
<1>2. /\ q \in StreamOf(RawMessage) /\ clean \in StreamOf(RawMessage)
      /\ Ids(q) = {} /\ Ids(clean) = {} /\ q.last = 0
    BY <1>1, EmptyStreamFacts
<1>3. faults \in 0 .. MaxFaults /\ MaxExpiries \in Nat
    BY <1>1, LoopAssumption, ProcessorAssumption
<1>4. TypeOK
    BY <1>1, <1>2, <1>3 DEF TypeOK, LoopTypeOK
<1>5. WorkInv(HandlerLabels)
    BY <1>1, <1>2, LabelFacts DEF WorkInv
<1>6. AccountInv
    BY <1>1, <1>2, ProcessorAssumption DEF AccountInv, RawMessage
<1>7. EventInv
    BY <1>1, <1>2 DEF EventInv, Persisted
<1> QED
    BY <1>4, <1>5, <1>6, <1>7 DEF CoreInv

LEMMA NextCore == CoreInv /\ [Next]_vars => CoreInv'
<1> SUFFICES ASSUME CoreInv, [Next]_vars PROVE CoreInv'
    OBVIOUS
<1>1. CASE (\E msg \in RawMessage : Arrive(msg)) \/ Clock \/ \E m \in Missions : DedupTTL(m)
    BY <1>1, EnvironmentStep
<1>2. ASSUME NEW w \in Workers, Loop(w) \/ Handler(w) \/ Fault(w)
      PROVE  CoreInv'
  <2>1. CASE Loop(w) \/ Abort(w) \/ ClaimFails(w)
      BY <2>1, LoopStepInv
  <2>2. CASE CheckDuplicate(w)
      BY <2>2, CheckDuplicateStep
  <2>3. CASE DropDuplicate(w) \/ Ack(w)
      BY <2>3, AckStep
  <2>4. CASE PersistRawEvent(w) \/ PersistFails(w)
      BY <2>4, PersistStep
  <2>5. CASE MarkSeen(w)
      BY <2>5, MarkSeenStep
  <2>6. CASE TouchTTL(w)
      BY <2>6, TouchTTLStep
  <2>7. CASE Forward(w)
      BY <2>7, ForwardStep
  <2> QED
      BY <1>2, <2>1, <2>2, <2>3, <2>4, <2>5, <2>6, <2>7 DEF Handler, Fault
<1>3. CASE UNCHANGED vars
  <2>1. UNCHANGED <<q, pc, after, batch, cur, faults, seen, seenTTL, events, clean, expiries, torn>>
      BY <1>3 DEF vars, loopVars
  <2>2. TypeOK' /\ WorkInv(HandlerLabels)'
      BY <2>1, InvParts DEF TypeOK, LoopTypeOK, WorkInv
  <2>3. Grows /\ CarriedOn
      BY <2>1 DEF Grows, CarriedOn, Carrying
  <2>4. AccountInv'
      BY <2>1, <2>3, InvParts, AccountPreserved
  <2>5. EventInv'
      BY <2>1, <2>3, InvParts, EventPreserved
  <2> QED
      BY <2>2, <2>4, <2>5 DEF CoreInv
<1> QED
    BY <1>1, <1>2, <1>3 DEF Next

-----------------------------------------------------------------------------
(* How often a message is copied.                                          *)

\* The sets that DedupInv counts are finite.
LEMMA CountsFinite ==
    ASSUME CoreInv, NEW msg
    PROVE  /\ IsFiniteSet(Copies(msg)) /\ Cardinality(Copies(msg)) \in Nat
           /\ IsFiniteSet(Carriers(msg)) /\ Cardinality(Carriers(msg)) \in Nat
           /\ IsFiniteSet(Checked(msg)) /\ Cardinality(Checked(msg)) \in Nat
           /\ Cardinality(Checked(msg)) <= Cardinality(Workers)
           /\ Cardinality(Workers) \in Nat
<1>1. Len(clean.log) \in Nat
    BY InvParts, StreamFields DEF OwnTypeOK
<1>2. IsFiniteSet(Ids(clean))
    BY <1>1, FS_Interval DEF Ids
<1>3. IsFiniteSet(Workers) /\ Cardinality(Workers) \in Nat
    BY LoopAssumption, FS_CardinalityType DEF LoopAssumption
<1>4. /\ Copies(msg) \in SUBSET Ids(clean)
      /\ Carriers(msg) \in SUBSET Workers
      /\ Checked(msg) \in SUBSET Workers
    BY DEF Copies, Carriers, Checked
<1> QED
    BY <1>2, <1>3, <1>4, FS_Subset, FS_CardinalityType

\* The part of DedupInv about one message, in a state with these sets and this
\* number of expiries.
Bounded(marked, copies, carriers, checked, n) ==
    IF marked
    THEN Cardinality(copies) + Cardinality(carriers) + Cardinality(checked)
             <= Cardinality(Workers) * (1 + n)
    ELSE Cardinality(copies) + Cardinality(carriers) <= Cardinality(Workers) * n

Marked(msg) == ContentHash(msg) \in seen[MissionOf[msg.job]]

LifeInv(msg) ==
    Bounded(Marked(msg), Copies(msg), Carriers(msg), Checked(msg),
            expiries[MissionOf[msg.job]])

\* Steps that neither mark nor forward: no worker takes up a copy, and none passes
\* the check for a content that is marked.
LEMMA DedupQuiet ==
    ASSUME CoreInv, Grows, UNCHANGED <<seen, clean, expiries>>,
           NEW msg \in RawMessage, LifeInv(msg),
           \A x \in Workers : pc'[x] \in {"touch", "forward"} =>
               pc[x] \in {"touch", "forward"} /\ cur'[x] = cur[x],
           \A x \in Workers : pc'[x] \in {"persist", "markSeen"} =>
               \/ pc[x] \in {"persist", "markSeen"} /\ cur'[x] = cur[x]
               \/ ~Marked(msg)
               \/ ~Same(q'.log[cur'[x]], msg)
    PROVE  LifeInv(msg)'
<1>1. \A x \in Workers : pc[x] \in HandlerLabels /\ cur'[x] = cur[x] =>
          q'.log[cur'[x]] = Msg(x)
    BY InvParts, MsgFacts DEF Grows, Msg
<1>2. Copies(msg)' = Copies(msg) /\ (Marked(msg)' <=> Marked(msg))
    BY DEF Copies, Marked
<1>3. Carriers(msg)' \in SUBSET Carriers(msg)
    BY <1>1 DEF Carriers, CarriedBy, Carrying, Msg, HandlerLabels
<1>4. Marked(msg) => Checked(msg)' \in SUBSET Checked(msg)
    BY <1>1 DEF Checked, Msg, HandlerLabels
<1>5. /\ Cardinality(Carriers(msg)') <= Cardinality(Carriers(msg))
      /\ Cardinality(Carriers(msg)') \in Nat
      /\ Marked(msg) => /\ Cardinality(Checked(msg)') <= Cardinality(Checked(msg))
                        /\ Cardinality(Checked(msg)') \in Nat
    BY <1>3, <1>4, CountsFinite, FS_Subset, FS_CardinalityType
<1>6. /\ expiries[MissionOf[msg.job]] \in Nat
      /\ expiries'[MissionOf[msg.job]] = expiries[MissionOf[msg.job]]
    BY InvParts, ProcessorAssumption DEF OwnTypeOK, RawMessage
<1>7. LifeInv(msg)' = Bounded(Marked(msg)', Copies(msg)', Carriers(msg)', Checked(msg)',
                              expiries'[MissionOf[msg.job]])
    BY DEF LifeInv, Bounded
<1>8. Cardinality(Copies(msg)) \in Nat /\ Cardinality(Workers) \in Nat
      /\ Cardinality(Carriers(msg)) \in Nat /\ Cardinality(Checked(msg)) \in Nat
    BY CountsFinite
<1> QED
    BY <1>2, <1>5, <1>6, <1>7, <1>8 DEF LifeInv, Bounded

\* SADD turns one that passed the check into a carrier.
LEMMA DedupMark ==
    ASSUME CoreInv, NEW w \in Workers, MarkSeen(w), NEW msg \in RawMessage, LifeInv(msg)
    PROVE  LifeInv(msg)'
<1> DEFINE m == MissionOf[msg.job]
<1>1. /\ pc[w] = "markSeen" /\ pc[w] \in HandlerLabels
      /\ pc' = [pc EXCEPT ![w] = "touch"]
      /\ UNCHANGED <<q, cur, clean, expiries>>
      /\ seen' = [seen EXCEPT ![Mission(w)] = @ \cup {Hash(w)}]
    BY DEF MarkSeen, Goto, InHandler, HandlerLabels
<1>2. /\ pc'[w] = "touch" /\ \A x \in Workers : x # w => pc'[x] = pc[x]
      /\ Mission(w) \in Missions /\ m \in Missions
      /\ seen'[m] = IF m = Mission(w) THEN seen[m] \cup {Hash(w)} ELSE seen[m]
    BY <1>1, InvParts, MsgFacts, ProcessorAssumption DEF OwnTypeOK, RawMessage
<1>3. Copies(msg)' = Copies(msg) /\ \A x \in Workers : Msg(x)' = Msg(x)
    BY <1>1 DEF Copies, Msg
<1>4. /\ Cardinality(Copies(msg)) \in Nat
      /\ IsFiniteSet(Carriers(msg)) /\ Cardinality(Carriers(msg)) \in Nat
      /\ IsFiniteSet(Checked(msg)) /\ Cardinality(Checked(msg)) \in Nat
      /\ Cardinality(Checked(msg)) <= Cardinality(Workers) /\ Cardinality(Workers) \in Nat
      /\ expiries[m] \in Nat /\ expiries' = expiries
    BY <1>1, <1>2, CountsFinite, InvParts DEF OwnTypeOK
<1>5. LifeInv(msg)' = Bounded(Marked(msg)', Copies(msg)', Carriers(msg)', Checked(msg)',
                              expiries'[m])
    BY DEF LifeInv, Bounded
<1>6. CASE Same(Msg(w), msg)
  <2>1. Marked(msg)'
      BY <1>2, <1>6 DEF Same, Marked, Mission, Hash
  <2>2. /\ w \in Checked(msg) /\ w \notin Carriers(msg)
        /\ Carriers(msg)' = Carriers(msg) \cup {w}
        /\ Checked(msg)' = Checked(msg) \ {w}
      BY <1>1, <1>2, <1>3, <1>6 DEF Checked, Carriers, CarriedBy, Carrying
  <2>3. /\ Cardinality(Carriers(msg)') = Cardinality(Carriers(msg)) + 1
        /\ Cardinality(Checked(msg)') = Cardinality(Checked(msg)) - 1
    <3>1. /\ Cardinality(Carriers(msg) \cup {w}) = Cardinality(Carriers(msg)) + 1
          /\ Cardinality(Checked(msg) \ {w}) = Cardinality(Checked(msg)) - 1
        BY <1>4, <2>2, FS_AddElement, FS_RemoveElement
    <3> QED
        BY <2>2, <3>1
  <2>4. Cardinality(Workers) * (1 + expiries[m])
            = Cardinality(Workers) * expiries[m] + Cardinality(Workers)
      BY <1>4
  <2>5. Cardinality(Copies(msg)) + Cardinality(Carriers(msg)) + Cardinality(Checked(msg))
            <= Cardinality(Workers) * (1 + expiries[m])
      BY <1>4, <2>4 DEF LifeInv, Bounded
  <2>6. /\ Cardinality(Copies(msg)) + (Cardinality(Carriers(msg)) + 1)
               + (Cardinality(Checked(msg)) - 1)
               <= Cardinality(Workers) * (1 + expiries[m])
      BY <1>4, <2>4, <2>5
  <2>7. LifeInv(msg)' = (Cardinality(Copies(msg)') + Cardinality(Carriers(msg)')
                             + Cardinality(Checked(msg)')
                         <= Cardinality(Workers) * (1 + expiries'[m]))
      BY <1>5, <2>1 DEF Bounded
  <2> QED
      BY <1>3, <1>4, <2>3, <2>6, <2>7
<1>7. CASE ~Same(Msg(w), msg)
  <2>1. Marked(msg)' <=> Marked(msg)
      BY <1>2, <1>7 DEF Same, Marked, Mission, Hash
  <2>2. Carriers(msg)' = Carriers(msg) /\ Checked(msg)' = Checked(msg)
      BY <1>1, <1>2, <1>3, <1>7 DEF Checked, Carriers, CarriedBy, Carrying
  <2> QED
      BY <1>3, <1>4, <1>5, <2>1, <2>2 DEF LifeInv, Bounded
<1> QED
    BY <1>6, <1>7

\* XADD turns a carrier into a copy.
LEMMA DedupForward ==
    ASSUME CoreInv, NEW w \in Workers, Forward(w), NEW msg \in RawMessage, LifeInv(msg)
    PROVE  LifeInv(msg)'
<1> DEFINE m == MissionOf[msg.job]
           new == Len(clean.log) + 1
<1>1. /\ pc[w] = "forward" /\ pc[w] \in HandlerLabels
      /\ pc' = [pc EXCEPT ![w] = "ack"]
      /\ UNCHANGED <<q, cur, seen, expiries>>
      /\ clean' = Xadd(clean, Msg(w))
    BY DEF Forward, Goto, InHandler, HandlerLabels
<1>2. /\ pc'[w] = "ack" /\ \A x \in Workers : x # w => pc'[x] = pc[x]
      /\ m \in Missions
    BY <1>1, InvParts, ProcessorAssumption DEF RawMessage
<1>3. /\ Ids(clean') = Ids(clean) \cup {new}
      /\ \A k \in Ids(clean) : clean'.log[k] = clean.log[k]
      /\ clean'.log[new] = Msg(w)
      /\ new \notin Ids(clean)
  <2>1. clean \in StreamOf(RawMessage) /\ Msg(w) \in RawMessage
      BY <1>1, InvParts, MsgFacts DEF OwnTypeOK
  <2>2. Len(clean.log) \in Nat
      BY <2>1, StreamFields
  <2>3. new \notin Ids(clean)
      BY <2>2 DEF Ids
  <2> QED
      BY <1>1, <2>1, <2>3, XaddFacts
<1> HIDE DEF new
<1>4. \A x \in Workers : Msg(x)' = Msg(x)
    BY <1>1 DEF Msg
<1>5. /\ IsFiniteSet(Copies(msg)) /\ Cardinality(Copies(msg)) \in Nat
      /\ IsFiniteSet(Carriers(msg)) /\ Cardinality(Carriers(msg)) \in Nat
      /\ Cardinality(Checked(msg)) \in Nat /\ Cardinality(Workers) \in Nat
      /\ expiries[m] \in Nat /\ expiries' = expiries
    BY <1>1, <1>2, CountsFinite, InvParts DEF OwnTypeOK
<1>6. LifeInv(msg)' = Bounded(Marked(msg)', Copies(msg)', Carriers(msg)', Checked(msg)',
                              expiries'[m])
    BY DEF LifeInv, Bounded
<1>7. (Marked(msg)' <=> Marked(msg)) /\ Checked(msg)' = Checked(msg)
    BY <1>1, <1>2, <1>4 DEF Marked, Checked
<1>8. CASE Same(Msg(w), msg)
  <2>1. /\ new \notin Copies(msg) /\ Copies(msg)' = Copies(msg) \cup {new}
        /\ w \in Carriers(msg) /\ Carriers(msg)' = Carriers(msg) \ {w}
    <3>1. Copies(msg)' = Copies(msg) \cup {new}
        BY <1>3, <1>8 DEF Copies
    <3> QED
        BY <1>1, <1>2, <1>3, <1>4, <1>8, <3>1 DEF Copies, Carriers, CarriedBy, Carrying
  <2>2. /\ Cardinality(Copies(msg)') = Cardinality(Copies(msg)) + 1
        /\ Cardinality(Carriers(msg)') = Cardinality(Carriers(msg)) - 1
    <3>1. /\ Cardinality(Copies(msg) \cup {new}) = Cardinality(Copies(msg)) + 1
          /\ Cardinality(Carriers(msg) \ {w}) = Cardinality(Carriers(msg)) - 1
        BY <1>5, <2>1, FS_AddElement, FS_RemoveElement
    <3> QED
        BY <2>1, <3>1
  <2> QED
      BY <1>5, <1>6, <1>7, <2>2 DEF LifeInv, Bounded
<1>9. CASE ~Same(Msg(w), msg)
  <2>1. Copies(msg)' = Copies(msg)
      BY <1>3, <1>9 DEF Copies
  <2>2. Carriers(msg)' = Carriers(msg)
      BY <1>1, <1>2, <1>4, <1>9 DEF Carriers, CarriedBy, Carrying
  <2> QED
      BY <1>5, <1>6, <1>7, <2>1, <2>2 DEF LifeInv, Bounded
<1> QED
    BY <1>8, <1>9

\* The expiry of the set pays for the copies of its life.
LEMMA DedupExpire ==
    ASSUME CoreInv, NEW e \in Missions, DedupTTL(e), NEW msg \in RawMessage, LifeInv(msg)
    PROVE  LifeInv(msg)'
<1> DEFINE m == MissionOf[msg.job]
<1>1. /\ UNCHANGED <<q, pc, cur, clean>>
      /\ seen' = [seen EXCEPT ![e] = {}]
      /\ expiries' = [expiries EXCEPT ![e] = @ + 1]
    BY DEF DedupTTL, loopVars
<1>2. /\ m \in Missions
      /\ seen'[m] = IF m = e THEN {} ELSE seen[m]
      /\ expiries'[m] = IF m = e THEN expiries[m] + 1 ELSE expiries[m]
      /\ expiries[m] \in Nat
    BY <1>1, InvParts, ProcessorAssumption DEF OwnTypeOK, RawMessage
<1>3. /\ Copies(msg)' = Copies(msg)
      /\ Carriers(msg)' = Carriers(msg)
      /\ Checked(msg)' = Checked(msg)
    BY <1>1 DEF Copies, Carriers, CarriedBy, Carrying, Checked, Msg
<1>4. /\ Cardinality(Copies(msg)) \in Nat /\ Cardinality(Carriers(msg)) \in Nat
      /\ Cardinality(Checked(msg)) \in Nat /\ Cardinality(Workers) \in Nat
    BY CountsFinite
<1>5. LifeInv(msg)' = Bounded(Marked(msg)', Copies(msg)', Carriers(msg)', Checked(msg)',
                              expiries'[m])
    BY DEF LifeInv, Bounded
<1>6. CASE m = e
  <2>1. ~Marked(msg)' /\ expiries'[m] = expiries[m] + 1
      BY <1>2, <1>6 DEF Marked
  <2>2. /\ Cardinality(Workers) * expiries'[m] = Cardinality(Workers) * (1 + expiries[m])
        /\ Cardinality(Workers) * (1 + expiries[m])
               = Cardinality(Workers) * expiries[m] + Cardinality(Workers)
      BY <1>2, <1>4, <2>1
  <2>3. Cardinality(Copies(msg)) + Cardinality(Carriers(msg))
            <= Cardinality(Workers) * (1 + expiries[m])
    <3>1. Cardinality(Workers) * expiries[m] \in Int
        BY <1>2, <1>4
    <3> QED
        BY <1>4, <2>2, <3>1 DEF LifeInv, Bounded
  <2> QED
      BY <1>3, <1>5, <2>1, <2>2, <2>3 DEF Bounded
<1>7. CASE m # e
  <2>1. (Marked(msg)' <=> Marked(msg)) /\ expiries'[m] = expiries[m]
      BY <1>2, <1>7 DEF Marked
  <2> QED
      BY <1>3, <1>5, <2>1 DEF LifeInv, Bounded
<1> QED
    BY <1>6, <1>7

\* Every step keeps the bound of every message.
LEMMA DedupNext ==
    ASSUME CoreInv, [Next]_vars, NEW msg \in RawMessage, LifeInv(msg)
    PROVE  LifeInv(msg)'
<1>1. ASSUME NEW new \in RawMessage, Arrive(new)
      PROVE  LifeInv(msg)'
  <2>1. /\ q' = Xadd(q, new)
        /\ UNCHANGED <<pc, cur, seen, clean, expiries, torn>>
      BY <1>1 DEF Arrive, local
  <2>2. Grows
      BY <2>1, InvParts, XaddFacts DEF Grows
  <2> QED
      BY <2>1, <2>2, DedupQuiet
<1>2. ASSUME NEW w \in Workers, Loop(w) \/ Abort(w) \/ ClaimFails(w)
      PROVE  LifeInv(msg)'
  <2>1. /\ LoopStep(w) \/ LoseBatch(w) \/ ClaimError(w)
        /\ UNCHANGED <<seen, clean, expiries>>
        /\ torn \subseteq torn'
      BY <1>2 DEF Loop, Abort, ClaimFails, local
  <2>2. OnlyMoves(w) /\ q'.log = q.log
      BY <2>1, InvParts, LabelFacts, LoopFacts, LoopAssumption
  <2>3. Grows
      BY <2>1, <2>2 DEF Grows, Ids
  <2> QED
      BY <2>1, <2>2, <2>3, DedupQuiet DEF OnlyMoves
<1>3. ASSUME NEW w \in Workers, DropDuplicate(w) \/ Ack(w)
      PROVE  LifeInv(msg)'
  <2>1. /\ pc[w] \in HandlerLabels /\ AckAndFinish(w)
        /\ UNCHANGED <<seen, clean, expiries, torn>>
      BY <1>3 DEF DropDuplicate, Ack, HandlerLabels, local
  <2>2. OnlyMoves(w) /\ q'.log = q.log
      BY <2>1, InvParts, LabelFacts, AckAndFinishFacts
  <2>3. Grows
      BY <2>1, <2>2 DEF Grows, Ids
  <2> QED
      BY <2>1, <2>2, <2>3, DedupQuiet DEF OnlyMoves
<1>4. ASSUME NEW w \in Workers, CheckDuplicate(w)
      PROVE  LifeInv(msg)'
  <2>1. /\ pc' = [pc EXCEPT ![w] = IF Hash(w) \in seen[Mission(w)] THEN "drop" ELSE "persist"]
        /\ UNCHANGED <<q, cur, seen, clean, expiries, torn>>
      BY <1>4 DEF CheckDuplicate, Goto, InHandler, local
  <2>2. /\ pc'[w] = IF Hash(w) \in seen[Mission(w)] THEN "drop" ELSE "persist"
        /\ \A x \in Workers : x # w => pc'[x] = pc[x]
      BY <2>1, InvParts
  <2>3. Grows
      BY <2>1 DEF Grows
  <2>4. pc'[w] = "persist" => ~Marked(msg) \/ ~Same(q'.log[cur'[w]], msg)
      BY <2>1, <2>2 DEF Marked, Same, Hash, Mission, Msg
  <2>5. \A x \in Workers : pc'[x] \in {"touch", "forward"} =>
            pc[x] \in {"touch", "forward"} /\ cur'[x] = cur[x]
      BY <2>1, <2>2
  <2>6. \A x \in Workers : pc'[x] \in {"persist", "markSeen"} =>
            \/ pc[x] \in {"persist", "markSeen"} /\ cur'[x] = cur[x]
            \/ ~Marked(msg)
            \/ ~Same(q'.log[cur'[x]], msg)
      BY <2>1, <2>2, <2>4
  <2> QED
      BY <2>1, <2>3, <2>5, <2>6, DedupQuiet
<1>5. ASSUME NEW w \in Workers, PersistRawEvent(w) \/ PersistFails(w) \/ TouchTTL(w)
      PROVE  LifeInv(msg)'
  <2>1. /\ \/ pc[w] = "persist" /\ pc' = [pc EXCEPT ![w] = "markSeen"]
           \/ pc[w] = "touch" /\ pc' = [pc EXCEPT ![w] = "forward"]
        /\ UNCHANGED <<q, cur, seen, clean, expiries, torn>>
      BY <1>5 DEF PersistRawEvent, PersistFails, TouchTTL, Goto, InHandler
  <2>2. \A x \in Workers :
            /\ pc'[x] \in {"touch", "forward"} => pc[x] \in {"touch", "forward"}
            /\ pc'[x] \in {"persist", "markSeen"} => pc[x] \in {"persist", "markSeen"}
      BY <2>1, InvParts
  <2>3. Grows
      BY <2>1 DEF Grows
  <2> QED
      BY <2>1, <2>2, <2>3, DedupQuiet
<1>6. CASE Clock
  <2>1. ClockStep /\ UNCHANGED <<seen, clean, expiries, torn>>
      BY <1>6 DEF Clock, local
  <2>2. q'.log = q.log /\ UNCHANGED <<pc, cur>>
      BY <2>1, InvParts, ClockFacts, LoopAssumption
  <2>3. Grows
      BY <2>1, <2>2 DEF Grows, Ids
  <2> QED
      BY <2>1, <2>2, <2>3, DedupQuiet
<1>7. CASE UNCHANGED vars
  <2>1. UNCHANGED <<q, pc, cur, seen, clean, expiries, torn>>
      BY <1>7 DEF vars, loopVars
  <2>2. Grows
      BY <2>1 DEF Grows
  <2> QED
      BY <2>1, <2>2, DedupQuiet
<1>8. ASSUME NEW w \in Workers, MarkSeen(w) \/ Forward(w)
      PROVE  LifeInv(msg)'
    BY <1>8, DedupMark, DedupForward
<1>9. ASSUME NEW e \in Missions, DedupTTL(e)
      PROVE  LifeInv(msg)'
    BY <1>9, DedupExpire
<1> QED
    BY <1>1, <1>2, <1>3, <1>4, <1>5, <1>6, <1>7, <1>8, <1>9 DEF Next, Handler, Fault

-----------------------------------------------------------------------------
(* The invariant.                                                          *)

LEMMA DedupByMessage == DedupInv <=> \A msg \in RawMessage : LifeInv(msg)
BY DEF DedupInv, LifeInv, Bounded, Marked

LEMMA InitInv == Init => IndInv
<1> SUFFICES ASSUME Init PROVE IndInv
    OBVIOUS
<1>1. CoreInv
    BY InitCore
<1>2. ASSUME NEW msg \in RawMessage
      PROVE  LifeInv(msg)
  <2>1. /\ clean = EmptyStream
        /\ pc = [w \in Workers |-> "claim"]
        /\ seen = [m \in Missions |-> {}]
        /\ expiries = [m \in Missions |-> 0]
      BY DEF Init, LoopInit
  <2>2. MissionOf[msg.job] \in Missions
      BY ProcessorAssumption DEF RawMessage
  <2>3. Copies(msg) = {} /\ Carriers(msg) = {} /\ ~Marked(msg)
      BY <2>1, <2>2, EmptyStreamFacts DEF Copies, Carriers, CarriedBy, Carrying, Marked
  <2>4. Cardinality({}) = 0 /\ Cardinality(Workers) \in Nat
      BY <1>1, FS_EmptySet, CountsFinite
  <2> QED
      BY <2>1, <2>2, <2>3, <2>4 DEF LifeInv, Bounded
<1> QED
    BY <1>1, <1>2, DedupByMessage DEF IndInv

LEMMA NextInv == IndInv /\ [Next]_vars => IndInv'
<1> SUFFICES ASSUME IndInv, [Next]_vars PROVE IndInv'
    OBVIOUS
<1>1. CoreInv /\ \A msg \in RawMessage : LifeInv(msg)
    BY DedupByMessage DEF IndInv
<1>2. CoreInv'
    BY <1>1, NextCore
<1>3. \A msg \in RawMessage : LifeInv(msg)'
    BY <1>1, DedupNext
<1>4. DedupInv'
    BY <1>3 DEF DedupInv, LifeInv, Bounded, Marked
<1> QED
    BY <1>2, <1>4 DEF IndInv

-----------------------------------------------------------------------------
(* The theorems.                                                           *)

\* The inductive invariant holds in every state of every behaviour.
THEOREM Invariance == Spec => []IndInv
BY InitInv, NextInv, PTL DEF Spec

\* The variables of the processor stage keep their types.
THEOREM TypeCorrect == Spec => []TypeOK
<1>1. IndInv => TypeOK
    BY DEF IndInv, CoreInv
<1> QED
    BY <1>1, Invariance, PTL

\* A content can only be lost when its worker stopped between the SADD and the
\* XADD of _process_message.
THEOREM OnlyTornLost == Spec => []OnlyTornContentLost
<1>1. IndInv => OnlyTornContentLost
    BY DEF IndInv, CoreInv, AccountInv, OnlyTornContentLost, Acknowledged
<1> QED
    BY <1>1, Invariance, PTL

\* Without faults, raw_events and clean_data hold the same contents, up to the
\* workers between the two.
THEOREM RawEventsMatch == Spec => []RawEventsWithoutFaults
<1>1. IndInv => RawEventsWithoutFaults
    BY DEF IndInv, CoreInv, EventInv, RawEventsWithoutFaults
<1> QED
    BY <1>1, Invariance, PTL

\* A content is forwarded at most once by each worker in each life of the dedup set.
THEOREM DedupHolds == Spec => []DedupBound
<1>1. ASSUME IndInv, NEW k \in Ids(clean)
      PROVE  Cardinality(Copies(clean.log[k]))
                 <= Cardinality(Workers) * (1 + expiries[MissionOf[clean.log[k].job]])
  <2> DEFINE msg == clean.log[k]
             m == MissionOf[msg.job]
  <2>1. CoreInv /\ msg \in RawMessage
      BY <1>1, InvParts, EntryFacts DEF IndInv, OwnTypeOK
  <2>2. expiries[m] \in Nat
      BY <2>1, InvParts, ProcessorAssumption DEF OwnTypeOK, RawMessage
  <2>3. /\ Cardinality(Copies(msg)) \in Nat /\ Cardinality(Carriers(msg)) \in Nat
        /\ Cardinality(Checked(msg)) \in Nat /\ Cardinality(Workers) \in Nat
      BY <2>1, CountsFinite
  <2>4. /\ Cardinality(Workers) * (1 + expiries[m])
               = Cardinality(Workers) * expiries[m] + Cardinality(Workers)
        /\ Cardinality(Workers) * expiries[m] \in Int
      BY <2>2, <2>3
  <2>5. LifeInv(msg)
      BY <1>1, <2>1, DedupByMessage DEF IndInv
  <2> HIDE DEF msg
  <2> QED
      BY <2>3, <2>4, <2>5 DEF LifeInv, Bounded, msg
<1>2. IndInv => DedupBound
    BY <1>1 DEF DedupBound, Copies
<1> QED
    BY <1>2, Invariance, PTL

-----------------------------------------------------------------------------
(* The stage in a pipeline.                                                *)

\* A step of another stage: a crawler publishes a content, a validator takes
\* entries from clean_data, or something fails.
Elsewhere ==
    /\ UNCHANGED <<pc, after, batch, cur, seen, seenTTL, events, expiries, torn>>
    /\ q' = q \/ \E msg \in RawMessage : q' = Xadd(q, msg)
    /\ clean' \in StreamOf(RawMessage) /\ clean'.log = clean.log
    /\ faults' \in 0 .. MaxFaults /\ faults <= faults'

LEMMA ElsewhereStep ==
    ASSUME CoreInv, Elsewhere
    PROVE  CoreInv'
<1> DEFINE Grown ==
               /\ q' \in StreamOf(RawMessage) /\ q'.last = q.last
               /\ Ids(q) \subseteq Ids(q') /\ \A i \in Ids(q) : q'.log[i] = q.log[i]
               /\ Unacked(q) \subseteq Unacked(q')
               /\ \A i \in Ids(q') : i \in Ids(q) \/ i \in Unacked(q')
<1>1. Grown
  <2>1. CASE q' = q
      BY <2>1, InvParts
  <2>2. ASSUME NEW msg \in RawMessage, q' = Xadd(q, msg)
        PROVE  Grown
      BY <2>2, InvParts, XaddFacts
  <2> QED
      BY <2>1, <2>2 DEF Elsewhere
<1>2. TypeOK' /\ WorkInv(HandlerLabels)'
    BY <1>1, InvParts DEF Elsewhere, TypeOK, LoopTypeOK, OwnTypeOK, WorkInv
<1>3. Ids(clean') = Ids(clean) /\ Grows /\ CarriedOn
    BY <1>1 DEF Elsewhere, Ids, Grows, CarriedOn, Carrying
<1>4. AccountInv'
  <2>1. seen' = seen /\ pc' = pc /\ cur' = cur
      BY DEF Elsewhere
  <2> QED
      BY <1>1, <1>3, <2>1, InvParts, AccountPreserved
<1>5. EventInv'
  <2> SUFFICES ASSUME faults' = 0
               PROVE  /\ \A k \in Ids(clean') : \E i \in events' : q'.log[i] = clean'.log[k]
                      /\ \A i \in events' :
                             \/ \E k \in Ids(clean') : clean'.log[k] = q'.log[i]
                             \/ \E x \in Workers : cur'[x] = i /\ pc'[x] \in Persisted
                      /\ \A x \in Workers : pc'[x] \in Persisted => cur'[x] \in events'
                      /\ \A x \in Workers : pc'[x] = "ack" =>
                             \E k \in Ids(clean') : clean'.log[k] = q'.log[cur'[x]]
    <3>1. events' \subseteq Ids(q')
        BY <1>1, InvParts DEF Elsewhere, EventInv
    <3> QED
        BY <3>1 DEF EventInv, Persisted, Msg
  <2>1. /\ faults = 0
        /\ UNCHANGED <<pc, cur, events>> /\ clean'.log = clean.log
        /\ events \subseteq Ids(q)
      BY InvParts DEF Elsewhere, EventInv
  <2>2. \A i \in events : q'.log[i] = q.log[i]
      BY <1>1, <2>1
  <2>3. \A x \in Workers : pc[x] = "ack" => q'.log[cur[x]] = q.log[cur[x]]
    <3>1. \A x \in Workers : pc[x] = "ack" => cur[x] \in Ids(q)
        BY InvParts, MsgFacts DEF HandlerLabels
    <3> QED
        BY <1>1, <3>1
  <2> QED
      BY <1>3, <2>1, <2>2, <2>3, InvParts DEF EventInv, Msg
<1> QED
    BY <1>2, <1>4, <1>5 DEF CoreInv

\* The steps of the stage itself.
StageStep ==
    \/ \E w \in Workers : Loop(w) \/ Handler(w) \/ Fault(w)
    \/ Clock
    \/ \E m \in Missions : DedupTTL(m)

\* Faults are never forgotten.
LEMMA FaultsGrow == ASSUME CoreInv, StageStep PROVE faults <= faults'
<1>1. faults \in Nat
    BY LoopAssumption DEF CoreInv, TypeOK, LoopTypeOK
<1>2. faults' = faults \/ faults' = faults + 1
    BY DEF StageStep, Loop, LoopStep, Claim, Read, Handler, CheckDuplicate, DropDuplicate,
        PersistRawEvent, MarkSeen, TouchTTL, Forward, Ack, AckAndFinish, Fault, Abort, LoseBatch,
        ClaimFails, ClaimError, PersistFails, SpendFault, Clock, ClockStep,
        OrphanGoesIdle, HeldGoesIdle, DedupTTL, loopVars
<1> QED
    BY <1>1, <1>2

\* A step that hands nothing on; a fault can make one more thing happen.
Quiet(M) ==
    /\ q'.log = q.log
    /\ clean' = clean
    /\ Live(M, Acking)' <= Live(M, Acking) + faults' - faults

Forwards(w, M) ==
    /\ UNCHANGED <<q, faults>>
    /\ clean' = Xadd(clean, Msg(w))
    /\ Live(M, Acking)' + (IF Msg(w) \in M THEN 1 ELSE 0) <= Live(M, Acking)

LEMMA LiveFacts ==
    ASSUME CoreInv, CoreInv', NEW M
    PROVE  /\ Live(M, Acking) \in Nat /\ Live(M, Acking)' \in Nat
           /\ faults \in Nat /\ faults' \in Nat
<1>1. /\ q \in StreamOf(RawMessage) /\ faults \in 0 .. MaxFaults
      /\ q' \in StreamOf(RawMessage) /\ faults' \in 0 .. MaxFaults
    BY DEF CoreInv, TypeOK, LoopTypeOK
<1>2. faults \in Nat /\ faults' \in Nat
    BY <1>1, LoopAssumption
<1> QED
    BY <1>1, <1>2, LiveFinite, LiveFiniteNext, LoopAssumption

\* A handler's step that leaves its input stream alone.
LEMMA PlainLive ==
    ASSUME CoreInv, CoreInv', NEW w \in Workers, pc[w] \in HandlerLabels, pc[w] \notin Acking,
           NEW label, Goto(w, label), InHandler, q' = q, NEW M
    PROVE  /\ Live(M, Acking)' <= Live(M, Acking)
           /\ label \in Acking =>
                  Live(M, Acking)' + (IF Msg(w) \in M THEN 1 ELSE 0) <= Live(M, Acking)
<1>1. Live(M, Acking)' + HandsOn(w, label, M, Acking)
          <= Live(M, Acking) + TakesBack(w, label, Acking)
    BY InvParts, HandlerLive, LoopAssumption DEF InHandler
<1>2. TakesBack(w, label, Acking) = 0 /\ HandsOn(w, label, M, Acking) \in Nat
    BY DEF TakesBack, HandsOn
<1>3. label \in Acking => HandsOn(w, label, M, Acking) = IF Msg(w) \in M THEN 1 ELSE 0
    BY DEF HandsOn
<1> QED
    BY <1>1, <1>2, <1>3, LiveFacts

\* What a worker has in its hands is forwarded at most once, faults apart.
LEMMA FlowStep ==
    ASSUME CoreInv, CoreInv', StageStep, NEW M
    PROVE  Quiet(M) \/ \E w \in Workers : pc[w] \in HandlerLabels /\ Forwards(w, M)
<1>1. /\ Live(M, Acking) \in Nat /\ Live(M, Acking)' \in Nat
      /\ faults \in Nat /\ faults' \in Nat
      /\ LoopTypeOK(RawMessage, HandlerLabels) /\ WorkInv(HandlerLabels)
    BY LiveFacts, InvParts
<1>2. ASSUME NEW w \in Workers, Loop(w) \/ Abort(w) \/ ClaimFails(w)
      PROVE  Quiet(M)
  <2>1. /\ LoopStep(w) \/ ClaimError(w) \/ LoseBatch(w)
        /\ clean' = clean
      BY <1>2 DEF Loop, Abort, ClaimFails, local
  <2>2. q'.log = q.log /\ Live(M, Acking)' <= Live(M, Acking) + faults' - faults
      BY <1>1, <2>1, LoopFacts, LoopLive, LabelFacts, LoopAssumption
  <2> QED
      BY <2>1, <2>2 DEF Quiet
<1>3. ASSUME NEW w \in Workers, DropDuplicate(w) \/ Ack(w)
      PROVE  Quiet(M)
  <2>1. /\ pc[w] \in HandlerLabels /\ Finish(w) /\ q' = Xack(q, cur[w])
        /\ UNCHANGED <<clean, faults>>
      BY <1>3 DEF DropDuplicate, Ack, AckAndFinish, HandlerLabels, local
  <2>2. /\ q'.log = q.log /\ q'.last = q.last
        /\ q'.pel = q.pel \ {cur[w]} /\ q'.idle = q.idle \ {cur[w]} /\ q.idle \subseteq q.pel
      BY <1>1, <2>1, StreamFields DEF Xack, StreamRecord, LoopTypeOK
  <2>3. Live(M, Acking)' <= Live(M, Acking)
      BY <1>1, <2>1, <2>2, FinishLive, LoopAssumption
  <2> QED
      BY <1>1, <2>1, <2>2, <2>3 DEF Quiet
<1>4. ASSUME NEW w \in Workers,
             \/ CheckDuplicate(w) \/ PersistRawEvent(w) \/ PersistFails(w)
             \/ MarkSeen(w) \/ TouchTTL(w)
      PROVE  Quiet(M)
  <2>1. /\ pc[w] \in HandlerLabels /\ pc[w] \notin Acking
        /\ InHandler /\ UNCHANGED <<q, clean>> /\ faults <= faults'
        /\ \E label : Goto(w, label)
      BY <1>1, <1>4 DEF CheckDuplicate, PersistRawEvent, PersistFails, MarkSeen, TouchTTL, HandlerLabels,
          Acking, local, SpendFault
  <2>2. Live(M, Acking)' <= Live(M, Acking)
      BY <2>1, PlainLive
  <2> QED
      BY <1>1, <2>1, <2>2 DEF Quiet
<1>5. ASSUME NEW w \in Workers, Forward(w)
      PROVE  pc[w] \in HandlerLabels /\ Forwards(w, M)
  <2>1. /\ pc[w] \in HandlerLabels /\ pc[w] \notin Acking /\ "ack" \in Acking
        /\ InHandler /\ UNCHANGED <<q, faults>> /\ Goto(w, "ack")
        /\ clean' = Xadd(clean, Msg(w))
      BY <1>5 DEF Forward, HandlerLabels, Acking
  <2> QED
      BY <2>1, PlainLive DEF Forwards
<1>6. CASE Clock
  <2>1. ClockStep /\ clean' = clean
      BY <1>6 DEF Clock, local
  <2>2. q'.log = q.log /\ Live(M, Acking)' <= Live(M, Acking) + faults' - faults
      BY <1>1, <2>1, ClockFacts, ClockLive, LoopAssumption
  <2> QED
      BY <2>1, <2>2 DEF Quiet
<1>7. CASE \E m \in Missions : DedupTTL(m)
  <2>1. UNCHANGED <<q, pc, batch, cur, faults, clean>>
      BY <1>7 DEF loopVars, DedupTTL
  <2>2. Live(M, Acking)' = Live(M, Acking)
      BY <2>1 DEF Live, Waiting, InHand, Ids, Held
  <2> QED
      BY <1>1, <2>1, <2>2 DEF Quiet
<1> QED
    BY <1>2, <1>3, <1>4, <1>5, <1>6, <1>7 DEF StageStep, Handler, Fault

\* What arrives on raw_data can be handed on once more.
LEMMA ElsewhereFlow ==
    ASSUME CoreInv, Elsewhere, NEW M
    PROVE  /\ q' = q => Live(M, Acking)' = Live(M, Acking)
           /\ \A msg \in RawMessage : q' = Xadd(q, msg) =>
                  Live(M, Acking)' = Live(M, Acking) + (IF msg \in M THEN 1 ELSE 0)
<1>1. UNCHANGED <<pc, batch, cur>>
    BY DEF Elsewhere
<1>2. q' = q => Live(M, Acking)' = Live(M, Acking)
    BY <1>1 DEF Live, Waiting, InHand, Ids, Held
<1>3. ASSUME NEW msg \in RawMessage, q' = Xadd(q, msg)
      PROVE  Live(M, Acking)' = Live(M, Acking) + (IF msg \in M THEN 1 ELSE 0)
    BY <1>1, <1>3, InvParts, ArriveLive, LoopAssumption
<1> QED
    BY <1>2, <1>3

-----------------------------------------------------------------------------
(* What a step of the stage does to the streams and to what is carried.    *)

StreamsKept == q'.log = q.log /\ Unacked(q') = Unacked(q) /\ clean' = clean

\* The workers W go on carrying what they carry, and take up nothing.
CarryOn(W) ==
    \A x \in W : /\ Carrying(x)' <=> Carrying(x)
                 /\ Carrying(x) => cur'[x] = cur[x]

\* Nothing that the next stage or the dedup set's history would show.
Unseen == StreamsKept /\ torn' = torn /\ CarryOn(Workers)

\* A worker marks its content, forwards it, acknowledges its entry, or is lost with
\* its content marked.
MarkedBy(w) ==
    /\ UNCHANGED <<q, clean, torn>>
    /\ Carrying(w)' /\ cur'[w] = cur[w]

ForwardedBy(w) ==
    /\ UNCHANGED <<q, torn>> /\ clean' = Xadd(clean, Msg(w))
    /\ Carrying(w) /\ ~Carrying(w)'

AckedBy(w) ==
    /\ q'.log = q.log /\ Unacked(q') = Unacked(q) \ {cur[w]} /\ UNCHANGED <<clean, torn>>
    /\ ~Carrying(w) /\ ~Carrying(w)'

TornFrom(w) ==
    /\ StreamsKept /\ torn' = torn \cup {<<Mission(w), Hash(w)>>}
    /\ Carrying(w) /\ ~Carrying(w)'

LEMMA Moves ==
    ASSUME CoreInv, StageStep
    PROVE  \/ Unseen
           \/ \E w \in Workers :
                  /\ pc[w] \in HandlerLabels /\ CarryOn(Workers \ {w})
                  /\ MarkedBy(w) \/ ForwardedBy(w) \/ AckedBy(w) \/ TornFrom(w)
<1> DEFINE Moved(w) == \A x \in Workers : x # w => pc'[x] = pc[x] /\ cur'[x] = cur[x]
<1>1. ASSUME NEW w, Moved(w)
      PROVE  CarryOn(Workers \ {w})
    BY <1>1 DEF CarryOn, Carrying
<1>2. ASSUME NEW w, CarryOn(Workers \ {w}), ~Carrying(w), ~Carrying(w)'
      PROVE  CarryOn(Workers)
    BY <1>2 DEF CarryOn
<1>3. ASSUME NEW w \in Workers, Loop(w) \/ Abort(w) \/ ClaimFails(w)
      PROVE  Unseen \/ (pc[w] \in HandlerLabels /\ CarryOn(Workers \ {w}) /\ TornFrom(w))
  <2>1. /\ LoopStep(w) \/ LoseBatch(w) \/ ClaimError(w)
        /\ clean' = clean
        /\ torn' = IF Carrying(w) THEN torn \cup {<<Mission(w), Hash(w)>>} ELSE torn
      BY <1>3 DEF Loop, Abort, ClaimFails, LoopStep, Claim, Read, ClaimError, Carrying, local
  <2>2. OnlyMoves(w) /\ q'.log = q.log /\ Unacked(q') = Unacked(q)
      BY <2>1, InvParts, LabelFacts, LoopFacts, LoopAssumption
  <2>3. Moved(w) /\ ~Carrying(w)'
      BY <2>2 DEF OnlyMoves, Carrying
  <2>4. Carrying(w) => pc[w] \in HandlerLabels
      BY DEF Carrying, HandlerLabels
  <2> QED
      BY <1>1, <1>2, <2>1, <2>2, <2>3, <2>4 DEF Unseen, TornFrom, StreamsKept
<1>4. ASSUME NEW w \in Workers, DropDuplicate(w) \/ Ack(w)
      PROVE  pc[w] \in HandlerLabels /\ CarryOn(Workers \ {w}) /\ AckedBy(w)
  <2>1. /\ pc[w] \in HandlerLabels /\ ~Carrying(w) /\ AckAndFinish(w)
        /\ UNCHANGED <<clean, torn>>
      BY <1>4 DEF DropDuplicate, Ack, HandlerLabels, Carrying, local
  <2>2. OnlyMoves(w) /\ q'.log = q.log /\ Unacked(q') = Unacked(q) \ {cur[w]}
      BY <2>1, InvParts, LabelFacts, AckAndFinishFacts, LoopAssumption
  <2>3. Moved(w) /\ ~Carrying(w)'
      BY <2>2 DEF OnlyMoves, Carrying
  <2> QED
      BY <1>1, <2>1, <2>2, <2>3 DEF AckedBy
<1>5. ASSUME NEW w \in Workers, NEW label, Goto(w, label), InHandler, pc[w] \in HandlerLabels
      PROVE  Moved(w) /\ pc'[w] = label /\ cur' = cur
    BY <1>5, InvParts DEF Goto, InHandler
<1>6. ASSUME NEW w \in Workers,
             CheckDuplicate(w) \/ PersistRawEvent(w) \/ PersistFails(w)
      PROVE  Unseen
  <2>1. /\ pc[w] \in HandlerLabels /\ ~Carrying(w) /\ InHandler /\ UNCHANGED <<q, clean, torn>>
        /\ \E label \in {"drop", "persist", "markSeen"} : Goto(w, label)
      BY <1>6 DEF CheckDuplicate, PersistRawEvent, PersistFails, HandlerLabels, Carrying, local
  <2>2. CarryOn(Workers \ {w}) /\ ~Carrying(w)'
      BY <1>1, <1>5, <2>1 DEF Carrying
  <2> QED
      BY <1>2, <2>1, <2>2 DEF Unseen, StreamsKept
<1>7. ASSUME NEW w \in Workers, TouchTTL(w)
      PROVE  Unseen
  <2>1. /\ pc[w] \in HandlerLabels /\ Carrying(w) /\ InHandler /\ UNCHANGED <<q, clean, torn>>
        /\ Goto(w, "forward")
      BY <1>7 DEF TouchTTL, HandlerLabels, Carrying
  <2>2. CarryOn(Workers \ {w}) /\ Carrying(w)' /\ cur'[w] = cur[w]
      BY <1>1, <1>5, <2>1 DEF Carrying
  <2> QED
      BY <2>1, <2>2 DEF Unseen, StreamsKept, CarryOn
<1>8. ASSUME NEW w \in Workers, MarkSeen(w)
      PROVE  pc[w] \in HandlerLabels /\ CarryOn(Workers \ {w}) /\ MarkedBy(w)
  <2>1. /\ pc[w] \in HandlerLabels /\ InHandler /\ UNCHANGED <<q, clean, torn>>
        /\ Goto(w, "touch")
      BY <1>8 DEF MarkSeen, HandlerLabels
  <2>2. CarryOn(Workers \ {w}) /\ Carrying(w)' /\ cur'[w] = cur[w]
      BY <1>1, <1>5, <2>1 DEF Carrying
  <2> QED
      BY <2>1, <2>2 DEF MarkedBy
<1>9. ASSUME NEW w \in Workers, Forward(w)
      PROVE  pc[w] \in HandlerLabels /\ CarryOn(Workers \ {w}) /\ ForwardedBy(w)
  <2>1. /\ pc[w] \in HandlerLabels /\ Carrying(w) /\ InHandler /\ UNCHANGED <<q, torn>>
        /\ clean' = Xadd(clean, Msg(w)) /\ Goto(w, "ack")
      BY <1>9 DEF Forward, HandlerLabels, Carrying
  <2>2. CarryOn(Workers \ {w}) /\ ~Carrying(w)'
      BY <1>1, <1>5, <2>1 DEF Carrying
  <2> QED
      BY <2>1, <2>2 DEF ForwardedBy
<1>10. CASE Clock
  <2>1. ClockStep /\ UNCHANGED <<clean, torn>>
      BY <1>10 DEF Clock, local
  <2>2. q'.log = q.log /\ Unacked(q') = Unacked(q) /\ UNCHANGED <<pc, cur>>
      BY <2>1, InvParts, ClockFacts, LoopAssumption
  <2> QED
      BY <2>1, <2>2 DEF Unseen, StreamsKept, CarryOn, Carrying
<1>11. CASE \E m \in Missions : DedupTTL(m)
  <2>1. UNCHANGED <<q, pc, cur, clean, torn>>
      BY <1>11 DEF loopVars, DedupTTL
  <2> QED
      BY <2>1 DEF Unseen, StreamsKept, CarryOn, Carrying
<1> QED
    BY <1>3, <1>4, <1>6, <1>7, <1>8, <1>9, <1>10, <1>11 DEF StageStep, Handler, Fault

=============================================================================
