--------------------------- MODULE StreamWorkerProofs ---------------------------
(***************************************************************************)
(* What the Redis commands do to a stream, and what the steps of the run() *)
(* loop preserve in every stage: the types of the loop's variables, that   *)
(* workers hold delivered entries only, and that only an acknowledgement   *)
(* finishes an entry.                                                      *)
(***************************************************************************)
EXTENDS StreamWorker, SequenceTheorems, FiniteSetTheorems, TLAPS

(* What each Redis command does to the parts of a stream that the proofs   *)
(* use: its entries (log) and those still to be processed (Unacked).       *)

\* A group starts with nothing delivered (ensure_stream_groups).
LEMMA EmptyStreamFacts ==
    ASSUME NEW Message
    PROVE  /\ EmptyStream \in StreamOf(Message)
           /\ Ids(EmptyStream) = {}
           /\ EmptyStream.last = 0
BY EmptySeq DEF EmptyStream, StreamOf, Ids

\* The record that a stream is.
StreamRecord(Message) ==
    [log : Seq(Message), last : Nat, pel : SUBSET Nat, idle : SUBSET Nat]

LEMMA StreamFields ==
    ASSUME NEW Message, NEW s \in StreamOf(Message)
    PROVE  /\ s \in StreamRecord(Message)
           /\ s.log \in Seq(Message) /\ Len(s.log) \in Nat
           /\ s.last \in Nat /\ s.last <= Len(s.log)
           /\ s.pel \subseteq 1 .. s.last
           /\ s.idle \subseteq s.pel
BY LenProperties DEF StreamOf, StreamRecord

\* An id of a stream names a message of it.
LEMMA EntryFacts ==
    ASSUME NEW Message, NEW s \in StreamOf(Message)
    PROVE  /\ \A i \in Ids(s) : s.log[i] \in Message
           /\ Ids(s) \subseteq Nat \ {0}
           /\ 1 .. s.last \subseteq Ids(s)
           /\ Unacked(s) \subseteq Ids(s)
BY StreamFields, ElementOfSeq DEF Ids, Unacked

\* XADD appends one entry, still to be processed, and changes no other.
LEMMA XaddFacts ==
    ASSUME NEW Message, NEW s \in StreamOf(Message), NEW msg \in Message
    PROVE  /\ Xadd(s, msg) \in StreamOf(Message)
           /\ Xadd(s, msg).last = s.last
           /\ Ids(Xadd(s, msg)) = Ids(s) \cup {Len(s.log) + 1}
           /\ \A i \in Ids(s) : Xadd(s, msg).log[i] = s.log[i]
           /\ Xadd(s, msg).log[Len(s.log) + 1] = msg
           /\ Unacked(Xadd(s, msg)) = Unacked(s) \cup {Len(s.log) + 1}
<1> DEFINE t == Xadd(s, msg)
<1>1. /\ s \in StreamRecord(Message)
      /\ s.log \in Seq(Message) /\ Len(s.log) \in Nat
      /\ s.last \in Nat /\ s.last <= Len(s.log)
      /\ s.pel \subseteq 1 .. s.last /\ s.idle \subseteq s.pel
    BY StreamFields
<1>2. /\ Append(s.log, msg) \in Seq(Message)
      /\ Len(Append(s.log, msg)) = Len(s.log) + 1
      /\ \A i \in 1 .. Len(s.log) : Append(s.log, msg)[i] = s.log[i]
      /\ Append(s.log, msg)[Len(s.log) + 1] = msg
    BY <1>1, AppendProperties
<1>3. /\ t \in StreamRecord(Message)
      /\ t.log = Append(s.log, msg) /\ t.last = s.last /\ t.pel = s.pel /\ t.idle = s.idle
    BY <1>1, <1>2 DEF Xadd, StreamRecord
<1>4. t \in StreamOf(Message)
    BY <1>1, <1>2, <1>3 DEF StreamOf, StreamRecord
<1>5. Ids(t) = Ids(s) \cup {Len(s.log) + 1}
    BY <1>1, <1>2, <1>3 DEF Ids
<1>6. Unacked(t) = Unacked(s) \cup {Len(s.log) + 1}
    BY <1>1, <1>3, <1>5 DEF Unacked, Ids
<1> QED
    BY <1>2, <1>3, <1>4, <1>5, <1>6 DEF Ids

\* XREADGROUP delivers entries; it neither adds nor finishes any.
LEMMA XreadGroupFacts ==
    ASSUME NEW Message, NEW s \in StreamOf(Message), NEW n \in Nat
    PROVE  /\ XreadGroup(s, n) \in StreamOf(Message)
           /\ XreadGroup(s, n).log = s.log
           /\ s.last <= XreadGroup(s, n).last
           /\ Undelivered(s, n) \subseteq 1 .. XreadGroup(s, n).last
           /\ Unacked(XreadGroup(s, n)) = Unacked(s)
<1> DEFINE t == XreadGroup(s, n)
           last == IF s.last + n <= Len(s.log) THEN s.last + n ELSE Len(s.log)
<1>1. /\ s \in StreamRecord(Message)
      /\ s.log \in Seq(Message) /\ Len(s.log) \in Nat
      /\ s.last \in Nat /\ s.last <= Len(s.log)
      /\ s.pel \subseteq 1 .. s.last /\ s.idle \subseteq s.pel
    BY StreamFields
<1>2. last \in Nat /\ s.last <= last /\ last <= Len(s.log) /\ Undelivered(s, n) \subseteq 1 .. last
    BY <1>1 DEF Undelivered, Ids
<1>3. /\ t \in StreamRecord(Message)
      /\ t.log = s.log /\ t.last = last /\ t.idle = s.idle
      /\ t.pel = s.pel \cup Undelivered(s, n)
  <2>1. last \in Nat /\ s.pel \cup Undelivered(s, n) \in SUBSET Nat
      BY <1>1, <1>2
  <2>2. t = [s EXCEPT !.last = last, !.pel = s.pel \cup Undelivered(s, n)]
      BY DEF XreadGroup
  <2> HIDE DEF t, last
  <2> QED
      BY <1>1, <2>1, <2>2 DEF StreamRecord
<1>4. t \in StreamOf(Message)
    BY <1>1, <1>2, <1>3 DEF StreamOf, StreamRecord
<1>5. Unacked(t) = Unacked(s)
  <2>1. \A i \in Ids(s) : i > last => i > s.last
      BY <1>1, <1>2 DEF Ids
  <2>2. \A i \in Ids(s) : i > s.last => i > last \/ i \in Undelivered(s, n)
      BY <1>1 DEF Ids, Undelivered
  <2>3. \A i \in Undelivered(s, n) : i > s.last
      BY <1>1 DEF Undelivered, Ids
  <2>4. Ids(t) = Ids(s)
      BY <1>3 DEF Ids
  <2> HIDE DEF t, last
  <2> QED
      BY <1>3, <2>1, <2>2, <2>3, <2>4 DEF Unacked
<1> QED
    BY <1>2, <1>3, <1>4, <1>5

\* XAUTOCLAIM hands out pending entries; it neither adds nor finishes any.
LEMMA XautoclaimFacts ==
    ASSUME NEW Message, NEW s \in StreamOf(Message), NEW n
    PROVE  /\ Xautoclaim(s, n) \in StreamOf(Message)
           /\ Xautoclaim(s, n).log = s.log
           /\ Xautoclaim(s, n).last = s.last
           /\ Claimable(s, n) \subseteq 1 .. s.last
           /\ Unacked(Xautoclaim(s, n)) = Unacked(s)
<1> DEFINE t == Xautoclaim(s, n)
<1>1. /\ s \in StreamRecord(Message) /\ s.last <= Len(s.log)
      /\ s.pel \subseteq 1 .. s.last /\ s.idle \subseteq s.pel
    BY StreamFields
<1>2. Claimable(s, n) \subseteq s.idle
    BY DEF Claimable, Lowest
<1>3. /\ t \in StreamRecord(Message)
      /\ t.log = s.log /\ t.last = s.last /\ t.pel = s.pel
      /\ t.idle = s.idle \ Claimable(s, n)
    BY <1>1 DEF Xautoclaim, StreamRecord
<1>4. t \in StreamOf(Message)
    BY <1>1, <1>3 DEF StreamOf, StreamRecord
<1> QED
    BY <1>1, <1>2, <1>3, <1>4 DEF Unacked, Ids

\* XACK finishes one delivered entry.
LEMMA XackFacts ==
    ASSUME NEW Message, NEW s \in StreamOf(Message), NEW id \in 1 .. s.last
    PROVE  /\ Xack(s, id) \in StreamOf(Message)
           /\ Xack(s, id).log = s.log
           /\ Xack(s, id).last = s.last
           /\ Unacked(Xack(s, id)) = Unacked(s) \ {id}
<1> DEFINE t == Xack(s, id)
<1>1. /\ s \in StreamRecord(Message) /\ s.last \in Nat /\ s.last <= Len(s.log)
      /\ s.pel \subseteq 1 .. s.last /\ s.idle \subseteq s.pel
    BY StreamFields
<1>2. /\ t \in StreamRecord(Message)
      /\ t.log = s.log /\ t.last = s.last
      /\ t.pel = s.pel \ {id} /\ t.idle = s.idle \ {id}
    BY <1>1 DEF Xack, StreamRecord
<1>3. t \in StreamOf(Message)
    BY <1>1, <1>2 DEF StreamOf, StreamRecord
<1>4. ~(id > s.last)
    BY <1>1
<1> QED
    BY <1>2, <1>3, <1>4 DEF Unacked, Ids

\* The clock only makes pending entries claimable.
LEMMA GoIdleFacts ==
    ASSUME NEW Message, NEW s \in StreamOf(Message), NEW id \in s.pel
    PROVE  /\ GoIdle(s, id) \in StreamOf(Message)
           /\ GoIdle(s, id).log = s.log
           /\ GoIdle(s, id).last = s.last
           /\ Unacked(GoIdle(s, id)) = Unacked(s)
<1> DEFINE t == GoIdle(s, id)
<1>1. /\ s \in StreamRecord(Message) /\ s.last \in Nat /\ s.last <= Len(s.log)
      /\ s.pel \subseteq 1 .. s.last /\ s.idle \subseteq s.pel
    BY StreamFields
<1>2. /\ t \in StreamRecord(Message)
      /\ t.log = s.log /\ t.last = s.last
      /\ t.pel = s.pel /\ t.idle = s.idle \cup {id}
    BY <1>1 DEF GoIdle, StreamRecord
<1>3. t \in StreamOf(Message)
    BY <1>1, <1>2 DEF StreamOf, StreamRecord
<1> QED
    BY <1>2, <1>3 DEF Unacked, Ids

-----------------------------------------------------------------------------
(* Counting entries.                                                       *)

LEMMA FiniteIds ==
    ASSUME NEW Message, NEW s \in StreamOf(Message), NEW S \in SUBSET Ids(s)
    PROVE  IsFiniteSet(S) /\ Cardinality(S) \in Nat
<1>1. IsFiniteSet(Ids(s))
    BY StreamFields, FS_Interval DEF Ids
<1> QED
    BY <1>1, FS_Subset, FS_CardinalityType

\* XADD adds one to the count of the sets its message is in.
LEMMA CountFacts ==
    ASSUME NEW Message, NEW s \in StreamOf(Message), NEW msg \in Message, NEW M
    PROVE  /\ CountOf(s, M) \in Nat
           /\ CountOf(Xadd(s, msg), M) = CountOf(s, M) + (IF msg \in M THEN 1 ELSE 0)
<1> DEFINE S == {i \in Ids(s) : s.log[i] \in M}
           t == Xadd(s, msg)
           T == {i \in Ids(t) : t.log[i] \in M}
           new == Len(s.log) + 1
<1>1. /\ Ids(t) = Ids(s) \cup {new}
      /\ \A i \in Ids(s) : t.log[i] = s.log[i]
      /\ t.log[new] = msg
    BY XaddFacts
<1>2. new \notin Ids(s)
    BY StreamFields DEF Ids
<1>3. IsFiniteSet(S) /\ Cardinality(S) \in Nat
    BY FiniteIds
<1> HIDE DEF t, new
<1>4. T = IF msg \in M THEN S \cup {new} ELSE S
    BY <1>1
<1>5. new \notin S
    BY <1>2
<1> HIDE DEF S, T
<1>6. Cardinality(T) = Cardinality(S) + (IF msg \in M THEN 1 ELSE 0)
  <2>1. Cardinality(S \cup {new}) = Cardinality(S) + 1
      BY <1>3, <1>5, FS_AddElement
  <2> QED
      BY <1>3, <1>4, <2>1
<1> QED
    BY <1>3, <1>6 DEF CountOf, S, T, t

-----------------------------------------------------------------------------
(* The steps of the loop.                                                  *)

\* Only worker w moved, to the loop or to the start of its handler.
OnlyMoves(w) ==
    /\ pc'[w] \in {"claim", "read", "start"}
    /\ \A x \in Workers : x # w => pc'[x] = pc[x] /\ cur'[x] = cur[x]

\* Taking the next entry of a batch, or leaving an empty one.
LEMMA ProcessBatchFacts ==
    ASSUME NEW Message, NEW Labels,
           {"start"} \subseteq Labels, {"claim", "read"} \cap Labels = {},
           LoopTypeOK(Message, Labels), WorkInv(Labels),
           NEW w \in Workers, NEW ids \in SUBSET (1 .. q'.last),
           NEW next \in {"claim", "read"},
           ProcessBatch(w, ids, next),
           q' \in StreamOf(Message), q.last <= q'.last,
           faults' \in 0 .. MaxFaults
    PROVE  LoopTypeOK(Message, Labels)' /\ WorkInv(Labels)' /\ OnlyMoves(w)
<1>1. /\ q.last \in Nat /\ q'.last \in Nat
      /\ pc \in [Workers -> {"claim", "read"} \cup Labels]
      /\ after \in [Workers -> {"claim", "read"}]
      /\ batch \in [Workers -> SUBSET Nat]
      /\ cur \in [Workers -> Nat]
    BY StreamFields DEF LoopTypeOK
<1>2. CASE ids = {}
  <2>1. /\ pc' = [pc EXCEPT ![w] = next]
        /\ after' = [after EXCEPT ![w] = "claim"]
        /\ batch' = [batch EXCEPT ![w] = {}]
        /\ cur' = [cur EXCEPT ![w] = 0]
      BY <1>2 DEF ProcessBatch, Goto
  <2>2. LoopTypeOK(Message, Labels)'
      BY <1>1, <2>1 DEF LoopTypeOK
  <2>3. WorkInv(Labels)'
      BY <1>1, <2>1 DEF WorkInv
  <2> QED
      BY <1>1, <2>1, <2>2, <2>3 DEF OnlyMoves
<1>3. CASE ids # {}
  <2>1. PICK id \in ids :
            /\ pc' = [pc EXCEPT ![w] = "start"]
            /\ after' = [after EXCEPT ![w] = next]
            /\ batch' = [batch EXCEPT ![w] = ids \ {id}]
            /\ cur' = [cur EXCEPT ![w] = id]
      BY <1>3 DEF ProcessBatch, Goto
  <2>2. id \in 1 .. q'.last /\ ids \ {id} \in SUBSET Nat
      BY <1>1
  <2>3. LoopTypeOK(Message, Labels)'
      BY <1>1, <2>1, <2>2 DEF LoopTypeOK
  <2>4. WorkInv(Labels)'
    <3> SUFFICES ASSUME NEW x \in Workers
                 PROVE  /\ batch'[x] \subseteq 1 .. q'.last
                        /\ cur'[x] \in (0 .. q'.last) \ batch'[x]
                        /\ pc'[x] \in Labels => cur'[x] # 0
                        /\ pc'[x] \notin Labels => batch'[x] = {} /\ cur'[x] = 0
        BY DEF WorkInv
    <3>1. CASE x = w
      <4>1. batch'[w] = ids \ {id} /\ cur'[w] = id /\ pc'[w] \in Labels
          BY <1>1, <2>1
      <4> QED
          BY <1>1, <2>2, <3>1, <4>1
    <3>2. CASE x # w
      <4>1. batch'[x] = batch[x] /\ cur'[x] = cur[x] /\ pc'[x] = pc[x]
          BY <1>1, <2>1, <3>2
      <4>2. /\ batch[x] \subseteq 1 .. q.last
            /\ cur[x] \in (0 .. q.last) \ batch[x]
            /\ pc[x] \in Labels => cur[x] # 0
            /\ pc[x] \notin Labels => batch[x] = {} /\ cur[x] = 0
          BY DEF WorkInv
      <4> QED
          BY <1>1, <4>1, <4>2
    <3> QED
        BY <3>1, <3>2
  <2> QED
      BY <1>1, <2>1, <2>3, <2>4 DEF OnlyMoves
<1> QED
    BY <1>2, <1>3

\* The steps that fetch entries, lose a batch or pass time finish no entry.
LEMMA LoopFacts ==
    ASSUME NEW Message, NEW Labels,
           {"start"} \subseteq Labels, {"claim", "read"} \cap Labels = {},
           LoopAssumption, LoopTypeOK(Message, Labels), WorkInv(Labels),
           NEW w \in Workers,
           LoopStep(w) \/ ClaimError(w) \/ LoseBatch(w)
    PROVE  /\ LoopTypeOK(Message, Labels)' /\ WorkInv(Labels)' /\ OnlyMoves(w)
           /\ q'.log = q.log
           /\ Unacked(q') = Unacked(q)
<1>1. /\ q \in StreamOf(Message) /\ q.last \in Nat
      /\ pc \in [Workers -> {"claim", "read"} \cup Labels]
      /\ after \in [Workers -> {"claim", "read"}]
      /\ batch \in [Workers -> SUBSET Nat]
      /\ cur \in [Workers -> Nat]
      /\ faults \in 0 .. MaxFaults
    BY StreamFields DEF LoopTypeOK
<1>2. ReadCount \in Nat /\ MaxFaults \in Nat
    BY DEF LoopAssumption
<1>3. CASE Claim(w)
  <2>1. /\ q' = Xautoclaim(q, ClaimCount) /\ faults' = faults
        /\ ProcessBatch(w, Claimable(q, ClaimCount), "read")
      BY <1>3 DEF Claim
  <2>2. /\ q' \in StreamOf(Message) /\ q'.log = q.log /\ q'.last = q.last
        /\ Claimable(q, ClaimCount) \subseteq 1 .. q.last
        /\ Unacked(q') = Unacked(q)
      BY <1>1, <2>1, XautoclaimFacts
  <2> QED
      BY <1>1, <2>1, <2>2, ProcessBatchFacts
<1>4. CASE Read(w)
  <2>1. /\ q' = XreadGroup(q, ReadCount) /\ faults' = faults
        /\ ProcessBatch(w, Undelivered(q, ReadCount), "claim")
      BY <1>4 DEF Read
  <2>2. /\ q' \in StreamOf(Message) /\ q'.log = q.log /\ q.last <= q'.last
        /\ Undelivered(q, ReadCount) \subseteq 1 .. q'.last
        /\ Unacked(q') = Unacked(q)
      BY <1>1, <1>2, <2>1, XreadGroupFacts
  <2> QED
      BY <1>1, <2>1, <2>2, ProcessBatchFacts
<1>5. CASE ClaimError(w)
  <2>1. /\ q' \in StreamOf(Message) /\ q'.log = q.log /\ q'.last = q.last
        /\ Unacked(q') = Unacked(q)
      BY <1>1, <1>5, XautoclaimFacts DEF ClaimError
  <2>2. /\ pc' = [pc EXCEPT ![w] = "read"]
        /\ UNCHANGED <<after, batch, cur>>
        /\ faults' \in 0 .. MaxFaults
      BY <1>1, <1>2, <1>5 DEF ClaimError, Goto, SpendFault
  <2>3. LoopTypeOK(Message, Labels)'
      BY <1>1, <2>1, <2>2 DEF LoopTypeOK
  <2>4. pc[w] = "claim" /\ batch[w] = {} /\ cur[w] = 0
      BY <1>5 DEF ClaimError, WorkInv
  <2>5. WorkInv(Labels)' /\ OnlyMoves(w)
      BY <1>1, <2>1, <2>2, <2>4 DEF WorkInv, OnlyMoves
  <2> QED
      BY <2>1, <2>3, <2>5
<1>6. CASE LoseBatch(w)
  <2>1. /\ pc' = [pc EXCEPT ![w] = "claim"]
        /\ after' = [after EXCEPT ![w] = "claim"]
        /\ batch' = [batch EXCEPT ![w] = {}]
        /\ cur' = [cur EXCEPT ![w] = 0]
        /\ q' = q
        /\ faults' \in 0 .. MaxFaults
      BY <1>1, <1>2, <1>6 DEF LoseBatch, Goto, SpendFault
  <2>2. LoopTypeOK(Message, Labels)'
      BY <1>1, <2>1 DEF LoopTypeOK
  <2>3. WorkInv(Labels)' /\ OnlyMoves(w)
      BY <1>1, <2>1 DEF WorkInv, OnlyMoves
  <2> QED
      BY <2>1, <2>2, <2>3
<1> QED
    BY <1>3, <1>4, <1>5, <1>6 DEF LoopStep

\* The passing of the claim timeout moves no worker.
LEMMA ClockFacts ==
    ASSUME NEW Message, NEW Labels,
           LoopAssumption, LoopTypeOK(Message, Labels), WorkInv(Labels), ClockStep
    PROVE  /\ LoopTypeOK(Message, Labels)' /\ WorkInv(Labels)'
           /\ q'.log = q.log
           /\ Unacked(q') = Unacked(q)
           /\ UNCHANGED <<pc, cur>>
<1>1. PICK id \in q.pel : q' = GoIdle(q, id)
    BY DEF ClockStep, OrphanGoesIdle, HeldGoesIdle
<1>2. /\ q' \in StreamOf(Message) /\ q'.log = q.log /\ q'.last = q.last
      /\ Unacked(q') = Unacked(q)
    BY <1>1, GoIdleFacts DEF LoopTypeOK
<1>3. UNCHANGED <<pc, after, batch, cur>> /\ faults' \in 0 .. MaxFaults
    BY DEF ClockStep, OrphanGoesIdle, HeldGoesIdle, SpendFault, LoopTypeOK, LoopAssumption
<1> QED
    BY <1>2, <1>3 DEF LoopTypeOK, WorkInv

\* A handler's acknowledgement finishes its own entry and no other.
LEMMA AckAndFinishFacts ==
    ASSUME NEW Message, NEW Labels,
           {"start"} \subseteq Labels, {"claim", "read"} \cap Labels = {},
           LoopTypeOK(Message, Labels), WorkInv(Labels),
           NEW w \in Workers, pc[w] \in Labels,
           AckAndFinish(w)
    PROVE  /\ LoopTypeOK(Message, Labels)' /\ WorkInv(Labels)' /\ OnlyMoves(w)
           /\ q'.log = q.log
           /\ Unacked(q') = Unacked(q) \ {cur[w]}
<1>1. /\ q \in StreamOf(Message) /\ q.last \in Nat
      /\ cur[w] \in 1 .. q.last
      /\ batch[w] \in SUBSET (1 .. q.last)
      /\ after[w] \in {"claim", "read"}
      /\ faults \in 0 .. MaxFaults
    BY StreamFields DEF LoopTypeOK, WorkInv
<1>2. q' = Xack(q, cur[w]) /\ faults' = faults /\ ProcessBatch(w, batch[w], after[w])
    BY DEF AckAndFinish, Finish
<1>3. /\ q' \in StreamOf(Message) /\ q'.log = q.log /\ q'.last = q.last
      /\ Unacked(q') = Unacked(q) \ {cur[w]}
    BY <1>1, <1>2, XackFacts
<1> QED
    BY <1>1, <1>2, <1>3, ProcessBatchFacts

\* A step inside a handler, which may add entries to its own input stream.
LEMMA HandlerMoveFacts ==
    ASSUME NEW Message, NEW Labels,
           LoopTypeOK(Message, Labels), WorkInv(Labels),
           NEW w \in Workers, pc[w] \in Labels,
           NEW label \in Labels, Goto(w, label),
           UNCHANGED <<after, batch, cur>>,
           q' \in StreamOf(Message), q'.last = q.last,
           faults' \in 0 .. MaxFaults
    PROVE  /\ LoopTypeOK(Message, Labels)' /\ WorkInv(Labels)'
           /\ pc'[w] = label
           /\ \A x \in Workers : x # w => pc'[x] = pc[x]
<1>1. pc \in [Workers -> {"claim", "read"} \cup Labels]
    BY DEF LoopTypeOK
<1>2. pc' = [pc EXCEPT ![w] = label]
    BY DEF Goto
<1> QED
    BY <1>1, <1>2 DEF LoopTypeOK, WorkInv

-----------------------------------------------------------------------------
(* How often messages can still be handed on (Live) after a step.          *)

LEMMA UnionBound ==
    ASSUME NEW A, NEW B, IsFiniteSet(A), IsFiniteSet(B)
    PROVE  /\ IsFiniteSet(A \cup B)
           /\ Cardinality(A \cup B) <= Cardinality(A) + Cardinality(B)
<1>1. /\ IsFiniteSet(A \cup B)
      /\ Cardinality(A \cup B)
             = Cardinality(A) + Cardinality(B) - Cardinality(A \cap B)
    BY FS_Union
<1>2. IsFiniteSet(A \cap B)
    BY FS_Intersection
<1>3. /\ Cardinality(A) \in Nat /\ Cardinality(B) \in Nat
      /\ Cardinality(A \cap B) \in Nat
    BY <1>2, FS_CardinalityType
<1> QED
    BY <1>1, <1>3

LEMMA PairWith ==
    ASSUME NEW w, NEW K, IsFiniteSet(K)
    PROVE  IsFiniteSet({w} \X K) /\ Cardinality({w} \X K) = Cardinality(K)
<1>1. IsFiniteSet({w}) /\ Cardinality({w}) = 1
    BY FS_Singleton
<1>2. /\ IsFiniteSet({w} \X K)
      /\ Cardinality({w} \X K) = Cardinality({w}) * Cardinality(K)
    BY <1>1, FS_Product
<1>3. Cardinality(K) \in Nat
    BY FS_CardinalityType
<1> QED
    BY <1>1, <1>2, <1>3

\* Entries K that were waiting are now in the hands of w, or nobody's.
LEMMA Grab ==
    ASSUME NEW A, NEW B, IsFiniteSet(A), IsFiniteSet(B),
           NEW w, NEW K \in SUBSET A,
           NEW A1 \in SUBSET (A \ K), NEW B1 \in SUBSET (B \cup ({w} \X K))
    PROVE  Cardinality(A1) + Cardinality(B1) <= Cardinality(A) + Cardinality(B)
<1> DEFINE H == {w} \X K
<1>1. IsFiniteSet(K) /\ Cardinality(K) \in Nat
    BY FS_Subset, FS_CardinalityType
<1>2. IsFiniteSet(H) /\ Cardinality(H) = Cardinality(K)
    BY <1>1, PairWith
<1> HIDE DEF H
<1>3. IsFiniteSet(A \ K) /\ Cardinality(A \ K) = Cardinality(A) - Cardinality(K)
  <2>1. A \cap K = K
      OBVIOUS
  <2> QED
      BY <2>1, FS_Difference
<1>4. IsFiniteSet(B \cup H) /\ Cardinality(B \cup H) <= Cardinality(B) + Cardinality(K)
    BY <1>2, UnionBound
<1>5. /\ Cardinality(A1) <= Cardinality(A \ K) /\ IsFiniteSet(A1)
      /\ Cardinality(B1) <= Cardinality(B \cup H) /\ IsFiniteSet(B1)
    BY <1>3, <1>4, FS_Subset DEF H
<1>6. /\ Cardinality(A) \in Nat /\ Cardinality(B) \in Nat
      /\ Cardinality(A1) \in Nat /\ Cardinality(B1) \in Nat
      /\ Cardinality(B \cup H) \in Nat
    BY <1>4, <1>5, FS_CardinalityType
<1> QED
    BY <1>1, <1>3, <1>4, <1>5, <1>6

\* Entries K that w held are waiting again, and so may be one it had handed on.
LEMMA Drop ==
    ASSUME NEW A, NEW B, IsFiniteSet(A), IsFiniteSet(B),
           NEW w, NEW K, IsFiniteSet(K), {w} \X K \subseteq B, NEW x,
           NEW A1 \in SUBSET (A \cup K \cup {x}), NEW B1 \in SUBSET (B \ ({w} \X K))
    PROVE  Cardinality(A1) + Cardinality(B1) <= Cardinality(A) + Cardinality(B) + 1
<1> DEFINE H == {w} \X K
           U == A \cup K
<1>1. Cardinality(K) \in Nat
    BY FS_CardinalityType
<1>2. IsFiniteSet(H) /\ Cardinality(H) = Cardinality(K)
    BY PairWith
<1>3. H \subseteq B /\ B1 \subseteq B \ H /\ A1 \subseteq U \cup {x}
    OBVIOUS
<1>4. IsFiniteSet(U) /\ Cardinality(U) <= Cardinality(A) + Cardinality(K)
    BY UnionBound
<1> HIDE DEF H, U
<1>5. IsFiniteSet(B \ H) /\ Cardinality(B \ H) = Cardinality(B) - Cardinality(H)
  <2>1. B \cap H = H
      BY <1>3
  <2> QED
      BY <2>1, FS_Difference
<1>6. IsFiniteSet(U \cup {x}) /\ Cardinality(U \cup {x}) <= Cardinality(U) + 1
  <2>1. IsFiniteSet({x}) /\ Cardinality({x}) = 1
      BY FS_Singleton
  <2>2. Cardinality(U \cup {x}) <= Cardinality(U) + Cardinality({x})
      BY <1>4, <2>1, UnionBound
  <2> QED
      BY <1>4, <2>1, <2>2, UnionBound
<1>7. /\ Cardinality(A1) <= Cardinality(U \cup {x}) /\ IsFiniteSet(A1)
      /\ Cardinality(B1) <= Cardinality(B \ H) /\ IsFiniteSet(B1)
    BY <1>3, <1>5, <1>6, FS_Subset
<1>8. /\ Cardinality(A) \in Nat /\ Cardinality(B) \in Nat
      /\ Cardinality(A1) \in Nat /\ Cardinality(B1) \in Nat
      /\ Cardinality(U) \in Nat /\ Cardinality(U \cup {x}) \in Nat
    BY <1>4, <1>6, <1>7, FS_CardinalityType
<1> QED
    BY <1>1, <1>2, <1>4, <1>5, <1>6, <1>7, <1>8

\* The sets that Live counts.
LEMMA LiveFinite ==
    ASSUME NEW Message, q \in StreamOf(Message), LoopAssumption, NEW M, NEW Spent
    PROVE  /\ IsFiniteSet(Waiting(M)) /\ IsFiniteSet(InHand(M, Spent))
           /\ Cardinality(Waiting(M)) \in Nat /\ Cardinality(InHand(M, Spent)) \in Nat
           /\ Live(M, Spent) \in Nat
<1>1. IsFiniteSet(Ids(q)) /\ IsFiniteSet(Workers \X Ids(q))
    BY FiniteIds, FS_Product DEF LoopAssumption
<1>2. Waiting(M) \subseteq Ids(q) /\ InHand(M, Spent) \subseteq Workers \X Ids(q)
    BY DEF Waiting, InHand
<1>3. IsFiniteSet(Waiting(M)) /\ IsFiniteSet(InHand(M, Spent))
    BY <1>1, <1>2, FS_Subset
<1>4. Cardinality(Waiting(M)) \in Nat /\ Cardinality(InHand(M, Spent)) \in Nat
    BY <1>3, FS_CardinalityType
<1> QED
    BY <1>3, <1>4 DEF Live

LEMMA LiveFiniteNext ==
    ASSUME NEW Message, q' \in StreamOf(Message), LoopAssumption, NEW M, NEW Spent
    PROVE  Live(M, Spent)' \in Nat
<1>1. IsFiniteSet(Ids(q')) /\ IsFiniteSet(Workers \X Ids(q'))
    BY FiniteIds, FS_Product DEF LoopAssumption
<1>2. Waiting(M)' \subseteq Ids(q') /\ InHand(M, Spent)' \subseteq Workers \X Ids(q')
    BY DEF Waiting, InHand
<1>3. Cardinality(Waiting(M)') \in Nat /\ Cardinality(InHand(M, Spent)') \in Nat
    BY <1>1, <1>2, FS_Subset, FS_CardinalityType
<1> QED
    BY <1>3 DEF Live

LEMMA LiveShrinks ==
    ASSUME NEW Message, q \in StreamOf(Message), LoopAssumption, NEW M, NEW Spent,
           Waiting(M)' \subseteq Waiting(M), InHand(M, Spent)' \subseteq InHand(M, Spent)
    PROVE  Live(M, Spent)' <= Live(M, Spent)
<1>1. /\ Cardinality(Waiting(M)') <= Cardinality(Waiting(M))
      /\ Cardinality(InHand(M, Spent)') <= Cardinality(InHand(M, Spent))
      /\ IsFiniteSet(Waiting(M)') /\ IsFiniteSet(InHand(M, Spent)')
    BY LiveFinite, FS_Subset
<1>2. /\ Cardinality(Waiting(M)) \in Nat /\ Cardinality(InHand(M, Spent)) \in Nat
      /\ Cardinality(Waiting(M)') \in Nat /\ Cardinality(InHand(M, Spent)') \in Nat
    BY <1>1, LiveFinite, FS_CardinalityType
<1> QED
    BY <1>1, <1>2 DEF Live

\* A batch that a worker takes was waiting, and is waiting no more.
LEMMA TakeLive ==
    ASSUME NEW Message, NEW Labels, {"claim", "read"} \cap Labels = {},
           LoopAssumption, LoopTypeOK(Message, Labels), WorkInv(Labels),
           NEW w \in Workers, pc[w] \in {"claim", "read"},
           NEW ids \in SUBSET Ids(q), NEW next, ProcessBatch(w, ids, next),
           q'.log = q.log,
           \A i \in ids : i > q.last \/ i \in q.idle,
           \A i \in ids : ~(i > q'.last) /\ i \notin q'.idle,
           \A i \in Ids(q) \ ids : /\ i > q'.last => i > q.last
                                   /\ i \in q'.idle => i \in q.idle
                                   /\ i \in q'.pel => i \in q.pel,
           NEW M, NEW Spent
    PROVE  Live(M, Spent)' <= Live(M, Spent)
<1> DEFINE K == {i \in ids : q.log[i] \in M}
<1>1. /\ pc \in [Workers -> {"claim", "read"} \cup Labels]
      /\ batch \in [Workers -> SUBSET Nat]
      /\ cur \in [Workers -> Nat]
      /\ Ids(q') = Ids(q) /\ 0 \notin Ids(q)
      /\ batch[w] = {} /\ cur[w] = 0
    BY DEF LoopTypeOK, WorkInv, Ids
<1>2. /\ \A x \in Workers : x # w => batch'[x] = batch[x] /\ cur'[x] = cur[x] /\ pc'[x] = pc[x]
      /\ ids \subseteq batch'[w] \cup {cur'[w]}
      /\ batch'[w] \cup {cur'[w]} \subseteq ids \cup {0}
    BY <1>1 DEF ProcessBatch, Goto
<1>3. \A i \in ids : Held(i)'
    BY <1>2 DEF Held
<1>4. \A i \in Ids(q) : Held(i) => Held(i)'
    BY <1>1, <1>2 DEF Held
<1>5. K \subseteq Waiting(M)
    BY DEF Waiting
<1>6. Waiting(M)' \subseteq Waiting(M) \ K
    BY <1>1, <1>3, <1>4 DEF Waiting
<1>7. InHand(M, Spent)' \subseteq InHand(M, Spent) \cup ({w} \X K)
  <2> SUFFICES ASSUME NEW x \in Workers, NEW i \in Ids(q), q.log[i] \in M,
                      i \in batch'[x] \/ (i = cur'[x] /\ pc'[x] \notin Spent)
               PROVE  \/ i \in batch[x] \/ (i = cur[x] /\ pc[x] \notin Spent)
                      \/ x = w /\ i \in K
      BY <1>1 DEF InHand
  <2> QED
      BY <1>1, <1>2
<1> HIDE DEF K
<1>8. Cardinality(Waiting(M)') + Cardinality(InHand(M, Spent)')
          <= Cardinality(Waiting(M)) + Cardinality(InHand(M, Spent))
  <2>1. IsFiniteSet(Waiting(M)) /\ IsFiniteSet(InHand(M, Spent))
      BY LiveFinite DEF LoopTypeOK
  <2> QED
      BY <1>5, <1>6, <1>7, <2>1, Grab
<1> QED
    BY <1>8 DEF Live

\* A worker that is lost leaves what it held to others, and may have handed on an
\* entry that another will hand on again.
LEMMA LoseLive ==
    ASSUME NEW Message, NEW Labels,
           LoopAssumption, LoopTypeOK(Message, Labels), WorkInv(Labels),
           NEW w \in Workers, LoseBatch(w), NEW M, NEW Spent
    PROVE  Live(M, Spent)' <= Live(M, Spent) + 1
<1> DEFINE K == {i \in Ids(q) : <<w, i>> \in InHand(M, Spent)}
<1>1. /\ pc \in [Workers -> {"claim", "read"} \cup Labels]
      /\ batch \in [Workers -> SUBSET Nat]
      /\ cur \in [Workers -> Nat]
      /\ 0 \notin Ids(q)
      /\ \A x \in Workers : batch[x] \subseteq Ids(q)
  <2>1. \A x \in Workers : batch[x] \subseteq 1 .. q.last
      BY DEF WorkInv
  <2>2. 1 .. q.last \subseteq Ids(q)
      BY EntryFacts DEF LoopTypeOK
  <2> QED
      BY <2>1, <2>2 DEF LoopTypeOK, Ids
<1>2. /\ q' = q
      /\ \A x \in Workers : x # w => batch'[x] = batch[x] /\ cur'[x] = cur[x] /\ pc'[x] = pc[x]
      /\ batch'[w] = {} /\ cur'[w] = 0
    BY <1>1 DEF LoseBatch, Goto
<1>3. Waiting(M)' \subseteq Waiting(M) \cup K \cup {cur[w]}
  <2> SUFFICES ASSUME NEW i \in Ids(q), q.log[i] \in M, ~Held(i)', Held(i), i # cur[w]
               PROVE  i \in K
      BY <1>2 DEF Waiting
  <2>1. i \in batch[w]
      BY <1>2 DEF Held
  <2> QED
      BY <2>1 DEF InHand
<1>4. InHand(M, Spent)' \subseteq InHand(M, Spent) \ ({w} \X K)
    BY <1>1, <1>2 DEF InHand
<1>5. {w} \X K \subseteq InHand(M, Spent)
    OBVIOUS
<1>6. IsFiniteSet(K)
    BY FiniteIds DEF LoopTypeOK
<1> HIDE DEF K
<1>7. Cardinality(Waiting(M)') + Cardinality(InHand(M, Spent)')
          <= Cardinality(Waiting(M)) + Cardinality(InHand(M, Spent)) + 1
  <2>1. IsFiniteSet(Waiting(M)) /\ IsFiniteSet(InHand(M, Spent))
      BY LiveFinite DEF LoopTypeOK
  <2> QED
      BY <1>3, <1>4, <1>5, <1>6, <2>1, Drop
<1> QED
    BY <1>7 DEF Live

\* Fetching entries pays for nothing; what a fault makes possible, it pays for.
LEMMA LoopLive ==
    ASSUME NEW Message, NEW Labels,
           {"start"} \subseteq Labels, {"claim", "read"} \cap Labels = {},
           LoopAssumption, LoopTypeOK(Message, Labels), WorkInv(Labels),
           NEW w \in Workers, NEW M, NEW Spent,
           LoopStep(w) \/ ClaimError(w) \/ LoseBatch(w)
    PROVE  Live(M, Spent)' <= Live(M, Spent) + faults' - faults
<1>0. /\ q \in StreamOf(Message) /\ q.last \in Nat /\ Len(q.log) \in Nat
      /\ q.pel \subseteq 1 .. q.last /\ q.idle \subseteq q.pel
      /\ 1 .. q.last \subseteq Ids(q)
      /\ faults \in Nat /\ Live(M, Spent) \in Nat
    BY StreamFields, EntryFacts, LiveFinite DEF LoopTypeOK, LoopAssumption
<1>1. q' \in StreamOf(Message) /\ q'.log = q.log
    BY LoopFacts DEF LoopTypeOK
<1>2. Live(M, Spent)' \in Nat
  <2>1. /\ IsFiniteSet(Ids(q')) /\ IsFiniteSet(Workers \X Ids(q'))
      BY <1>1, FiniteIds, FS_Product DEF LoopAssumption
  <2>2. Waiting(M)' \subseteq Ids(q') /\ InHand(M, Spent)' \subseteq Workers \X Ids(q')
      BY DEF Waiting, InHand
  <2> QED
      BY <2>1, <2>2, FS_Subset, FS_CardinalityType DEF Live
<1>3. CASE Claim(w)
  <2> DEFINE ids == Claimable(q, ClaimCount)
  <2>1. /\ pc[w] = "claim" /\ q' = Xautoclaim(q, ClaimCount) /\ faults' = faults
        /\ ProcessBatch(w, ids, "read")
      BY <1>3 DEF Claim
  <2>2. ids \subseteq q.idle
      BY DEF Claimable, Lowest
  <2>3. q'.idle = q.idle \ ids /\ q'.pel = q.pel /\ q'.last = q.last
      BY <1>0, <2>1, StreamFields DEF Xautoclaim, StreamRecord
  <2> HIDE DEF ids
  <2>4. Live(M, Spent)' <= Live(M, Spent)
      BY <1>0, <1>1, <2>1, <2>2, <2>3, TakeLive
  <2> QED
      BY <1>0, <1>2, <2>1, <2>4
<1>4. CASE Read(w)
  <2> DEFINE ids == Undelivered(q, ReadCount)
  <2>1. /\ pc[w] = "read" /\ q' = XreadGroup(q, ReadCount) /\ faults' = faults
        /\ ProcessBatch(w, ids, "claim")
      BY <1>4 DEF Read
  <2>2. ReadCount \in Nat
      BY DEF LoopAssumption
  <2>3. /\ ids \subseteq Ids(q)
        /\ \A i \in ids : i > q.last /\ i \notin q.idle
      BY <1>0 DEF Undelivered
  <2>4. /\ q'.last = IF q.last + ReadCount <= Len(q.log) THEN q.last + ReadCount ELSE Len(q.log)
        /\ q'.pel = q.pel \cup ids /\ q'.idle = q.idle
    <3>1. q \in StreamRecord(Message)
        BY <1>0, StreamFields
    <3> QED
        BY <2>1, <3>1 DEF XreadGroup, StreamRecord
  <2>5. /\ \A i \in ids : ~(i > q'.last)
        /\ \A i \in Ids(q) : i > q'.last => i > q.last
      BY <1>0, <2>2, <2>4, StreamFields DEF Undelivered, Ids
  <2> HIDE DEF ids
  <2>6. Live(M, Spent)' <= Live(M, Spent)
      BY <1>0, <1>1, <2>1, <2>3, <2>4, <2>5, TakeLive
  <2> QED
      BY <1>0, <1>2, <2>1, <2>6
<1>5. CASE ClaimError(w)
  <2>1. /\ pc[w] = "claim" /\ q' \in {q, Xautoclaim(q, ClaimCount)}
        /\ faults' = faults + 1
        /\ pc' = [pc EXCEPT ![w] = "read"] /\ UNCHANGED <<batch, cur>>
      BY <1>5 DEF ClaimError, SpendFault, Goto
  <2>2. q'.idle \subseteq q.idle /\ q'.pel = q.pel /\ q'.last = q.last
      BY <1>0, <2>1, StreamFields DEF Xautoclaim, StreamRecord
  <2>3. Waiting(M)' \subseteq Waiting(M)
      BY <1>1, <2>1, <2>2 DEF Waiting, Ids, Held
  <2>4. InHand(M, Spent)' \subseteq InHand(M, Spent)
    <3>1. /\ batch[w] = {} /\ cur[w] = 0 /\ 0 \notin Ids(q)
          /\ \A x \in Workers : x # w => pc'[x] = pc[x]
        BY <2>1 DEF WorkInv, Ids, LoopTypeOK
    <3>2. Ids(q') = Ids(q)
        BY <1>1 DEF Ids
    <3> QED
        BY <1>1, <2>1, <3>1, <3>2 DEF InHand
  <2>5. Live(M, Spent)' <= Live(M, Spent)
      BY <1>0, <2>3, <2>4, LiveShrinks
  <2> QED
      BY <1>0, <1>2, <2>1, <2>5
<1>6. CASE LoseBatch(w)
  <2>1. faults' = faults + 1
      BY <1>6 DEF LoseBatch, SpendFault
  <2>2. Live(M, Spent)' <= Live(M, Spent) + 1
      BY <1>6, LoseLive
  <2> QED
      BY <1>0, <1>2, <2>1, <2>2
<1> QED
    BY <1>3, <1>4, <1>5, <1>6 DEF LoopStep

LEMMA ClockLive ==
    ASSUME NEW Message, NEW Labels,
           LoopAssumption, LoopTypeOK(Message, Labels), WorkInv(Labels),
           NEW M, NEW Spent, ClockStep
    PROVE  Live(M, Spent)' <= Live(M, Spent) + faults' - faults
<1>0. /\ q \in StreamOf(Message) /\ faults \in Nat
      /\ Live(M, Spent) \in Nat
      /\ IsFiniteSet(Waiting(M)) /\ Cardinality(Waiting(M)) \in Nat
      /\ Cardinality(InHand(M, Spent)) \in Nat
    BY LiveFinite DEF LoopTypeOK, LoopAssumption
<1>1. PICK id \in q.pel :
          /\ q' = GoIdle(q, id)
          /\ UNCHANGED <<pc, batch, cur>>
          /\ (~Held(id) /\ faults' = faults) \/ faults' = faults + 1
    BY DEF ClockStep, OrphanGoesIdle, HeldGoesIdle, SpendFault
<1>2. q'.log = q.log /\ q'.last = q.last /\ q'.pel = q.pel /\ q'.idle = q.idle \cup {id}
    BY <1>0, <1>1, StreamFields DEF GoIdle, StreamRecord
<1>3. InHand(M, Spent)' = InHand(M, Spent)
    BY <1>1, <1>2 DEF InHand, Ids
<1>4. Waiting(M)' \subseteq Waiting(M) \cup {id}
    BY <1>1, <1>2 DEF Waiting, Ids, Held
<1>5. CASE faults' = faults /\ ~Held(id)
  <2>1. Waiting(M)' \subseteq Waiting(M)
      BY <1>1, <1>2, <1>5 DEF Waiting, Ids, Held
  <2>2. Cardinality(Waiting(M)') <= Cardinality(Waiting(M)) /\ Cardinality(Waiting(M)') \in Nat
      BY <1>0, <2>1, FS_Subset, FS_CardinalityType
  <2> QED
      BY <1>0, <1>3, <1>5, <2>2 DEF Live
<1>6. CASE faults' = faults + 1
  <2>1. IsFiniteSet({id}) /\ Cardinality({id}) = 1
      BY FS_Singleton
  <2>2. /\ IsFiniteSet(Waiting(M) \cup {id})
        /\ Cardinality(Waiting(M) \cup {id}) <= Cardinality(Waiting(M)) + Cardinality({id})
      BY <1>0, <2>1, UnionBound
  <2>3. /\ Cardinality(Waiting(M)') <= Cardinality(Waiting(M) \cup {id})
        /\ Cardinality(Waiting(M)') \in Nat /\ Cardinality(Waiting(M) \cup {id}) \in Nat
      BY <1>4, <2>2, FS_Subset, FS_CardinalityType
  <2> QED
      BY <1>0, <1>3, <1>6, <2>1, <2>2, <2>3 DEF Live
<1> QED
    BY <1>1, <1>5, <1>6

\* How a handler's step to label changes what its worker can still hand on.
HandsOn(w, label, M, Spent) ==
    IF pc[w] \notin Spent /\ label \in Spent /\ Msg(w) \in M THEN 1 ELSE 0

TakesBack(w, label, Spent) == IF pc[w] \in Spent /\ label \notin Spent THEN 1 ELSE 0

LEMMA HandFacts ==
    ASSUME NEW Message, NEW Labels,
           LoopAssumption, LoopTypeOK(Message, Labels), WorkInv(Labels),
           NEW w \in Workers, pc[w] \in Labels, NEW label, Goto(w, label),
           UNCHANGED <<batch, cur>>,
           Ids(q) \subseteq Ids(q'), \A i \in Ids(q) : q'.log[i] = q.log[i],
           NEW M, NEW Spent
    PROVE  /\ Cardinality(InHand(M, Spent)') \in Nat
           /\ Cardinality(InHand(M, Spent)') + HandsOn(w, label, M, Spent)
                  <= Cardinality(InHand(M, Spent)) + TakesBack(w, label, Spent)
<1> DEFINE A == InHand(M, Spent)
           B == InHand(M, Spent)'
           it == <<w, cur[w]>>
<1>1. /\ pc'[w] = label
      /\ \A x \in Workers : x # w => pc'[x] = pc[x]
    BY DEF Goto, LoopTypeOK
<1>2. /\ \A x \in Workers : batch[x] \cup {cur[x]} \subseteq Ids(q) \cup {0}
      /\ 0 \notin Ids(q) /\ 0 \notin Ids(q')
      /\ cur[w] \in Ids(q) /\ cur[w] \notin batch[w]
  <2>1. /\ \A x \in Workers : batch[x] \subseteq 1 .. q.last /\ cur[x] \in 0 .. q.last
        /\ cur[w] # 0 /\ cur[w] \notin batch[w]
      BY DEF WorkInv
  <2>2. 1 .. q.last \subseteq Ids(q) /\ q.last \in Nat
      BY StreamFields, EntryFacts DEF LoopTypeOK
  <2> QED
      BY <2>1, <2>2 DEF Ids
<1>3. IsFiniteSet(A) /\ Cardinality(A) \in Nat
    BY LiveFinite DEF LoopTypeOK
<1>4. ASSUME NEW x \in Workers, NEW i \in Ids(q'), x # w \/ i # cur[w], <<x, i>> \in B
      PROVE  <<x, i>> \in A
    BY <1>1, <1>2, <1>4 DEF InHand
<1>5. B \subseteq A \cup {it}
  <2>1. \A b \in B : b = <<b[1], b[2]>> /\ b[1] \in Workers /\ b[2] \in Ids(q')
      BY DEF InHand
  <2> HIDE DEF A, B
  <2> QED
      BY <1>4, <2>1
<1>6. it \in B => q.log[cur[w]] \in M /\ label \notin Spent
    BY <1>1, <1>2 DEF InHand
<1>7. it \in A <=> Msg(w) \in M /\ pc[w] \notin Spent
    BY <1>2 DEF InHand, Msg
<1> HIDE DEF A, B, it
<1>8. CASE it \in A /\ label \in Spent
  <2>1. B \subseteq A \ {it}
      BY <1>5, <1>6, <1>8
  <2>2. IsFiniteSet(A \ {it}) /\ Cardinality(A \ {it}) = Cardinality(A) - 1
      BY <1>3, <1>8, FS_RemoveElement
  <2>3. Cardinality(B) <= Cardinality(A \ {it}) /\ Cardinality(B) \in Nat
      BY <2>1, <2>2, FS_Subset, FS_CardinalityType
  <2> QED
      BY <1>3, <1>7, <1>8, <2>2, <2>3 DEF HandsOn, TakesBack, A, B
<1>9. CASE it \in A /\ label \notin Spent
  <2>1. B \subseteq A
      BY <1>5, <1>9
  <2>2. Cardinality(B) <= Cardinality(A) /\ Cardinality(B) \in Nat
      BY <1>3, <2>1, FS_Subset, FS_CardinalityType
  <2> QED
      BY <1>3, <1>9, <2>2 DEF HandsOn, TakesBack, A, B
<1>10. CASE it \notin A /\ it \in B
  <2>1. pc[w] \in Spent /\ label \notin Spent
      BY <1>6, <1>7, <1>10 DEF Msg
  <2>2. IsFiniteSet(A \cup {it}) /\ Cardinality(A \cup {it}) = Cardinality(A) + 1
      BY <1>3, <1>10, FS_AddElement
  <2>3. Cardinality(B) <= Cardinality(A \cup {it}) /\ Cardinality(B) \in Nat
      BY <1>5, <2>2, FS_Subset, FS_CardinalityType
  <2> QED
      BY <1>3, <2>1, <2>2, <2>3 DEF HandsOn, TakesBack, A, B
<1>11. CASE it \notin A /\ it \notin B
  <2>1. B \subseteq A
      BY <1>5, <1>11
  <2>2. Cardinality(B) <= Cardinality(A) /\ Cardinality(B) \in Nat
      BY <1>3, <2>1, FS_Subset, FS_CardinalityType
  <2>3. HandsOn(w, label, M, Spent) = 0
      BY <1>7, <1>11 DEF HandsOn
  <2> QED
      BY <1>3, <2>2, <2>3 DEF TakesBack, A, B
<1> QED
    BY <1>8, <1>9, <1>10, <1>11

\* A handler's step that adds nothing to its own input stream.
LEMMA HandlerLive ==
    ASSUME NEW Message, NEW Labels,
           LoopAssumption, LoopTypeOK(Message, Labels), WorkInv(Labels),
           NEW w \in Workers, pc[w] \in Labels, NEW label, Goto(w, label),
           UNCHANGED <<batch, cur>>,
           q'.log = q.log, q'.last = q.last, q'.pel \subseteq q.pel, q'.idle \subseteq q.idle,
           NEW M, NEW Spent
    PROVE  Live(M, Spent)' + HandsOn(w, label, M, Spent)
               <= Live(M, Spent) + TakesBack(w, label, Spent)
<1>1. /\ IsFiniteSet(Waiting(M)) /\ Cardinality(Waiting(M)) \in Nat
      /\ Cardinality(InHand(M, Spent)) \in Nat
    BY LiveFinite DEF LoopTypeOK
<1>2. Waiting(M)' \subseteq Waiting(M)
    BY DEF Waiting, Ids, Held
<1>3. Cardinality(Waiting(M)') <= Cardinality(Waiting(M)) /\ Cardinality(Waiting(M)') \in Nat
    BY <1>1, <1>2, FS_Subset, FS_CardinalityType
<1>4. /\ Cardinality(InHand(M, Spent)') \in Nat
      /\ Cardinality(InHand(M, Spent)') + HandsOn(w, label, M, Spent)
             <= Cardinality(InHand(M, Spent)) + TakesBack(w, label, Spent)
    BY HandFacts DEF Ids
<1>5. HandsOn(w, label, M, Spent) \in Nat /\ TakesBack(w, label, Spent) \in Nat
    BY DEF HandsOn, TakesBack
<1> QED
    BY <1>1, <1>3, <1>4, <1>5 DEF Live

\* XADD makes its message one that can be handed on.
LEMMA WaitingXadd ==
    ASSUME NEW Message, q \in StreamOf(Message), LoopAssumption,
           NEW msg \in Message, q' = Xadd(q, msg), UNCHANGED <<batch, cur>>,
           \A x \in Workers : batch[x] \cup {cur[x]} \subseteq 0 .. q.last,
           NEW M
    PROVE  Cardinality(Waiting(M)')
               = Cardinality(Waiting(M)) + (IF msg \in M THEN 1 ELSE 0)
<1> DEFINE new == Len(q.log) + 1
<1>1. /\ q.last \in Nat /\ Len(q.log) \in Nat /\ q.last <= Len(q.log)
      /\ q.pel \subseteq 1 .. q.last /\ q.idle \subseteq q.pel
    BY StreamFields
<1>2. /\ Ids(q') = Ids(q) \cup {new}
      /\ \A i \in Ids(q) : q'.log[i] = q.log[i]
      /\ q'.log[new] = msg /\ q'.last = q.last
    BY XaddFacts
<1>3. q'.pel = q.pel /\ q'.idle = q.idle
    BY StreamFields DEF Xadd, StreamRecord
<1>4. new > q'.last /\ new \notin Ids(q)
    BY <1>1, <1>2 DEF Ids
<1>5. \A i : Held(i)' <=> Held(i)
    BY DEF Held
<1> HIDE DEF new
<1>6. Waiting(M)' = IF msg \in M THEN Waiting(M) \cup {new} ELSE Waiting(M)
    BY <1>2, <1>3, <1>4, <1>5 DEF Waiting
<1>7. new \notin Waiting(M)
    BY <1>4 DEF Waiting
<1>8. IsFiniteSet(Waiting(M)) /\ Cardinality(Waiting(M)) \in Nat
    BY LiveFinite
<1>9. Cardinality(Waiting(M) \cup {new}) = Cardinality(Waiting(M)) + 1
    BY <1>7, <1>8, FS_AddElement
<1> QED
    BY <1>6, <1>8, <1>9

\* A producer's XADD.
LEMMA ArriveLive ==
    ASSUME NEW Message, NEW Labels,
           LoopAssumption, LoopTypeOK(Message, Labels), WorkInv(Labels),
           NEW msg \in Message, q' = Xadd(q, msg), UNCHANGED <<pc, batch, cur>>,
           NEW M, NEW Spent
    PROVE  Live(M, Spent)' = Live(M, Spent) + (IF msg \in M THEN 1 ELSE 0)
<1>1. /\ q.last \in Nat /\ 1 .. q.last \subseteq Ids(q)
      /\ Ids(q) \subseteq Ids(q')
      /\ \A i \in Ids(q) : q'.log[i] = q.log[i]
    BY StreamFields, EntryFacts, XaddFacts DEF LoopTypeOK
<1>2. \A x \in Workers : batch[x] \subseteq 1 .. q.last /\ cur[x] \in 0 .. q.last
    BY DEF WorkInv
<1>3. InHand(M, Spent)' = InHand(M, Spent)
  <2>1. 0 \notin Ids(q')
      BY DEF Ids
  <2>2. \A x \in Workers : batch[x] \subseteq Ids(q) /\ cur[x] \in Ids(q) \cup {0}
      BY <1>1, <1>2
  <2> QED
      BY <1>1, <2>1, <2>2 DEF InHand
<1>4. Cardinality(Waiting(M)') = Cardinality(Waiting(M)) + (IF msg \in M THEN 1 ELSE 0)
  <2>1. \A x \in Workers : batch[x] \cup {cur[x]} \subseteq 0 .. q.last
      BY <1>1, <1>2
  <2> QED
      BY <2>1, WaitingXadd DEF LoopTypeOK
<1>5. Cardinality(Waiting(M)) \in Nat /\ Cardinality(InHand(M, Spent)) \in Nat
    BY LiveFinite DEF LoopTypeOK
<1> QED
    BY <1>3, <1>4, <1>5 DEF Live

\* A handler's XADD to its own input stream.
LEMMA RequeueLive ==
    ASSUME NEW Message, NEW Labels,
           LoopAssumption, LoopTypeOK(Message, Labels), WorkInv(Labels),
           NEW w \in Workers, pc[w] \in Labels, NEW label, Goto(w, label),
           UNCHANGED <<batch, cur>>,
           NEW msg \in Message, q' = Xadd(q, msg),
           NEW M, NEW Spent
    PROVE  Live(M, Spent)' + HandsOn(w, label, M, Spent)
               <= Live(M, Spent) + TakesBack(w, label, Spent) + (IF msg \in M THEN 1 ELSE 0)
<1>1. /\ q.last \in Nat
      /\ Ids(q) \subseteq Ids(q')
      /\ \A i \in Ids(q) : q'.log[i] = q.log[i]
    BY StreamFields, XaddFacts DEF LoopTypeOK
<1>2. \A x \in Workers : batch[x] \cup {cur[x]} \subseteq 0 .. q.last
    BY <1>1 DEF WorkInv
<1>3. Cardinality(Waiting(M)') = Cardinality(Waiting(M)) + (IF msg \in M THEN 1 ELSE 0)
    BY <1>2, WaitingXadd DEF LoopTypeOK
<1>4. /\ Cardinality(InHand(M, Spent)') \in Nat
      /\ Cardinality(InHand(M, Spent)') + HandsOn(w, label, M, Spent)
             <= Cardinality(InHand(M, Spent)) + TakesBack(w, label, Spent)
    BY <1>1, HandFacts
<1>5. Cardinality(Waiting(M)) \in Nat /\ Cardinality(InHand(M, Spent)) \in Nat
    BY LiveFinite DEF LoopTypeOK
<1>6. HandsOn(w, label, M, Spent) \in Nat /\ TakesBack(w, label, Spent) \in Nat
    BY DEF HandsOn, TakesBack
<1> QED
    BY <1>3, <1>4, <1>5, <1>6 DEF Live

\* The end of a handler whose entry is acknowledged.
LEMMA FinishLive ==
    ASSUME NEW Message, NEW Labels,
           LoopAssumption, LoopTypeOK(Message, Labels), WorkInv(Labels),
           NEW w \in Workers, pc[w] \in Labels, Finish(w),
           q'.log = q.log, q'.last = q.last, q'.pel \subseteq q.pel, q'.idle \subseteq q.idle,
           cur[w] \notin q'.pel, q'.idle \subseteq q'.pel,
           NEW M, NEW Spent
    PROVE  Live(M, Spent)' <= Live(M, Spent)
<1>1. /\ \A x \in Workers : x # w => batch'[x] = batch[x] /\ cur'[x] = cur[x] /\ pc'[x] = pc[x]
      /\ batch[w] \subseteq batch'[w] \cup {cur'[w]}
      /\ batch'[w] \cup {cur'[w]} \subseteq batch[w] \cup {0}
    BY DEF Finish, ProcessBatch, Goto, LoopTypeOK
<1>2. Ids(q') = Ids(q) /\ 0 \notin Ids(q) /\ cur[w] <= q.last /\ ~(cur[w] > q.last)
    BY StreamFields DEF Ids, LoopTypeOK, WorkInv
<1>3. \A i \in Ids(q) : Held(i) /\ i # cur[w] => Held(i)'
    BY <1>1, <1>2 DEF Held
<1>4. Waiting(M)' \subseteq Waiting(M)
    BY <1>2, <1>3 DEF Waiting
<1>5. InHand(M, Spent)' \subseteq InHand(M, Spent)
  <2> SUFFICES ASSUME NEW x \in Workers, NEW i \in Ids(q), q.log[i] \in M,
                      i \in batch'[x] \/ (i = cur'[x] /\ pc'[x] \notin Spent)
               PROVE  i \in batch[x] \/ (i = cur[x] /\ pc[x] \notin Spent)
      BY <1>2 DEF InHand
  <2> QED
      BY <1>1, <1>2
<1> QED
    BY <1>4, <1>5, LiveShrinks DEF LoopTypeOK

\* A step of another stage, which can add an entry to the stage's input stream.
LEMMA ElsewhereFacts ==
    ASSUME NEW Message, NEW Labels,
           LoopAssumption, LoopTypeOK(Message, Labels), WorkInv(Labels),
           UNCHANGED <<pc, after, batch, cur>>,
           q' = q \/ \E msg \in Message : q' = Xadd(q, msg),
           faults' \in 0 .. MaxFaults
    PROVE  /\ LoopTypeOK(Message, Labels)' /\ WorkInv(Labels)'
           /\ Ids(q) \subseteq Ids(q') /\ \A i \in Ids(q) : q'.log[i] = q.log[i]
           /\ \A i \in Ids(q) : i \in Unacked(q) <=> i \in Unacked(q')
           /\ \A i \in Ids(q') : i \in Ids(q) \/ i \in Unacked(q')
<1> DEFINE Grown ==
               /\ q' \in StreamOf(Message) /\ q'.last = q.last
               /\ Ids(q) \subseteq Ids(q') /\ \A i \in Ids(q) : q'.log[i] = q.log[i]
               /\ \A i \in Ids(q) : i \in Unacked(q) <=> i \in Unacked(q')
               /\ \A i \in Ids(q') : i \in Ids(q) \/ i \in Unacked(q')
<1>1. q \in StreamOf(Message)
    BY DEF LoopTypeOK
<1>2. CASE q' = q
  <2>1. Grown
      BY <1>1, <1>2
  <2> QED
      BY <2>1 DEF LoopTypeOK, WorkInv
<1>3. ASSUME NEW msg \in Message, q' = Xadd(q, msg) PROVE Grown
  <2>1. Len(q.log) + 1 \notin Ids(q)
      BY <1>1, StreamFields DEF Ids
  <2> QED
      BY <1>1, <1>3, <2>1, XaddFacts
<1>4. CASE \E msg \in Message : q' = Xadd(q, msg)
  <2>1. Grown
      BY <1>3, <1>4
  <2> QED
      BY <2>1 DEF LoopTypeOK, WorkInv
<1> QED
    BY <1>2, <1>4

\* ... and what is added to it can be handed on once more.
LEMMA ElsewhereLive ==
    ASSUME NEW Message, NEW Labels,
           LoopAssumption, LoopTypeOK(Message, Labels), WorkInv(Labels),
           UNCHANGED <<pc, batch, cur>>, NEW M, NEW Spent
    PROVE  /\ q' = q => Live(M, Spent)' = Live(M, Spent)
           /\ \A msg \in Message : q' = Xadd(q, msg) =>
                  Live(M, Spent)' = Live(M, Spent) + (IF msg \in M THEN 1 ELSE 0)
<1>1. q' = q => Live(M, Spent)' = Live(M, Spent)
    BY DEF Live, Waiting, InHand, Ids, Held
<1> QED
    BY <1>1, ArriveLive

\* Nothing comes of a stream that is empty.
LEMMA EmptyLive ==
    ASSUME q = EmptyStream, NEW M, NEW Spent
    PROVE  Live(M, Spent) = 0
<1>1. Ids(q) = {}
    BY EmptyStreamFacts
<1>2. Waiting(M) = {} /\ InHand(M, Spent) = {}
    BY <1>1 DEF Waiting, InHand
<1> QED
    BY <1>2, FS_EmptySet DEF Live

-----------------------------------------------------------------------------
(* The dead letters of a job.                                              *)

LEMMA LettersFinite ==
    ASSUME NEW Job, NEW D \in SUBSET [job : Job, reason : Reasons], NEW j
    PROVE  /\ IsFiniteSet({d \in D : d.job = j})
           /\ Cardinality({d \in D : d.job = j}) \in Nat
<1> DEFINE letter(r) == [job |-> j, reason |-> r]
           S1 == {letter("circuit_open")}
           S2 == S1 \cup {letter("failed")}
           S3 == S2 \cup {letter("validation_failed")}
           S4 == S3 \cup {letter("db_error")}
<1>1. IsFiniteSet(S1) /\ IsFiniteSet(S2) /\ IsFiniteSet(S3) /\ IsFiniteSet(S4)
  <2>1. IsFiniteSet(S1)
      BY FS_Singleton
  <2> HIDE DEF S1
  <2>2. IsFiniteSet(S2)
      BY <2>1, FS_AddElement
  <2> HIDE DEF S2
  <2>3. IsFiniteSet(S3)
      BY <2>2, FS_AddElement
  <2> HIDE DEF S3
  <2> QED
      BY <2>1, <2>2, <2>3, FS_AddElement
<1>2. {d \in D : d.job = j} \subseteq S4
    BY DEF Reasons
<1> QED
    BY <1>1, <1>2, FS_Subset, FS_CardinalityType

\* move_to_dead_letters.
LEMMA LettersBury ==
    ASSUME NEW Job, NEW D \in SUBSET [job : Job, reason : Reasons], NEW j,
           NEW k, NEW r
    PROVE  Cardinality({d \in D \cup {[job |-> k, reason |-> r]} : d.job = j})
               <= Cardinality({d \in D : d.job = j}) + (IF k = j THEN 1 ELSE 0)
<1> DEFINE letter == [job |-> k, reason |-> r]
           S == {d \in D : d.job = j}
           T == {d \in D \cup {letter} : d.job = j}
<1>1. IsFiniteSet(S) /\ Cardinality(S) \in Nat
    BY LettersFinite
<1>2. T = IF k = j THEN S \cup {letter} ELSE S
    OBVIOUS
<1> HIDE DEF S, T, letter
<1>3. Cardinality(S \cup {letter}) <= Cardinality(S) + 1
  <2>1. Cardinality(S \cup {letter})
            = IF letter \in S THEN Cardinality(S) ELSE Cardinality(S) + 1
      BY <1>1, FS_AddElement
  <2> QED
      BY <1>1, <2>1
<1>4. Cardinality(T) <= Cardinality(S) + (IF k = j THEN 1 ELSE 0)
    BY <1>1, <1>2, <1>3
<1> QED
    BY <1>4 DEF S, T, letter

-----------------------------------------------------------------------------
(* The jobs whose messages can still be handed on.                         *)

LiveJobs(M, Spent) ==
    {q.log[i].job : i \in Waiting(M)} \cup {q.log[a[2]].job : a \in InHand(M, Spent)}

\* They are no more than the messages.
LEMMA LiveJobsBound ==
    ASSUME NEW Message, q \in StreamOf(Message), LoopAssumption, NEW M, NEW Spent
    PROVE  /\ IsFiniteSet(LiveJobs(M, Spent))
           /\ Cardinality(LiveJobs(M, Spent)) \in Nat
           /\ Cardinality(LiveJobs(M, Spent)) <= Live(M, Spent)
<1> DEFINE A == Waiting(M)
           B == InHand(M, Spent)
           f == [i \in A |-> q.log[i].job]
           g == [a \in B |-> q.log[a[2]].job]
           S == {q.log[i].job : i \in A}
           T == {q.log[a[2]].job : a \in B}
<1>1. /\ IsFiniteSet(A) /\ IsFiniteSet(B)
      /\ Cardinality(A) \in Nat /\ Cardinality(B) \in Nat
      /\ Live(M, Spent) = Cardinality(A) + Cardinality(B)
    BY LiveFinite DEF Live
<1> HIDE DEF A, B
<1>2. f \in Surjection(A, S) /\ g \in Surjection(B, T)
    BY DEF Surjection
<1>3. /\ IsFiniteSet(S) /\ Cardinality(S) <= Cardinality(A)
      /\ IsFiniteSet(T) /\ Cardinality(T) <= Cardinality(B)
    BY <1>1, <1>2, FS_Surjection
<1>4. LiveJobs(M, Spent) = S \cup T
    BY DEF LiveJobs, A, B
<1> HIDE DEF S, T, f, g
<1>5. IsFiniteSet(S \cup T) /\ Cardinality(S \cup T) <= Cardinality(S) + Cardinality(T)
    BY <1>3, UnionBound
<1>6. Cardinality(S) \in Nat /\ Cardinality(T) \in Nat /\ Cardinality(S \cup T) \in Nat
    BY <1>3, <1>5, FS_CardinalityType
<1> QED
    BY <1>1, <1>3, <1>4, <1>5, <1>6

\* A job is one of them when a message of it can still be handed on.
LEMMA LiveJobsHave ==
    ASSUME NEW M, NEW N \in SUBSET M, NEW j, \A msg \in N : msg.job = j, NEW Spent,
           Live(N, Spent) # 0
    PROVE  j \in LiveJobs(M, Spent)
<1>1. CASE Waiting(N) = {} /\ InHand(N, Spent) = {}
  <2>1. Cardinality(Waiting(N)) = 0 /\ Cardinality(InHand(N, Spent)) = 0
      BY <1>1, FS_EmptySet
  <2> QED
      BY <2>1 DEF Live
<1>2. ASSUME NEW i \in Waiting(N) PROVE i \in Waiting(M) /\ q.log[i].job = j
    BY <1>2 DEF Waiting
<1>3. ASSUME NEW a \in InHand(N, Spent) PROVE a \in InHand(M, Spent) /\ q.log[a[2]].job = j
    BY <1>3 DEF InHand
<1> QED
    BY <1>1, <1>2, <1>3 DEF LiveJobs

=============================================================================
