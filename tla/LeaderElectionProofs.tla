-------------------------- MODULE LeaderElectionProofs --------------------------
(***************************************************************************)
(* Safety of the election for every number of coordinators, every TTL and  *)
(* interval, and any amount of lost time and crashes.  IndInv of           *)
(* LeaderElection is inductive; the bounds on how two coordinators can     *)
(* lead at once follow from it.                                            *)
(***************************************************************************)
EXTENDS LeaderElection, TLAPS

\* What arithmetic needs to know of the time that is left.
LEMMA TimeTypes ==
    ASSUME TypeOK, NEW c \in Coordinators
    PROVE  /\ ttl \in Int /\ 0 <= ttl /\ ttl <= LEADER_TTL
           /\ timer[c] \in Int /\ 0 <= timer[c] /\ timer[c] <= ELECTION_INTERVAL
           /\ waiting[c] \in Int /\ 0 <= waiting[c]
           /\ since[c] \in Int /\ 0 <= since[c] /\ since[c] <= LEADER_TTL
           /\ lost \in Int /\ 0 <= lost /\ lost <= MaxLost
           /\ crashes \in Int /\ 0 <= crashes
           /\ LEADER_TTL \in Int /\ ELECTION_INTERVAL \in Int /\ MaxLost \in Int
           /\ 0 < ELECTION_INTERVAL /\ ELECTION_INTERVAL < LEADER_TTL
BY ElectionAssumption DEF TypeOK

\* The initial state satisfies the invariant.
LEMMA InitIndInv == Init => IndInv
<1> SUFFICES ASSUME Init PROVE IndInv
    OBVIOUS
<1>1. TypeOK
    BY ElectionAssumption DEF Init, TypeOK
<1>2. ASSUME NEW c \in Coordinators
      PROVE  KeyInv(c) /\ FreshInv(c) /\ LeaseInv(c) /\ LapseInv(c) /\ GapInv(c)
    BY <1>2, ElectionAssumption, NoneAssumption
    DEF Init, KeyInv, FreshInv, LeaseInv, LapseInv, GapInv, Leads, Running
<1> QED
    BY <1>1, <1>2 DEF IndInv

-----------------------------------------------------------------------------
(* How each part of the invariant is preserved, action by action.          *)

\* Every action keeps the types.
LEMMA StepTypeOK ==
    ASSUME IndInv, [Next]_vars
    PROVE  TypeOK'
<1> USE ElectionAssumption, NoneAssumption DEF IndInv
<1>1. ASSUME NEW c \in Coordinators, SetNx(c)
      PROVE  TypeOK'
  <2>1. CASE owner = None
    <3>1. /\ isLeader' = [isLeader EXCEPT ![c] = TRUE]
          /\ pc' = [pc EXCEPT ![c] = "set"]
          /\ timer' = [timer EXCEPT ![c] = ELECTION_INTERVAL]
          /\ waiting' = [d \in Coordinators |-> 0]
          /\ owner' = c /\ ttl' = LEADER_TTL
          /\ since' = [since EXCEPT ![c] = 0]
          /\ UNCHANGED <<busy, lost, crashes>>
      BY <1>1, <2>1 DEF SetNx, TakeKey, EndRound
    <3>2. /\ isLeader' \in [Coordinators -> BOOLEAN]
          /\ pc' \in [Coordinators -> {"down", "set", "get", "expire", "release"}]
          /\ timer' \in [Coordinators -> 0 .. ELECTION_INTERVAL]
          /\ since' \in [Coordinators -> 0 .. LEADER_TTL]
          /\ waiting' \in [Coordinators -> Nat]
      BY <3>1 DEF TypeOK
    <3> QED
      BY <3>1, <3>2 DEF TypeOK
  <2>2. CASE owner # None
    BY <1>1, <2>2 DEF SetNx, TypeOK
  <2> QED
    BY <2>1, <2>2
<1>2. ASSUME NEW c \in Coordinators, Get(c)
      PROVE  TypeOK'
  <2>1. CASE owner = c
    BY <1>2, <2>1 DEF Get, TypeOK
  <2>2. CASE owner # c
    <3>1. /\ isLeader' = [isLeader EXCEPT ![c] = FALSE]
          /\ pc' = [pc EXCEPT ![c] = "set"]
          /\ timer' = [timer EXCEPT ![c] = ELECTION_INTERVAL]
          /\ waiting' = [d \in Coordinators |-> waiting[d]]
      BY <1>2, <2>2 DEF Get, EndRound
    <3>2. /\ isLeader' \in [Coordinators -> BOOLEAN]
          /\ pc' \in [Coordinators -> {"down", "set", "get", "expire", "release"}]
          /\ timer' \in [Coordinators -> 0 .. ELECTION_INTERVAL]
          /\ waiting' \in [Coordinators -> Nat]
      BY <3>1 DEF TypeOK
    <3> QED
      BY <1>2, <3>2 DEF Get, TypeOK
  <2> QED
    BY <2>1, <2>2
<1>3. ASSUME NEW c \in Coordinators, Expire(c)
      PROVE  TypeOK'
    BY <1>3
    DEF Expire, RenewKey, EndRound, TypeOK, Running
<1>4. ASSUME NEW c \in Coordinators, RoundFails(c)
      PROVE  TypeOK'
    BY <1>4
    DEF RoundFails, Due, TakeKey, RenewKey, EndRound, TypeOK, Running
<1>5. ASSUME NEW c \in Coordinators, BeginWork(c)
      PROVE  TypeOK'
    BY <1>5
    DEF BeginWork, TypeOK, Running
<1>6. ASSUME NEW c \in Coordinators, EndWork(c)
      PROVE  TypeOK'
    BY <1>6
    DEF EndWork, TypeOK, Running
<1>7. ASSUME NEW c \in Coordinators, Start(c)
      PROVE  TypeOK'
    BY <1>7
    DEF Start, TypeOK, Running
<1>8. ASSUME NEW c \in Coordinators, Stop(c)
      PROVE  TypeOK'
    BY <1>8
    DEF Stop, TypeOK, Running
<1>9. ASSUME NEW c \in Coordinators, Release(c)
      PROVE  TypeOK'
    BY <1>9
    DEF Release, Down, TypeOK, Running
<1>10. ASSUME NEW c \in Coordinators, Crash(c)
      PROVE  TypeOK'
    BY <1>10
    DEF Crash, Down, TypeOK, Running
<1>11. CASE Tick
    BY <1>11 DEF Tick, Due, TypeOK, Running
<1>12. CASE UNCHANGED vars
    BY <1>12 DEF vars, loopVars, TypeOK, Running
<1> QED
    BY <1>1, <1>2, <1>3, <1>4, <1>5, <1>6, <1>7, <1>8, <1>9, <1>10, <1>11, <1>12
    DEF Next, Round, Work, Life

\* Only a command that gives a TTL takes or renews the key; only time, or the
\* release by its owner, removes it.
LEMMA StepKeyInv ==
    ASSUME IndInv, [Next]_vars, NEW d \in Coordinators
    PROVE  KeyInv(d)'
<1> USE TimeTypes, ElectionAssumption, NoneAssumption DEF IndInv
<1>1. ASSUME NEW c \in Coordinators, SetNx(c)
      PROVE  KeyInv(d)'
    BY <1>1
    DEF SetNx, TakeKey, EndRound, KeyInv, TypeOK, Running
<1>2. ASSUME NEW c \in Coordinators, Get(c)
      PROVE  KeyInv(d)'
    BY <1>2
    DEF Get, EndRound, KeyInv, TypeOK, Running
<1>3. ASSUME NEW c \in Coordinators, Expire(c)
      PROVE  KeyInv(d)'
    BY <1>3
    DEF Expire, RenewKey, EndRound, KeyInv, TypeOK, Running
<1>4. ASSUME NEW c \in Coordinators, RoundFails(c)
      PROVE  KeyInv(d)'
    BY <1>4
    DEF RoundFails, Due, TakeKey, RenewKey, EndRound, KeyInv, TypeOK, Running
<1>5. ASSUME NEW c \in Coordinators, BeginWork(c)
      PROVE  KeyInv(d)'
    BY <1>5
    DEF BeginWork, KeyInv, TypeOK, Running
<1>6. ASSUME NEW c \in Coordinators, EndWork(c)
      PROVE  KeyInv(d)'
    BY <1>6
    DEF EndWork, KeyInv, TypeOK, Running
<1>7. ASSUME NEW c \in Coordinators, Start(c)
      PROVE  KeyInv(d)'
    BY <1>7
    DEF Start, KeyInv, TypeOK, Running
<1>8. ASSUME NEW c \in Coordinators, Stop(c)
      PROVE  KeyInv(d)'
    BY <1>8
    DEF Stop, KeyInv, TypeOK, Running
<1>9. ASSUME NEW c \in Coordinators, Release(c)
      PROVE  KeyInv(d)'
    BY <1>9
    DEF Release, Down, KeyInv, TypeOK, Running
<1>10. ASSUME NEW c \in Coordinators, Crash(c)
      PROVE  KeyInv(d)'
    BY <1>10
    DEF Crash, Down, KeyInv, TypeOK, Running
<1>11. CASE Tick
    BY <1>11 DEF Tick, Due, KeyInv, TypeOK, Running
<1>12. CASE UNCHANGED vars
    BY <1>12 DEF vars, loopVars, KeyInv, TypeOK, Running
<1> QED
    BY <1>1, <1>2, <1>3, <1>4, <1>5, <1>6, <1>7, <1>8, <1>9, <1>10, <1>11, <1>12
    DEF Next, Round, Work, Life

\* Taking and seeing the key is owning it, until the time is up.
LEMMA StepFreshInv ==
    ASSUME IndInv, [Next]_vars, NEW d \in Coordinators
    PROVE  FreshInv(d)'
<1> USE TimeTypes, ElectionAssumption, NoneAssumption DEF IndInv
<1>1. ASSUME NEW c \in Coordinators, SetNx(c)
      PROVE  FreshInv(d)'
    BY <1>1
    DEF SetNx, TakeKey, EndRound, FreshInv, KeyInv, LapseInv, Leads, Running, TypeOK
<1>2. ASSUME NEW c \in Coordinators, Get(c)
      PROVE  FreshInv(d)'
    BY <1>2
    DEF Get, EndRound, FreshInv, KeyInv, LapseInv, Leads, Running, TypeOK
<1>3. ASSUME NEW c \in Coordinators, Expire(c)
      PROVE  FreshInv(d)'
    BY <1>3
    DEF Expire, RenewKey, EndRound, FreshInv, KeyInv, LapseInv, Leads, Running, TypeOK
<1>4. ASSUME NEW c \in Coordinators, RoundFails(c)
      PROVE  FreshInv(d)'
    BY <1>4
    DEF RoundFails, Due, TakeKey, RenewKey, EndRound, FreshInv, KeyInv, LapseInv, Leads, Running, TypeOK
<1>5. ASSUME NEW c \in Coordinators, BeginWork(c)
      PROVE  FreshInv(d)'
    BY <1>5
    DEF BeginWork, FreshInv, KeyInv, LapseInv, Leads, Running, TypeOK
<1>6. ASSUME NEW c \in Coordinators, EndWork(c)
      PROVE  FreshInv(d)'
    BY <1>6
    DEF EndWork, FreshInv, KeyInv, LapseInv, Leads, Running, TypeOK
<1>7. ASSUME NEW c \in Coordinators, Start(c)
      PROVE  FreshInv(d)'
    BY <1>7
    DEF Start, FreshInv, KeyInv, LapseInv, Leads, Running, TypeOK
<1>8. ASSUME NEW c \in Coordinators, Stop(c)
      PROVE  FreshInv(d)'
    BY <1>8
    DEF Stop, FreshInv, KeyInv, LapseInv, Leads, Running, TypeOK
<1>9. ASSUME NEW c \in Coordinators, Release(c)
      PROVE  FreshInv(d)'
    BY <1>9
    DEF Release, Down, FreshInv, KeyInv, LapseInv, Leads, Running, TypeOK
<1>10. ASSUME NEW c \in Coordinators, Crash(c)
      PROVE  FreshInv(d)'
    BY <1>10
    DEF Crash, Down, FreshInv, KeyInv, LapseInv, Leads, Running, TypeOK
<1>11. CASE Tick
    BY <1>11 DEF Tick, Due, FreshInv, KeyInv, LapseInv, Leads, Running, TypeOK
<1>12. CASE UNCHANGED vars
    BY <1>12 DEF vars, loopVars, FreshInv, KeyInv, LapseInv, Leads, Running, TypeOK
<1> QED
    BY <1>1, <1>2, <1>3, <1>4, <1>5, <1>6, <1>7, <1>8, <1>9, <1>10, <1>11, <1>12
    DEF Next, Round, Work, Life

\* A round renews the lease before the loop sleeps; failing and being late adds
\* to the time lost.
LEMMA StepLeaseInv ==
    ASSUME IndInv, [Next]_vars, NEW d \in Coordinators
    PROVE  LeaseInv(d)'
<1> USE TimeTypes, ElectionAssumption, NoneAssumption DEF IndInv
<1>1. ASSUME NEW c \in Coordinators, SetNx(c)
      PROVE  LeaseInv(d)'
    BY <1>1
    DEF SetNx, TakeKey, EndRound, LeaseInv, KeyInv, LapseInv, Running, TypeOK
<1>2. ASSUME NEW c \in Coordinators, Get(c)
      PROVE  LeaseInv(d)'
    BY <1>2
    DEF Get, EndRound, LeaseInv, KeyInv, LapseInv, Running, TypeOK
<1>3. ASSUME NEW c \in Coordinators, Expire(c)
      PROVE  LeaseInv(d)'
    BY <1>3
    DEF Expire, RenewKey, EndRound, LeaseInv, KeyInv, LapseInv, Running, TypeOK
<1>4. ASSUME NEW c \in Coordinators, RoundFails(c)
      PROVE  LeaseInv(d)'
    BY <1>4
    DEF RoundFails, Due, TakeKey, RenewKey, EndRound, LeaseInv, KeyInv, LapseInv, Running, TypeOK
<1>5. ASSUME NEW c \in Coordinators, BeginWork(c)
      PROVE  LeaseInv(d)'
    BY <1>5
    DEF BeginWork, LeaseInv, KeyInv, LapseInv, Running, TypeOK
<1>6. ASSUME NEW c \in Coordinators, EndWork(c)
      PROVE  LeaseInv(d)'
    BY <1>6
    DEF EndWork, LeaseInv, KeyInv, LapseInv, Running, TypeOK
<1>7. ASSUME NEW c \in Coordinators, Start(c)
      PROVE  LeaseInv(d)'
    BY <1>7
    DEF Start, LeaseInv, KeyInv, LapseInv, Running, TypeOK
<1>8. ASSUME NEW c \in Coordinators, Stop(c)
      PROVE  LeaseInv(d)'
    BY <1>8
    DEF Stop, LeaseInv, KeyInv, LapseInv, Running, TypeOK
<1>9. ASSUME NEW c \in Coordinators, Release(c)
      PROVE  LeaseInv(d)'
    BY <1>9
    DEF Release, Down, LeaseInv, KeyInv, LapseInv, Running, TypeOK
<1>10. ASSUME NEW c \in Coordinators, Crash(c)
      PROVE  LeaseInv(d)'
    BY <1>10
    DEF Crash, Down, LeaseInv, KeyInv, LapseInv, Running, TypeOK
<1>11. CASE Tick
    BY <1>11 DEF Tick, Due, LeaseInv, KeyInv, LapseInv, Running, TypeOK
<1>12. CASE UNCHANGED vars
    BY <1>12 DEF vars, loopVars, LeaseInv, KeyInv, LapseInv, Running, TypeOK
<1> QED
    BY <1>1, <1>2, <1>3, <1>4, <1>5, <1>6, <1>7, <1>8, <1>9, <1>10, <1>11, <1>12
    DEF Next, Round, Work, Life

\* A key that runs out has used up the lease, and so the time lost.
LEMMA StepLapseInv ==
    ASSUME IndInv, [Next]_vars, NEW d \in Coordinators
    PROVE  LapseInv(d)'
<1> USE TimeTypes, ElectionAssumption, NoneAssumption DEF IndInv
<1>1. ASSUME NEW c \in Coordinators, SetNx(c)
      PROVE  LapseInv(d)'
    BY <1>1
    DEF SetNx, TakeKey, EndRound, LapseInv, LeaseInv, KeyInv, MayOverlap, Outlived, Leads, Running, TypeOK
<1>2. ASSUME NEW c \in Coordinators, Get(c)
      PROVE  LapseInv(d)'
    BY <1>2
    DEF Get, EndRound, LapseInv, LeaseInv, KeyInv, MayOverlap, Outlived, Leads, Running, TypeOK
<1>3. ASSUME NEW c \in Coordinators, Expire(c)
      PROVE  LapseInv(d)'
    BY <1>3
    DEF Expire, RenewKey, EndRound, LapseInv, LeaseInv, KeyInv, MayOverlap, Outlived, Leads, Running, TypeOK
<1>4. ASSUME NEW c \in Coordinators, RoundFails(c)
      PROVE  LapseInv(d)'
    BY <1>4
    DEF RoundFails, Due, TakeKey, RenewKey, EndRound, LapseInv, LeaseInv, KeyInv, MayOverlap, Outlived, Leads, Running, TypeOK
<1>5. ASSUME NEW c \in Coordinators, BeginWork(c)
      PROVE  LapseInv(d)'
    BY <1>5
    DEF BeginWork, LapseInv, LeaseInv, KeyInv, MayOverlap, Outlived, Leads, Running, TypeOK
<1>6. ASSUME NEW c \in Coordinators, EndWork(c)
      PROVE  LapseInv(d)'
    BY <1>6
    DEF EndWork, LapseInv, LeaseInv, KeyInv, MayOverlap, Outlived, Leads, Running, TypeOK
<1>7. ASSUME NEW c \in Coordinators, Start(c)
      PROVE  LapseInv(d)'
    BY <1>7
    DEF Start, LapseInv, LeaseInv, KeyInv, MayOverlap, Outlived, Leads, Running, TypeOK
<1>8. ASSUME NEW c \in Coordinators, Stop(c)
      PROVE  LapseInv(d)'
    BY <1>8
    DEF Stop, LapseInv, LeaseInv, KeyInv, MayOverlap, Outlived, Leads, Running, TypeOK
<1>9. ASSUME NEW c \in Coordinators, Release(c)
      PROVE  LapseInv(d)'
    BY <1>9
    DEF Release, Down, LapseInv, LeaseInv, KeyInv, MayOverlap, Outlived, Leads, Running, TypeOK
<1>10. ASSUME NEW c \in Coordinators, Crash(c)
      PROVE  LapseInv(d)'
    BY <1>10
    DEF Crash, Down, LapseInv, LeaseInv, KeyInv, MayOverlap, Outlived, Leads, Running, TypeOK
<1>11. CASE Tick
    BY <1>11 DEF Tick, Due, LapseInv, LeaseInv, KeyInv, MayOverlap, Outlived, Leads, Running, TypeOK
<1>12. CASE UNCHANGED vars
    BY <1>12 DEF vars, loopVars, LapseInv, LeaseInv, KeyInv, MayOverlap, Outlived, Leads, Running, TypeOK
<1> QED
    BY <1>1, <1>2, <1>3, <1>4, <1>5, <1>6, <1>7, <1>8, <1>9, <1>10, <1>11, <1>12
    DEF Next, Round, Work, Life

\* While nobody leads, waiting grows only as the key, or then the sleep, runs out.
LEMMA StepGapInv ==
    ASSUME IndInv, [Next]_vars, NEW d \in Coordinators
    PROVE  GapInv(d)'
<1> USE TimeTypes, ElectionAssumption, NoneAssumption DEF IndInv
<1>1. ASSUME NEW c \in Coordinators, SetNx(c)
      PROVE  GapInv(d)'
    BY <1>1
    DEF SetNx, TakeKey, EndRound, GapInv, KeyInv, LapseInv, Leads, Running, TypeOK
<1>2. ASSUME NEW c \in Coordinators, Get(c)
      PROVE  GapInv(d)'
    BY <1>2
    DEF Get, EndRound, GapInv, KeyInv, LapseInv, Leads, Running, TypeOK
<1>3. ASSUME NEW c \in Coordinators, Expire(c)
      PROVE  GapInv(d)'
    BY <1>3
    DEF Expire, RenewKey, EndRound, GapInv, KeyInv, LapseInv, Leads, Running, TypeOK
<1>4. ASSUME NEW c \in Coordinators, RoundFails(c)
      PROVE  GapInv(d)'
    BY <1>4
    DEF RoundFails, Due, TakeKey, RenewKey, EndRound, GapInv, KeyInv, LapseInv, Leads, Running, TypeOK
<1>5. ASSUME NEW c \in Coordinators, BeginWork(c)
      PROVE  GapInv(d)'
    BY <1>5
    DEF BeginWork, GapInv, KeyInv, LapseInv, Leads, Running, TypeOK
<1>6. ASSUME NEW c \in Coordinators, EndWork(c)
      PROVE  GapInv(d)'
    BY <1>6
    DEF EndWork, GapInv, KeyInv, LapseInv, Leads, Running, TypeOK
<1>7. ASSUME NEW c \in Coordinators, Start(c)
      PROVE  GapInv(d)'
    BY <1>7
    DEF Start, GapInv, KeyInv, LapseInv, Leads, Running, TypeOK
<1>8. ASSUME NEW c \in Coordinators, Stop(c)
      PROVE  GapInv(d)'
    BY <1>8
    DEF Stop, GapInv, KeyInv, LapseInv, Leads, Running, TypeOK
<1>9. ASSUME NEW c \in Coordinators, Release(c)
      PROVE  GapInv(d)'
    BY <1>9
    DEF Release, Down, GapInv, KeyInv, LapseInv, Leads, Running, TypeOK
<1>10. ASSUME NEW c \in Coordinators, Crash(c)
      PROVE  GapInv(d)'
    BY <1>10
    DEF Crash, Down, GapInv, KeyInv, LapseInv, Leads, Running, TypeOK
<1>11. CASE Tick
    BY <1>11 DEF Tick, Due, GapInv, KeyInv, LapseInv, Leads, Running, TypeOK
<1>12. CASE UNCHANGED vars
    BY <1>12 DEF vars, loopVars, GapInv, KeyInv, LapseInv, Leads, Running, TypeOK
<1> QED
    BY <1>1, <1>2, <1>3, <1>4, <1>5, <1>6, <1>7, <1>8, <1>9, <1>10, <1>11, <1>12
    DEF Next, Round, Work, Life

-----------------------------------------------------------------------------
(* The theorems.                                                           *)

\* What coordinators believe fits what is left of the key, always.
THEOREM Invariance == Spec => []IndInv
<1>1. IndInv /\ [Next]_vars => IndInv'
    BY StepTypeOK, StepKeyInv, StepFreshInv, StepLeaseInv, StepLapseInv,
       StepGapInv DEF IndInv
<1> QED
    BY InitIndInv, <1>1, PTL DEF Spec

\* Type correctness of the election.
THEOREM TypeCorrect == Spec => []TypeOK
<1>1. IndInv => TypeOK
    BY DEF IndInv
<1> QED
    BY Invariance, <1>1, PTL

\* Whoever leads and was renewed less than a TTL ago owns the key.
THEOREM FreshLeadersOwn == Spec => []FreshLeaderOwnsKey
<1>1. IndInv => FreshLeaderOwnsKey
    BY DEF IndInv, FreshInv, FreshLeaderOwnsKey
<1> QED
    BY Invariance, <1>1, PTL

\* Two coordinators lead at once only after enough lost time.
THEOREM OverlapIsPaidFor == Spec => []OverlapNeedsLostTime
<1>1. IndInv => OverlapNeedsLostTime
    BY DEF IndInv, LapseInv, MayOverlap, OverlapNeedsLostTime
<1> QED
    BY Invariance, <1>1, PTL

\* A running coordinator takes over from a dead leader within TTL and interval.
THEOREM GapsAreShort == Spec => []GapIsBounded
<1>1. IndInv => GapIsBounded
    BY TimeTypes, ElectionAssumption DEF IndInv, GapInv, GapIsBounded
<1> QED
    BY Invariance, <1>1, PTL

=============================================================================
