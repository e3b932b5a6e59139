----------------------------- MODULE MissionsProofs -----------------------------
(***************************************************************************)
(* Safety of a mission's row for every number of missions, targets, cancel *)
(* requests, coordinators and faults.  IndInv of Missions is inductive;    *)
(* that ended missions are finished, and that only races overwrite a final *)
(* status, follow from it.                                                 *)
(***************************************************************************)
EXTENDS Missions, TLAPS

\* What arithmetic needs to know of a mission's counts.
LEMMA CountTypes ==
    ASSUME TypeOK, NEW m \in Missions
    PROVE  /\ done[m] \in Nat /\ failed[m] \in Nat /\ queued[m] \in Nat
           /\ inFlight[m] \in Nat /\ faults \in Nat
           /\ Total[m] \in Nat /\ Total[m] > 0
BY MissionsAssumption DEF TypeOK

\* The initial state satisfies the invariant.
LEMMA InitIndInv == Init => IndInv
<1> SUFFICES ASSUME Init PROVE IndInv
    OBVIOUS
<1>1. TypeOK
    BY MissionsAssumption DEF Init, TypeOK, Statuses, CancelStates, Update
<1>2. ASSUME NEW m \in Missions
      PROVE  CreateInv(m) /\ CountInv(m) /\ EndInv(m) /\ RaceInv(m)
    BY <1>1 DEF Init, CreateInv, CountInv, EndInv, RaceInv, Outdated, Ended, Final
<1> QED
    BY <1>1, <1>2 DEF IndInv

\* Updating a status keeps the types of status and raced.
LEMMA SetStatusTypes ==
    ASSUME TypeOK, NEW m \in Missions, NEW s \in Statuses, SetStatus(m, s)
    PROVE  status' \in [Missions -> Statuses] /\ raced' \in [Missions -> BOOLEAN]
<1>1. Outdated(m)' \in BOOLEAN
    BY DEF Outdated
<1> QED
    BY <1>1 DEF TypeOK, SetStatus

-----------------------------------------------------------------------------
(* How each part of the invariant is preserved, action by action.          *)

\* Every action keeps the types.
LEMMA StepTypeOK ==
    ASSUME IndInv, [Next]_vars
    PROVE  TypeOK'
<1> USE MissionsAssumption DEF IndInv
<1>1. ASSUME NEW m \in Missions, Insert(m)
      PROVE  TypeOK'
    BY <1>1, SetStatusTypes DEF Insert, Statuses, TypeOK, jobVars
<1>2. ASSUME NEW m \in Missions, EnqueueTarget(m)
      PROVE  TypeOK'
    BY <1>2 DEF EnqueueTarget, TypeOK
<1>3. ASSUME NEW m \in Missions, Start(m)
      PROVE  TypeOK'
    BY <1>3, SetStatusTypes DEF Start, Statuses, TypeOK, jobVars
<1>4. ASSUME NEW m \in Missions, AbortCreate(m)
      PROVE  TypeOK'
    BY <1>4 DEF AbortCreate, SpendFault, TypeOK, jobVars
<1>5. ASSUME NEW r \in Cancels, \E m \in Missions : ReadStatus(r, m)
      PROVE  TypeOK'
    BY <1>5 DEF ReadStatus, CancelStates, Final, TypeOK, jobVars
<1>6. ASSUME NEW r \in Cancels, MarkCancelled(r)
      PROVE  TypeOK'
    BY <1>6, SetStatusTypes DEF MarkCancelled, Statuses, CancelStates, TypeOK, jobVars
<1>7. ASSUME NEW r \in Cancels, AbortCancel(r)
      PROVE  TypeOK'
    BY <1>7 DEF AbortCancel, SpendFault, CancelStates, TypeOK, jobVars
<1>8. ASSUME NEW c \in Coordinators, SelectRunning(c)
      PROVE  TypeOK'
    BY <1>8 DEF SelectRunning, Update, Ended, TypeOK, jobVars, NewStatus
<1>9. ASSUME NEW c \in Coordinators, MarkEnded(c)
      PROVE  TypeOK'
    BY <1>9, SetStatusTypes DEF MarkEnded, Statuses, Update, Ended, TypeOK, jobVars
<1>10. ASSUME NEW c \in Coordinators, AbortCheck(c)
      PROVE  TypeOK'
    BY <1>10 DEF AbortCheck, SpendFault, Update, TypeOK, jobVars
<1>11. ASSUME NEW m \in Missions, JobStored(m)
      PROVE  TypeOK'
    BY <1>11 DEF JobStored, Counters, TypeOK
<1>12. ASSUME NEW m \in Missions, JobNotStored(m)
      PROVE  TypeOK'
    BY <1>12 DEF JobNotStored, Counters, SpendFault, TypeOK
<1>13. ASSUME NEW m \in Missions, JobUncounted(m)
      PROVE  TypeOK'
    BY <1>13 DEF JobUncounted, Counters, TypeOK
<1>14. ASSUME NEW m \in Missions, JobCountedTwice(m)
      PROVE  TypeOK'
    BY <1>14 DEF JobCountedTwice, Counters, SpendFault, TypeOK
<1>15. CASE UNCHANGED vars
    BY <1>15 DEF vars, jobVars, TypeOK
<1> QED
    BY <1>1, <1>2, <1>3, <1>4, <1>5, <1>6, <1>7, <1>8,
       <1>9, <1>10, <1>11, <1>12, <1>13, <1>14, <1>15
    DEF Next, CreateMission, CancelMission, CheckCompletion, JobEnds, Fault

\* Only Start and the coordinator's update of a mission that was running can
\* make it running or ended, and both find all of its jobs enqueued.
LEMMA StepCreateInv ==
    ASSUME IndInv, [Next]_vars, NEW n \in Missions
    PROVE  CreateInv(n)'
<1> USE CountTypes DEF IndInv, TypeOK
<1>1. ASSUME NEW m \in Missions, Insert(m)
      PROVE  CreateInv(n)'
    BY <1>1 DEF Insert, SetStatus, CreateInv, Outdated, Ended, jobVars
<1>2. ASSUME NEW m \in Missions, EnqueueTarget(m)
      PROVE  CreateInv(n)'
    BY <1>2 DEF EnqueueTarget, CreateInv, Outdated
<1>3. ASSUME NEW m \in Missions, Start(m)
      PROVE  CreateInv(n)'
    BY <1>3 DEF Start, SetStatus, CreateInv, Outdated, Ended, jobVars
<1>4. ASSUME NEW m \in Missions, AbortCreate(m)
      PROVE  CreateInv(n)'
    BY <1>4 DEF AbortCreate, SpendFault, CreateInv, Outdated, jobVars
<1>5. ASSUME NEW r \in Cancels, \E m \in Missions : ReadStatus(r, m)
      PROVE  CreateInv(n)'
    BY <1>5 DEF ReadStatus, CreateInv, Outdated, jobVars
<1>6. ASSUME NEW r \in Cancels, MarkCancelled(r)
      PROVE  CreateInv(n)'
    BY <1>6 DEF MarkCancelled, SetStatus, CreateInv, Outdated, Ended, jobVars
<1>7. ASSUME NEW r \in Cancels, AbortCancel(r)
      PROVE  CreateInv(n)'
    BY <1>7 DEF AbortCancel, SpendFault, CreateInv, Outdated, jobVars
<1>8. ASSUME NEW c \in Coordinators, SelectRunning(c)
      PROVE  CreateInv(n)'
    BY <1>8 DEF SelectRunning, CreateInv, Outdated, jobVars
<1>9. ASSUME NEW c \in Coordinators, MarkEnded(c)
      PROVE  CreateInv(n)'
    BY <1>9
    DEF MarkEnded, SetStatus, CreateInv, Outdated, EndInv, Update, Ended, jobVars
<1>10. ASSUME NEW c \in Coordinators, AbortCheck(c)
      PROVE  CreateInv(n)'
    BY <1>10 DEF AbortCheck, SpendFault, CreateInv, Outdated, jobVars
<1>11. ASSUME NEW m \in Missions, JobStored(m)
      PROVE  CreateInv(n)'
    BY <1>11 DEF JobStored, Counters, CreateInv, Outdated
<1>12. ASSUME NEW m \in Missions, JobNotStored(m)
      PROVE  CreateInv(n)'
    BY <1>12 DEF JobNotStored, Counters, SpendFault, CreateInv, Outdated
<1>13. ASSUME NEW m \in Missions, JobUncounted(m)
      PROVE  CreateInv(n)'
    BY <1>13 DEF JobUncounted, Counters, CreateInv, Outdated
<1>14. ASSUME NEW m \in Missions, JobCountedTwice(m)
      PROVE  CreateInv(n)'
    BY <1>14 DEF JobCountedTwice, Counters, SpendFault, CreateInv, Outdated
<1>15. CASE UNCHANGED vars
    BY <1>15 DEF vars, jobVars, CreateInv, Outdated
<1> QED
    BY <1>1, <1>2, <1>3, <1>4, <1>5, <1>6, <1>7, <1>8,
       <1>9, <1>10, <1>11, <1>12, <1>13, <1>14, <1>15
    DEF Next, CreateMission, CancelMission, CheckCompletion, JobEnds, Fault

\* A count takes a job from those in flight, or spends a fault.
LEMMA StepCountInv ==
    ASSUME IndInv, [Next]_vars, NEW n \in Missions
    PROVE  CountInv(n)'
<1> USE CountTypes DEF IndInv, TypeOK
<1>1. ASSUME NEW m \in Missions, Insert(m)
      PROVE  CountInv(n)'
    BY <1>1 DEF Insert, SetStatus, CountInv, jobVars
<1>2. ASSUME NEW m \in Missions, EnqueueTarget(m)
      PROVE  CountInv(n)'
    BY <1>2 DEF EnqueueTarget, CountInv
<1>3. ASSUME NEW m \in Missions, Start(m)
      PROVE  CountInv(n)'
    BY <1>3 DEF Start, SetStatus, CountInv, jobVars
<1>4. ASSUME NEW m \in Missions, AbortCreate(m)
      PROVE  CountInv(n)'
    BY <1>4 DEF AbortCreate, SpendFault, CountInv, jobVars
<1>5. ASSUME NEW r \in Cancels, \E m \in Missions : ReadStatus(r, m)
      PROVE  CountInv(n)'
    BY <1>5 DEF ReadStatus, CountInv, jobVars
<1>6. ASSUME NEW r \in Cancels, MarkCancelled(r)
      PROVE  CountInv(n)'
    BY <1>6 DEF MarkCancelled, SetStatus, CountInv, jobVars
<1>7. ASSUME NEW r \in Cancels, AbortCancel(r)
      PROVE  CountInv(n)'
    BY <1>7 DEF AbortCancel, SpendFault, CountInv, jobVars
<1>8. ASSUME NEW c \in Coordinators, SelectRunning(c)
      PROVE  CountInv(n)'
    BY <1>8 DEF SelectRunning, CountInv, jobVars
<1>9. ASSUME NEW c \in Coordinators, MarkEnded(c)
      PROVE  CountInv(n)'
    BY <1>9 DEF MarkEnded, SetStatus, CountInv, jobVars
<1>10. ASSUME NEW c \in Coordinators, AbortCheck(c)
      PROVE  CountInv(n)'
    BY <1>10 DEF AbortCheck, SpendFault, CountInv, jobVars
<1>11. ASSUME NEW m \in Missions, JobStored(m)
      PROVE  CountInv(n)'
    BY <1>11 DEF JobStored, Counters, CountInv
<1>12. ASSUME NEW m \in Missions, JobNotStored(m)
      PROVE  CountInv(n)'
    BY <1>12 DEF JobNotStored, Counters, SpendFault, CountInv
<1>13. ASSUME NEW m \in Missions, JobUncounted(m)
      PROVE  CountInv(n)'
    BY <1>13 DEF JobUncounted, Counters, CountInv
<1>14. ASSUME NEW m \in Missions, JobCountedTwice(m)
      PROVE  CountInv(n)'
    BY <1>14 DEF JobCountedTwice, Counters, SpendFault, CountInv
<1>15. CASE UNCHANGED vars
    BY <1>15 DEF vars, jobVars, CountInv
<1> QED
    BY <1>1, <1>2, <1>3, <1>4, <1>5, <1>6, <1>7, <1>8,
       <1>9, <1>10, <1>11, <1>12, <1>13, <1>14, <1>15
    DEF Next, CreateMission, CancelMission, CheckCompletion, JobEnds, Fault

\* A coordinator ends what it read as running, and counters never go down.
LEMMA StepEndInv ==
    ASSUME IndInv, [Next]_vars, NEW n \in Missions
    PROVE  EndInv(n)'
<1> USE CountTypes DEF IndInv, TypeOK
<1>1. ASSUME NEW m \in Missions, Insert(m)
      PROVE  EndInv(n)'
    BY <1>1 DEF Insert, SetStatus, EndInv, EndJustified, AllCounted, Ended, jobVars
<1>2. ASSUME NEW m \in Missions, EnqueueTarget(m)
      PROVE  EndInv(n)'
    BY <1>2 DEF EnqueueTarget, EndInv, EndJustified, AllCounted, CreateInv, Ended
<1>3. ASSUME NEW m \in Missions, Start(m)
      PROVE  EndInv(n)'
    BY <1>3 DEF Start, SetStatus, EndInv, EndJustified, AllCounted, Ended, jobVars
<1>4. ASSUME NEW m \in Missions, AbortCreate(m)
      PROVE  EndInv(n)'
    BY <1>4 DEF AbortCreate, SpendFault, EndInv, EndJustified, AllCounted, jobVars
<1>5. ASSUME NEW r \in Cancels, \E m \in Missions : ReadStatus(r, m)
      PROVE  EndInv(n)'
    BY <1>5 DEF ReadStatus, EndInv, EndJustified, AllCounted, jobVars
<1>6. ASSUME NEW r \in Cancels, MarkCancelled(r)
      PROVE  EndInv(n)'
    BY <1>6
    DEF MarkCancelled, SetStatus, EndInv, EndJustified, AllCounted, Ended, jobVars
<1>7. ASSUME NEW r \in Cancels, AbortCancel(r)
      PROVE  EndInv(n)'
    BY <1>7 DEF AbortCancel, SpendFault, EndInv, EndJustified, AllCounted, jobVars
<1>8. ASSUME NEW c \in Coordinators, SelectRunning(c)
      PROVE  EndInv(n)'
    BY <1>8
    DEF SelectRunning, EndInv, EndJustified, AllCounted, CreateInv, NewStatus, jobVars
<1>9. ASSUME NEW c \in Coordinators, MarkEnded(c)
      PROVE  EndInv(n)'
    BY <1>9
    DEF MarkEnded, SetStatus, EndInv, EndJustified, AllCounted, Ended, Update, jobVars
<1>10. ASSUME NEW c \in Coordinators, AbortCheck(c)
      PROVE  EndInv(n)'
    BY <1>10 DEF AbortCheck, SpendFault, EndInv, EndJustified, AllCounted, jobVars
<1>11. ASSUME NEW m \in Missions, JobStored(m)
      PROVE  EndInv(n)'
    BY <1>11 DEF JobStored, Counters, EndInv, EndJustified, AllCounted
<1>12. ASSUME NEW m \in Missions, JobNotStored(m)
      PROVE  EndInv(n)'
    BY <1>12 DEF JobNotStored, Counters, SpendFault, EndInv, EndJustified, AllCounted
<1>13. ASSUME NEW m \in Missions, JobUncounted(m)
      PROVE  EndInv(n)'
    BY <1>13 DEF JobUncounted, Counters, EndInv, EndJustified, AllCounted
<1>14. ASSUME NEW m \in Missions, JobCountedTwice(m)
      PROVE  EndInv(n)'
    BY <1>14
    DEF JobCountedTwice, Counters, SpendFault, EndInv, EndJustified, AllCounted
<1>15. CASE UNCHANGED vars
    BY <1>15 DEF vars, jobVars, EndInv, EndJustified, AllCounted
<1> QED
    BY <1>1, <1>2, <1>3, <1>4, <1>5, <1>6, <1>7, <1>8,
       <1>9, <1>10, <1>11, <1>12, <1>13, <1>14, <1>15
    DEF Next, CreateMission, CancelMission, CheckCompletion, JobEnds, Fault

\* The update that makes a status final recorded who was about to write;
\* nobody joins these later, as all of them first look at the status.
LEMMA StepRaceInv ==
    ASSUME IndInv, [Next]_vars, NEW n \in Missions
    PROVE  RaceInv(n)'
<1> USE CountTypes DEF IndInv, TypeOK
<1>1. ASSUME NEW m \in Missions, Insert(m)
      PROVE  RaceInv(n)'
    BY <1>1 DEF Insert, SetStatus, RaceInv, Outdated, Final, jobVars
<1>2. ASSUME NEW m \in Missions, EnqueueTarget(m)
      PROVE  RaceInv(n)'
    BY <1>2 DEF EnqueueTarget, RaceInv, Outdated
<1>3. ASSUME NEW m \in Missions, Start(m)
      PROVE  RaceInv(n)'
    BY <1>3 DEF Start, SetStatus, RaceInv, Outdated, Final, jobVars
<1>4. ASSUME NEW m \in Missions, AbortCreate(m)
      PROVE  RaceInv(n)'
    BY <1>4 DEF AbortCreate, SpendFault, RaceInv, Outdated, jobVars
<1>5. ASSUME NEW r \in Cancels, \E m \in Missions : ReadStatus(r, m)
      PROVE  RaceInv(n)'
    BY <1>5 DEF ReadStatus, RaceInv, Outdated, Final, jobVars
<1>6. ASSUME NEW r \in Cancels, MarkCancelled(r)
      PROVE  RaceInv(n)'
    BY <1>6 DEF MarkCancelled, SetStatus, RaceInv, Outdated, Final, jobVars
<1>7. ASSUME NEW r \in Cancels, AbortCancel(r)
      PROVE  RaceInv(n)'
    BY <1>7 DEF AbortCancel, SpendFault, RaceInv, Outdated, jobVars
<1>8. ASSUME NEW c \in Coordinators, SelectRunning(c)
      PROVE  RaceInv(n)'
    BY <1>8 DEF SelectRunning, RaceInv, Outdated, Final, jobVars
<1>9. ASSUME NEW c \in Coordinators, MarkEnded(c)
      PROVE  RaceInv(n)'
    BY <1>9 DEF MarkEnded, SetStatus, RaceInv, Outdated, Final, jobVars
<1>10. ASSUME NEW c \in Coordinators, AbortCheck(c)
      PROVE  RaceInv(n)'
    BY <1>10 DEF AbortCheck, SpendFault, RaceInv, Outdated, jobVars
<1>11. ASSUME NEW m \in Missions, JobStored(m)
      PROVE  RaceInv(n)'
    BY <1>11 DEF JobStored, Counters, RaceInv, Outdated
<1>12. ASSUME NEW m \in Missions, JobNotStored(m)
      PROVE  RaceInv(n)'
    BY <1>12 DEF JobNotStored, Counters, SpendFault, RaceInv, Outdated
<1>13. ASSUME NEW m \in Missions, JobUncounted(m)
      PROVE  RaceInv(n)'
    BY <1>13 DEF JobUncounted, Counters, RaceInv, Outdated
<1>14. ASSUME NEW m \in Missions, JobCountedTwice(m)
      PROVE  RaceInv(n)'
    BY <1>14 DEF JobCountedTwice, Counters, SpendFault, RaceInv, Outdated
<1>15. CASE UNCHANGED vars
    BY <1>15 DEF vars, jobVars, RaceInv, Outdated
<1> QED
    BY <1>1, <1>2, <1>3, <1>4, <1>5, <1>6, <1>7, <1>8,
       <1>9, <1>10, <1>11, <1>12, <1>13, <1>14, <1>15
    DEF Next, CreateMission, CancelMission, CheckCompletion, JobEnds, Fault

-----------------------------------------------------------------------------
(* The theorems.                                                           *)

\* IndInv is an invariant: what create_mission, cancel_mission and the
\* completion check know of a mission fits together at every moment.
THEOREM Invariance == Spec => []IndInv
<1>1. ASSUME IndInv, [Next]_vars PROVE IndInv'
    BY <1>1, StepTypeOK, StepCreateInv, StepCountInv, StepEndInv, StepRaceInv DEF IndInv
<1> QED
    BY <1>1, InitIndInv, PTL DEF Spec

\* The row of a mission, the counters, and what the coroutines remember of
\* them, keep their types.
THEOREM TypeCorrect == Spec => []TypeOK
<1>1. IndInv => TypeOK
    BY DEF IndInv
<1> QED
    BY <1>1, Invariance, PTL

\* However many handlers, checks and double counts interleave, a mission that
\* the coordinator ended has all its targets enqueued and no more jobs in
\* flight than there were faults.
THEOREM EndedAreFinished == Spec => []EndedMissionsAreFinished
<1>1. ASSUME IndInv, NEW m \in Missions
      PROVE  /\ status[m] \in Ended => queued[m] = Total[m] /\ inFlight[m] <= faults
             /\ status[m] = "failed" => done[m] + inFlight[m] <= faults
  <2>1. CreateInv(m) /\ CountInv(m) /\ EndInv(m) /\ TypeOK
      BY <1>1 DEF IndInv
  <2> QED
      BY <2>1, CountTypes DEF CreateInv, CountInv, EndInv, EndJustified, AllCounted, Ended
<1>2. IndInv => EndedMissionsAreFinished
    BY <1>1 DEF EndedMissionsAreFinished
<1> QED
    BY <1>2, Invariance, PTL

\* A final status is overwritten only by a handler that was under way when it
\* was written: create_mission, another cancel_mission or a completion check.
THEOREM FinalUnlessRaced == Spec => OnlyRacesOverwrite
<1>1. ASSUME IndInv, [Next]_vars, NEW m \in Missions, status[m] \in Final, ~raced[m]
      PROVE  status'[m] = status[m]
  <2>1. ~Outdated(m) /\ create[m] # "idle" /\ TypeOK
      BY <1>1 DEF IndInv, RaceInv, CreateInv, Final
  <2> USE <2>1 DEF TypeOK, Outdated
  <2>2. ASSUME NEW n \in Missions, Insert(n) \/ Start(n) PROVE status'[m] = status[m]
      BY <2>2 DEF Insert, Start, SetStatus
  <2>3. ASSUME NEW r \in Cancels, MarkCancelled(r) PROVE status'[m] = status[m]
      BY <2>3 DEF MarkCancelled, SetStatus
  <2>4. ASSUME NEW c \in Coordinators, MarkEnded(c) PROVE status'[m] = status[m]
      BY <2>4 DEF MarkEnded, SetStatus, Update
  <2>5. CASE UNCHANGED status
      BY <2>5
  <2> QED
      BY <1>1, <2>2, <2>3, <2>4, <2>5
      DEF Next, CreateMission, CancelMission, CheckCompletion, JobEnds, Fault, vars,
          EnqueueTarget, AbortCreate, ReadStatus, AbortCancel, SelectRunning, AbortCheck,
          JobStored, JobNotStored, JobUncounted, JobCountedTwice, Counters
<1>2. IndInv /\ [Next]_vars =>
          [\A m \in Missions :
               status[m] \in Final /\ ~raced[m] => status'[m] = status[m]]_vars
    BY <1>1
<1> QED
    BY <1>2, Invariance, PTL DEF Spec, OnlyRacesOverwrite

=============================================================================
