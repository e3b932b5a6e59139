----------------------------- MODULE LeaderElection -----------------------------
(***************************************************************************)
(* The election of coordinator/coordinator.py: a key of Redis with a TTL,  *)
(* which every coordinator tries to take once per ELECTION_INTERVAL.       *)
(*                                                                         *)
(* A round is up to three commands: SET NX EX, GET, EXPIRE.  Each is an    *)
(* action with the code up to the next await.  Time passes in Tick, and    *)
(* the unit is whatever divides both intervals (10 seconds in the code).   *)
(* A coordinator whose round is due makes it before time passes, unless it *)
(* is late: `lost` adds up the time that late and failed rounds cost, and  *)
(* the properties say what the election is worth in terms of it.           *)
(*                                                                         *)
(* A coordinator is a host and pid, which a restarted container keeps.     *)
(***************************************************************************)
EXTENDS Integers, FiniteSets

CONSTANTS
    Coordinators,       \* instance ids
    LEADER_TTL,         \* time to live of the key
    ELECTION_INTERVAL,  \* sleep between two rounds
    MaxLost,            \* bound on the time lost by late and failed rounds
    MaxCrashes          \* bound on crashes

VARIABLES
    owner,      \* value of the key LEADER_KEY, or None
    ttl,        \* time to live that the key has left, 0 without a key
    isLeader,   \* isLeader[c]: the flag _is_leader
    pc,         \* pc[c]: the command of the round that c makes next
    timer,      \* timer[c]: how long the election loop of c still sleeps
    busy,       \* busy[c]: a loop of c is at work that only the leader does
    lost,       \* time lost so far by late and failed rounds
    crashes,    \* how many crashes have happened
    since,      \* history: since[c], time since Redis last gave c a full TTL
    waiting     \* history: waiting[c], time that c has been running unled

loopVars == <<isLeader, pc, timer, busy>>
vars == <<owner, ttl, loopVars, lost, crashes, since, waiting>>

ASSUME ElectionAssumption ==
    /\ LEADER_TTL \in Nat /\ ELECTION_INTERVAL \in Nat
    /\ 0 < ELECTION_INTERVAL /\ ELECTION_INTERVAL < LEADER_TTL
    /\ MaxLost \in Nat /\ MaxCrashes \in Nat

None == "none"
ASSUME NoneAssumption == None \notin Coordinators

Init ==
    /\ owner = None
    /\ ttl = 0
    /\ isLeader = [c \in Coordinators |-> FALSE]
    /\ pc = [c \in Coordinators |-> "down"]
    /\ timer = [c \in Coordinators |-> 0]
    /\ busy = [c \in Coordinators |-> FALSE]
    /\ lost = 0
    /\ crashes = 0
    /\ since = [c \in Coordinators |-> LEADER_TTL]
    /\ waiting = [c \in Coordinators |-> 0]

\* The loops of c run.
Running(c) == pc[c] \in {"set", "get", "expire"}

\* c is awaiting a command of its round, or should be.
Due(c) == Running(c) /\ timer[c] = 0

\* c does what only the leader should do, or will without asking Redis.
Leads(c) == busy[c] \/ (isLeader[c] /\ Running(c))

-----------------------------------------------------------------------------
(* What the commands do to the key.                                        *)

\* SET without a TTL: a faulty variant of the next definition.
TakeKeyForGood(c) ==
    /\ owner' = c
    /\ ttl' = 10 * LEADER_TTL
    /\ since' = [since EXCEPT ![c] = 0]

TakeKey(c) ==
    /\ owner' = c
    /\ ttl' = LEADER_TTL
    /\ since' = [since EXCEPT ![c] = 0]

\* EXPIRE, whoever owns the key by now, if there is one.
RenewKey ==
    /\ ttl' = IF owner = None THEN 0 ELSE LEADER_TTL
    /\ since' = [d \in Coordinators |-> IF d = owner THEN 0 ELSE since[d]]
    /\ UNCHANGED owner

\* _try_acquire_leader returned, or raised: the loop sleeps.
EndRound(c, leads) ==
    /\ pc' = [pc EXCEPT ![c] = "set"]
    /\ timer' = [timer EXCEPT ![c] = ELECTION_INTERVAL]
    /\ isLeader' = [isLeader EXCEPT ![c] = leads]
    /\ waiting' = [d \in Coordinators |-> IF leads THEN 0 ELSE waiting[d]]

-----------------------------------------------------------------------------
(* _try_acquire_leader.                                                    *)

\* A faulty variant: who has just taken the key finds out in its next round.
SetNxQuietly(c) ==
    /\ pc[c] = "set" /\ timer[c] = 0
    /\ IF owner = None
       THEN TakeKey(c) /\ EndRound(c, isLeader[c])
       ELSE /\ pc' = [pc EXCEPT ![c] = "get"]
            /\ UNCHANGED <<owner, ttl, since, isLeader, timer, waiting>>
    /\ UNCHANGED <<busy, lost, crashes>>

\* SET NX EX ...
SetNx(c) ==
    /\ pc[c] = "set" /\ timer[c] = 0
    /\ IF owner = None
       THEN TakeKey(c) /\ EndRound(c, TRUE)
       ELSE /\ pc' = [pc EXCEPT ![c] = "get"]
            /\ UNCHANGED <<owner, ttl, since, isLeader, timer, waiting>>
    /\ UNCHANGED <<busy, lost, crashes>>

\* A faulty variant: the flag is not taken back when the key is another's.
GetAndKeep(c) ==
    /\ pc[c] = "get"
    /\ IF owner = c
       THEN pc' = [pc EXCEPT ![c] = "expire"] /\ UNCHANGED <<isLeader, timer, waiting>>
       ELSE EndRound(c, isLeader[c])
    /\ UNCHANGED <<owner, ttl, busy, lost, crashes, since>>

\* ... GET: the key is another's, or its own and to be renewed ...
Get(c) ==
    /\ pc[c] = "get"
    /\ IF owner = c
       THEN pc' = [pc EXCEPT ![c] = "expire"] /\ UNCHANGED <<isLeader, timer, waiting>>
       ELSE EndRound(c, FALSE)
    /\ UNCHANGED <<owner, ttl, busy, lost, crashes, since>>

\* A faulty variant: a leader that finds its own key does not renew it.
SkipExpire(c) ==
    /\ pc[c] = "expire"
    /\ EndRound(c, TRUE)
    /\ UNCHANGED <<owner, ttl, since, busy, lost, crashes>>

\* ... EXPIRE, whose result nobody looks at.
Expire(c) ==
    /\ pc[c] = "expire"
    /\ RenewKey
    /\ EndRound(c, TRUE)
    /\ UNCHANGED <<busy, lost, crashes>>

\* A command raises, whether Redis ran it or not; _election_loop logs that
\* and leaves the flag as it was.
RoundFails(c) ==
    /\ Due(c)
    /\ lost + ELECTION_INTERVAL <= MaxLost
    /\ lost' = lost + ELECTION_INTERVAL
    /\ EndRound(c, isLeader[c])
    /\ \/ UNCHANGED <<owner, ttl, since>>
       \/ pc[c] = "set" /\ owner = None /\ TakeKey(c)
       \/ pc[c] = "expire" /\ RenewKey
    /\ UNCHANGED <<busy, crashes>>

-----------------------------------------------------------------------------
(* The other loops, and the life of the process.                           *)

\* A round of the schedule, heartbeat or completion loop: it looks at the flag
\* once, and then works for as long as it takes.
BeginWork(c) ==
    /\ Running(c) /\ isLeader[c] /\ ~busy[c]
    /\ busy' = [busy EXCEPT ![c] = TRUE]
    /\ UNCHANGED <<owner, ttl, isLeader, pc, timer, lost, crashes, since, waiting>>

EndWork(c) ==
    /\ busy[c]
    /\ busy' = [busy EXCEPT ![c] = FALSE]
    /\ UNCHANGED <<owner, ttl, isLeader, pc, timer, lost, crashes, since, waiting>>

\* run: the first round is made at once.
Start(c) ==
    /\ pc[c] = "down"
    /\ pc' = [pc EXCEPT ![c] = "set"]
    /\ timer' = [timer EXCEPT ![c] = 0]
    /\ waiting' = [waiting EXCEPT ![c] = 0]
    /\ UNCHANGED <<owner, ttl, isLeader, busy, lost, crashes, since>>

\* SIGTERM cancels run; gather has ended all loops when it raises.
Stop(c) ==
    /\ Running(c)
    /\ pc' = [pc EXCEPT ![c] = "release"]
    /\ busy' = [busy EXCEPT ![c] = FALSE]
    /\ UNCHANGED <<owner, ttl, isLeader, timer, lost, crashes, since, waiting>>

Down(c) ==
    /\ pc' = [pc EXCEPT ![c] = "down"]
    /\ isLeader' = [isLeader EXCEPT ![c] = FALSE]
    /\ busy' = [busy EXCEPT ![c] = FALSE]

\* A faulty variant: DEL without looking at the value.
ReleaseAny(c) ==
    /\ pc[c] = "release"
    /\ owner' = None /\ ttl' = 0
    /\ Down(c)
    /\ UNCHANGED <<timer, lost, crashes, since, waiting>>

\* _release_leader: the script compares and deletes in one step.
Release(c) ==
    /\ pc[c] = "release"
    /\ IF owner = c THEN owner' = None /\ ttl' = 0 ELSE UNCHANGED <<owner, ttl>>
    /\ Down(c)
    /\ UNCHANGED <<timer, lost, crashes, since, waiting>>

\* The process is killed, or the release fails.
Crash(c) ==
    /\ pc[c] # "down"
    /\ crashes < MaxCrashes
    /\ crashes' = crashes + 1
    /\ Down(c)
    /\ UNCHANGED <<owner, ttl, timer, lost, since, waiting>>

\* Time passes, for the key and for the loops.  It is lost while a round is due.
Tick ==
    /\ LET late == \E c \in Coordinators : Due(c)
       IN  /\ late => lost < MaxLost
           /\ lost' = IF late THEN lost + 1 ELSE lost
    /\ ttl' = IF ttl > 0 THEN ttl - 1 ELSE 0
    /\ owner' = IF ttl > 1 THEN owner ELSE None
    /\ timer' = [c \in Coordinators |-> IF timer[c] > 0 THEN timer[c] - 1 ELSE 0]
    /\ since' = [c \in Coordinators |->
           IF since[c] < LEADER_TTL THEN since[c] + 1 ELSE LEADER_TTL]
    /\ waiting' = [c \in Coordinators |->
           IF Running(c) /\ ~\E d \in Coordinators : Leads(d) THEN waiting[c] + 1 ELSE 0]
    /\ UNCHANGED <<isLeader, pc, busy, crashes>>

-----------------------------------------------------------------------------
Round(c) == SetNx(c) \/ Get(c) \/ Expire(c)

Work(c) == BeginWork(c) \/ EndWork(c)

Life(c) == Start(c) \/ Stop(c) \/ Release(c)

Next ==
    \/ \E c \in Coordinators :
           Round(c) \/ Work(c) \/ Life(c) \/ RoundFails(c) \/ Crash(c)
    \/ Tick

(***************************************************************************)
(* Fairness.  Time passes; the election loop of a coordinator that runs    *)
(* goes on, every command having a timeout; work that was begun ends.      *)
(* Nobody has to start or stop a coordinator.                              *)
(***************************************************************************)
Fairness ==
    /\ WF_vars(Tick)
    /\ \A c \in Coordinators : WF_vars(Round(c)) /\ WF_vars(EndWork(c))

Spec == Init /\ [][Next]_vars

FairSpec == Spec /\ Fairness

-----------------------------------------------------------------------------
(* Properties.                                                             *)

TypeOK ==
    /\ owner \in Coordinators \cup {None}
    /\ ttl \in 0 .. LEADER_TTL
    /\ isLeader \in [Coordinators -> BOOLEAN]
    /\ pc \in [Coordinators -> {"down", "set", "get", "expire", "release"}]
    /\ timer \in [Coordinators -> 0 .. ELECTION_INTERVAL]
    /\ busy \in [Coordinators -> BOOLEAN]
    /\ lost \in 0 .. MaxLost
    /\ crashes \in 0 .. MaxCrashes
    /\ since \in [Coordinators -> 0 .. LEADER_TTL]
    /\ waiting \in [Coordinators -> Nat]

\* A coordinator that leads, or is still at work as the leader, owns the key
\* unless a whole TTL has gone by since Redis last renewed it for it.  So two
\* lead at once only while one of them is that late.
FreshLeaderOwnsKey ==
    \A c \in Coordinators : Leads(c) /\ since[c] < LEADER_TTL => owner = c

\* The time that rounds must lose before a leader's key can run out.
Outlived == ELECTION_INTERVAL + lost >= LEADER_TTL

\* Two coordinators lead at once only when late and failed rounds have used up
\* what the TTL leaves over one interval: with 30 and 10 seconds, two failed
\* rounds.  A crash can leave less of the TTL to the process that follows under the
\* same id, but it takes a late or failed round besides.
OverlapNeedsLostTime ==
    \A c, d \in Coordinators :
        c # d /\ Leads(c) /\ Leads(d) => Outlived \/ (crashes > 0 /\ lost > 0)

\* Unless a round was late or failed, a coordinator that runs while nobody leads
\* takes over in less than a TTL and an interval, however the leader ended: 40
\* seconds in the code.
GapIsBounded ==
    \A c \in Coordinators :
        Running(c) /\ lost = 0 => waiting[c] < LEADER_TTL + ELECTION_INTERVAL

\* When the coordinators have been started and stopped as somebody wished, and
\* one is running, in the end exactly one leads: it takes over what the others
\* left, whatever they lost, and every other one has noticed.
OneLeaderInTheEnd ==
    /\ \A c \in Coordinators : <>[]Running(c) \/ <>[](pc[c] = "down")
    /\ \E c \in Coordinators : <>[]Running(c)
    => <>[](Cardinality({c \in Coordinators : Leads(c)}) = 1)

-----------------------------------------------------------------------------
(* The invariant that the proofs of LeaderElectionProofs use.              *)

\* A key has a TTL, and at least what its owner was last given.
KeyInv(c) ==
    /\ owner = None <=> ttl = 0
    /\ owner = c => ttl + since[c] >= LEADER_TTL

\* Who leads or is about to renew has lost its key only by running out of time.
FreshInv(c) ==
    (Leads(c) \/ pc[c] = "expire") /\ since[c] < LEADER_TTL => owner = c

\* How much of the TTL an owner has used up: its sleep, and what was lost.
LeaseInv(c) ==
    owner = c /\ Running(c) /\ (isLeader[c] \/ crashes = 0)
        => LEADER_TTL - ttl <= lost + ELECTION_INTERVAL - timer[c]

MayOverlap == Outlived \/ (crashes > 0 /\ lost > 0)

\* Who leads or is about to renew without the key has paid for it.
LapseInv(c) ==
    /\ (Leads(c) \/ pc[c] = "expire") /\ owner # c => MayOverlap
    /\ busy[c] /\ ~isLeader[c] => MayOverlap
    /\ busy[c] => Running(c)
    /\ pc[c] = "down" => ~isLeader[c] /\ (crashes = 0 => owner # c)
    /\ pc[c] \in {"get", "expire"} => timer[c] = 0

\* While nobody leads, the key runs out, and then the sleep of any coordinator.
GapInv(c) ==
    lost = 0 /\ Running(c) =>
        /\ owner # None => waiting[c] + ttl <= LEADER_TTL
        /\ owner = None => waiting[c] + timer[c] < LEADER_TTL + ELECTION_INTERVAL
        /\ pc[c] \in {"get", "expire"} => waiting[c] < LEADER_TTL

\* The inductive invariant: what each coordinator believes, against what is left
\* of the key.
IndInv ==
    /\ TypeOK
    /\ \A c \in Coordinators :
           KeyInv(c) /\ FreshInv(c) /\ LeaseInv(c) /\ LapseInv(c) /\ GapInv(c)

=============================================================================
