------------------------------ MODULE RedisStreams ------------------------------
(***************************************************************************)
(* A Redis stream with its one consumer group, as shared/redis_client.py   *)
(* uses it.  A stream is a record:                                         *)
(*                                                                         *)
(*   log   every entry ever added, in order; an entry's id is its index    *)
(*         (nothing in the code trims or deletes the work streams)         *)
(*   last  the group's last-delivered id                                   *)
(*   pel   the pending entries list: delivered, not acknowledged           *)
(*   idle  the pending entries that nobody has touched for                 *)
(*         CLAIM_TIMEOUT_MS, which XAUTOCLAIM may hand to a caller         *)
(*                                                                         *)
(* The consumer that owns a pending entry is left out: the code never      *)
(* reads it, and XAUTOCLAIM ignores it.                                    *)
(***************************************************************************)
EXTENDS Integers, Sequences, FiniteSets

EmptyStream == [log |-> << >>, last |-> 0, pel |-> {}, idle |-> {}]

\* What a stream of messages Msg always is.
StreamOf(Msg) ==
    {s \in [log : Seq(Msg), last : Nat, pel : SUBSET Nat, idle : SUBSET Nat] :
        /\ s.last <= Len(s.log)
        /\ s.pel \subseteq 1 .. s.last
        /\ s.idle \subseteq s.pel}

Ids(s) == 1 .. Len(s.log)

\* The entries that still have to be processed: never delivered, or pending.
Unacked(s) == {i \in Ids(s) : i > s.last \/ i \in s.pel}

\* How many of the messages M were ever added.
CountOf(s, M) == Cardinality({i \in Ids(s) : s.log[i] \in M})

\* The n smallest members of a set of ids.
Lowest(S, n) == {i \in S : Cardinality({k \in S : k < i}) < n}

-----------------------------------------------------------------------------
\* XADD.
Xadd(s, msg) == [s EXCEPT !.log = Append(@, msg)]

\* XREADGROUP with ">": the next undelivered entries, at most n of them.
Undelivered(s, n) == {i \in Ids(s) : s.last < i /\ i <= s.last + n}

XreadGroup(s, n) ==
    [s EXCEPT !.last = IF @ + n <= Len(s.log) THEN @ + n ELSE Len(s.log),
              !.pel = @ \cup Undelivered(s, n)]

\* XAUTOCLAIM from 0-0: the oldest idle entries, which start a new idle period.
Claimable(s, n) == Lowest(s.idle, n)

Xautoclaim(s, n) == [s EXCEPT !.idle = @ \ Claimable(s, n)]

\* XACK: a no-op for an entry that is no longer pending.
Xack(s, id) == [s EXCEPT !.pel = @ \ {id}, !.idle = @ \ {id}]

\* The server's clock: a pending entry reaches the minimum idle time.
GoIdle(s, id) == [s EXCEPT !.idle = @ \cup {id}]

=============================================================================
