----------------------------- MODULE ConsoleProofs -----------------------------
(***************************************************************************)
(* Safety of the console's list of missions, for every number of missions, *)
(* visits, reconnects and faults.  IndInv of Console is inductive: it says *)
(* of every mission what is still under way to the one open socket.  That  *)
(* the list is stale only for a reason, and that a page left while it      *)
(* waits leaves nothing behind, follow from it.                            *)
(***************************************************************************)
EXTENDS Console, SequenceTheorems, TLAPS

\* The types of what is sent.
LEMMA MessageTypes ==
    /\ \A e \in Event : /\ MissionEvent(e) \in Message
                        /\ MissionEvent(e).type = "mission_event" /\ MissionEvent(e).event = e
    /\ \A rows \in [Missions -> Statuses] :
        /\ Snapshot(rows) \in Message
        /\ Snapshot(rows).type = "snapshot" /\ Snapshot(rows).missions = rows
        /\ Read(rows) \in Handler /\ Read(rows).pc = "read" /\ Read(rows).missions = rows
    /\ None \in Handler /\ Building \in Handler /\ Serving \in Handler
    /\ None.pc = "none" /\ Building.pc = "building" /\ Serving.pc = "serving"
    /\ [m \in Missions |-> "absent"] \in [Missions -> Statuses]
BY DEF MissionEvent, Snapshot, Message, Read, Handler, None, Building, Serving, Statuses

\* What a handler can be: only one that has read the rows carries any.
LEMMA HandlerCases ==
    ASSUME NEW h \in Handler
    PROVE  \/ h \in {None, Building, Serving} /\ h.pc # "read"
           \/ h.pc = "read" /\ h.missions \in [Missions -> Statuses] /\ h = Read(h.missions)
<1>1. CASE h \in {None, Building, Serving}
    BY <1>1, MessageTypes
<1>2. CASE \E rows \in [Missions -> Statuses] : h = Read(rows)
    BY <1>2, MessageTypes
<1> QED
    BY <1>1, <1>2 DEF Handler

\* What a message can be.
LEMMA MessageCases ==
    ASSUME NEW msg \in Message
    PROVE  \/ msg.type = "snapshot" /\ msg.missions \in [Missions -> Statuses]
           \/ /\ msg.type = "mission_event" /\ msg.event \in Event
              /\ msg = MissionEvent(msg.event)
BY DEF Message, MissionEvent

\* Faults are counted up to their bound.
LEMMA FaultTypes ==
    ASSUME TypeOK, SpendFault
    PROVE  faults' \in 0 .. MaxFaults
BY ConsoleAssumption DEF TypeOK, SpendFault

\* Only a request of a form is answered.
LEMMA AnswerTypes ==
    ASSUME TypeOK, NEW e \in Event, NEW reply \in {"none", "reply"}, Answer(e, reply)
    PROVE  /\ form' \in [Missions -> {"none", "waiting", "reply"}]
           /\ \A m \in Missions : form[m] = "none" => form'[m] = "none"
<1>1. form \in [Missions -> {"none", "waiting", "reply"}]
    BY DEF TypeOK
<1>2. CASE e.to = "running" /\ form[e.mission] = "waiting"
    BY <1>1, <1>2 DEF Answer
<1>3. CASE ~(e.to = "running" /\ form[e.mission] = "waiting")
    BY <1>1, <1>3 DEF Answer
<1> QED
    BY <1>2, <1>3

\* What closing a socket makes of the types.
LEMMA CloseTypes ==
    ASSUME TypeOK, NEW i \in Visits, Close(i)
    PROVE  /\ handler' \in [Visits -> Handler] /\ inbox' \in [Visits -> Seq(Message)]
           /\ socket' \in [Visits -> {"none", "connecting", "open", "cut", "closing", "closed"}]
BY MessageTypes DEF Close, TypeOK

\* What the hook's cleanup makes of the types.
LEMMA CleanupTypes ==
    ASSUME TypeOK, NEW i \in Visits, Cleanup(i)
    PROVE  /\ handler' \in [Visits -> Handler] /\ inbox' \in [Visits -> Seq(Message)]
           /\ socket' \in [Visits -> {"none", "connecting", "open", "cut", "closing", "closed"}]
           /\ phase' \in [Visits -> {"new", "mounted", "left", "abandoned"}]
           /\ timer' \in [Visits -> BOOLEAN]
           /\ \A j \in Visits :
               /\ handler'[j] # None => socket'[j] \in {"open", "cut"}
               /\ timer'[j] => socket'[j] = "closed"
<1>1. ASSUME NEW j \in Visits
      PROVE  /\ handler'[j] # None => socket'[j] \in {"open", "cut"}
             /\ timer'[j] => socket'[j] = "closed"
    BY MessageTypes DEF Cleanup, Close, Live, TypeOK
<1>2. /\ handler' \in [Visits -> Handler] /\ inbox' \in [Visits -> Seq(Message)]
      /\ socket' \in [Visits -> {"none", "connecting", "open", "cut", "closing", "closed"}]
    <2>1. CASE Live(i)
        BY <2>1, CloseTypes DEF Cleanup
    <2>2. CASE ~Live(i)
        BY <2>2 DEF Cleanup, TypeOK
    <2> QED
        BY <2>1, <2>2
<1>3. /\ phase' \in [Visits -> {"new", "mounted", "left", "abandoned"}]
      /\ timer' \in [Visits -> BOOLEAN]
    BY DEF Cleanup, TypeOK
<1> QED
    BY <1>1, <1>2, <1>3

\* Every action keeps the types.
LEMMA StepTypeOK ==
    ASSUME TypeOK, SocketInv, [Next]_vars
    PROVE  TypeOK'
<1>1. ASSUME NEW m \in Missions, Insert(m)
      PROVE  TypeOK'
    BY <1>1 DEF Insert, Write, services, server, client, TypeOK, Statuses
<1>2. ASSUME NEW m \in Missions, Start(m)
      PROVE  TypeOK'
    BY <1>2 DEF Start, Announce, Write, server, client, TypeOK, Event, Statuses, Announced
<1>3. ASSUME NEW m \in Missions, End(m)
      PROVE  TypeOK'
    BY <1>3, ConsoleAssumption DEF End, Announce, Write, server, client, TypeOK, Event,
        Statuses, Announced
<1>4. ASSUME NEW m \in Missions, Cancel(m)
      PROVE  TypeOK'
    BY <1>4, ConsoleAssumption DEF Cancel, ExcuseIf, Announce, Write, services, server, client,
        TypeOK, Event, Statuses, Announced
<1>5. ASSUME NEW e \in Event, Publish(e)
      PROVE  TypeOK'
    <2>1. channel' \in Seq(Event)
        BY <1>5 DEF Publish, TypeOK
    <2>2. form' \in [Missions -> {"none", "waiting", "reply"}]
        BY <1>5, AnswerTypes DEF Publish
    <2> QED
        BY <1>5, <2>1, <2>2 DEF Publish, ExcuseIf, client, TypeOK, Event
<1>6. ASSUME NEW e \in Event, LoseEvent(e)
      PROVE  TypeOK'
    <2>1. form' \in [Missions -> {"none", "waiting", "reply"}]
        BY <1>6, AnswerTypes DEF LoseEvent
    <2> QED
        BY <1>6, <2>1, FaultTypes, ConsoleAssumption
        DEF LoseEvent, ExcuseIf, server, client, TypeOK, Event
<1>7. CASE TakeEvent
    BY <1>7 DEF TakeEvent, Registered, services, client, TypeOK
<1>8. CASE PushEnds
    BY <1>8, FaultTypes DEF PushEnds, services, client, TypeOK
<1>9. CASE Crash
    BY <1>9, FaultTypes, MessageTypes DEF Crash, client, TypeOK
<1>10. CASE Restart
    BY <1>10 DEF Restart, services, client, TypeOK
<1>11. ASSUME NEW i \in Visits, ReadMissions(i)
      PROVE  TypeOK'
    <2>1. ASSUME NEW j \in Visits
          PROVE  /\ handler'[j] # None => socket'[j] \in {"open", "cut"}
                 /\ timer'[j] => socket'[j] = "closed"
        BY <1>11, MessageTypes DEF ReadMissions, services, server, client, TypeOK
    <2>2. Read(status) \in Handler /\ Read([m \in Missions |-> "absent"]) \in Handler
        BY MessageTypes DEF TypeOK
    <2>3. handler' \in [Visits -> Handler]
        BY <1>11, <2>2 DEF ReadMissions, TypeOK
    <2>4. faults' \in 0 .. MaxFaults
        BY <1>11, FaultTypes DEF ReadMissions, TypeOK
    <2> QED
        BY <1>11, <2>1, <2>3, <2>4 DEF ReadMissions, services, server, client, TypeOK
<1>12. ASSUME NEW i \in Visits, SendSnapshot(i)
      PROVE  TypeOK'
    BY <1>12, MessageTypes, HandlerCases DEF SendSnapshot, services, server, client, TypeOK
<1>13. ASSUME NEW i \in Visits, HandlerFails(i)
      PROVE  TypeOK'
    BY <1>13, FaultTypes, MessageTypes DEF HandlerFails, services, server, client, TypeOK
<1>14. ASSUME NEW i \in Visits, CutLink(i)
      PROVE  TypeOK'
    <2>1. ASSUME NEW j \in Visits
          PROVE  /\ handler'[j] # None => socket'[j] \in {"open", "cut"}
                 /\ timer'[j] => socket'[j] = "closed"
        BY <1>14, MessageTypes DEF CutLink, services, server, client, TypeOK
    <2>2. /\ socket' \in [Visits -> {"none", "connecting", "open", "cut", "closing", "closed"}]
          /\ inbox' \in [Visits -> Seq(Message)]
        BY <1>14 DEF CutLink, TypeOK
    <2>3. faults' \in 0 .. MaxFaults
        BY <1>14, FaultTypes DEF CutLink
    <2> QED
        BY <1>14, <2>1, <2>2, <2>3 DEF CutLink, services, server, TypeOK
<1>15. ASSUME NEW i \in Visits, NEW e \in Event, Broadcast(i, e)
      PROVE  TypeOK'
    BY <1>15, MessageTypes DEF Broadcast, ExcuseIf, services, client, TypeOK, Event
<1>16. ASSUME NEW i \in Visits, Mount(i)
      PROVE  TypeOK'
    BY <1>16 DEF Mount, SocketInv, services, server, TypeOK
<1>17. ASSUME NEW i \in Visits, Unmount(i)
      PROVE  TypeOK'
    BY <1>17, CleanupTypes DEF Unmount, services, server, TypeOK
<1>18. ASSUME NEW i \in Visits, Open(i)
      PROVE  TypeOK'
    BY <1>18, MessageTypes, ConsoleAssumption DEF Open, services, server, TypeOK
<1>19. ASSUME NEW i \in Visits, Refused(i)
      PROVE  TypeOK'
    <2>1. ASSUME NEW j \in Visits
          PROVE  /\ handler'[j] # None => socket'[j] \in {"open", "cut"}
                 /\ timer'[j] => socket'[j] = "closed"
        BY <1>19, MessageTypes DEF Refused, services, server, TypeOK
    <2> QED
        BY <1>19, <2>1, FaultTypes DEF Refused, services, server, TypeOK
<1>20. ASSUME NEW i \in Visits, HeartbeatTimeout(i)
      PROVE  TypeOK'
    BY <1>20, MessageTypes DEF HeartbeatTimeout, Close, Silent, services, server, TypeOK
<1>21. ASSUME NEW i \in Visits, OnClose(i)
      PROVE  TypeOK'
    <2>1. ASSUME NEW j \in Visits
          PROVE  /\ handler'[j] # None => socket'[j] \in {"open", "cut"}
                 /\ timer'[j] => socket'[j] = "closed"
        BY <1>21, MessageTypes DEF OnClose, services, server, TypeOK
    <2>2. retries' \in [Visits -> 0 .. MaxRetries] /\ timer' \in [Visits -> BOOLEAN]
        <3>1. CASE retries[i] < MaxRetries
            <4>1. retries \in [Visits -> 0 .. MaxRetries] /\ timer \in [Visits -> BOOLEAN]
                BY DEF TypeOK
            <4>2. retries[i] + 1 \in 0 .. MaxRetries
                BY <3>1, <4>1, ConsoleAssumption
            <4>3. /\ retries' = [retries EXCEPT ![i] = retries[i] + 1]
                  /\ timer' = [timer EXCEPT ![i] = TRUE]
                BY <1>21, <3>1 DEF OnClose
            <4> QED
                BY <4>1, <4>2, <4>3
        <3>2. CASE ~(retries[i] < MaxRetries)
            BY <1>21, <3>2 DEF OnClose, TypeOK
        <3> QED
            BY <3>1, <3>2
    <2> QED
        BY <1>21, <2>1, <2>2 DEF OnClose, services, server, TypeOK
<1>22. ASSUME NEW i \in Visits, Reconnect(i)
      PROVE  TypeOK'
    BY <1>22 DEF Reconnect, services, server, TypeOK
<1>23. ASSUME NEW i \in Visits, Receive(i)
      PROVE  TypeOK'
    <2>1. inbox' \in [Visits -> Seq(Message)] /\ Head(inbox[i]) \in Message
        BY <1>23 DEF Receive, TypeOK
    <2>2. view' \in [Missions -> Shown] /\ excused' \in [Missions -> BOOLEAN]
        <3>1. CASE Head(inbox[i]).type = "snapshot"
            BY <1>23, <2>1, <3>1, MessageCases DEF Receive, ApplySnapshot, TypeOK, Shown
        <3>2. CASE Head(inbox[i]).type # "snapshot"
            <4>1. Head(inbox[i]).event.to \in Shown
                BY <2>1, <3>2, MessageCases DEF Event, Shown, Statuses
            <4> QED
                BY <1>23, <3>2, <4>1 DEF Receive, ApplyEvent, TypeOK
        <3> QED
            BY <3>1, <3>2
    <2> QED
        BY <1>23, <2>1, <2>2 DEF Receive, services, server, client, TypeOK
<1>24. ASSUME NEW m \in Missions, Upsert(m)
      PROVE  TypeOK'
    BY <1>24 DEF Upsert, ExcuseIf, server, client, TypeOK, Shown, Statuses, Announced
<1>25. CASE StoreAnswer
    <2>1. CASE \E i \in Visits : Cleanup(i)
        BY <1>25, <2>1, CleanupTypes DEF StoreAnswer, services, server, TypeOK, Shown
    <2>2. CASE UNCHANGED <<phase, socket, timer, handler, inbox>>
        BY <1>25, <2>2 DEF StoreAnswer, services, server, TypeOK, Shown
    <2> QED
        BY <1>25, <2>1, <2>2 DEF StoreAnswer
<1>26. CASE UNCHANGED vars
    BY <1>26 DEF vars, services, server, client, TypeOK
<1> QED
    BY <1>1, <1>2, <1>3, <1>4, <1>5, <1>6, <1>7, <1>8, <1>9, <1>10, <1>11, <1>12,
       <1>13, <1>14, <1>15, <1>16, <1>17, <1>18, <1>19, <1>20, <1>21, <1>22, <1>23,
       <1>24, <1>25, <1>26
    DEF Next, Services, Gateway, Browser

\* The hook's cleanup closes a socket, and leaves no page before it or after it.
LEMMA CleanupSocketInv ==
    ASSUME TypeOK, SocketInv, NEW i \in Visits, Cleanup(i), UNCHANGED server
    PROVE  SocketInv'
<1> USE DEF SocketInv
<1>1. /\ phase'[i] \in {"left", "abandoned"}
      /\ \A j \in Visits : j # i => phase'[j] = phase[j]
    BY DEF Cleanup, TypeOK
<1>2. \A j \in Visits : \/ socket'[j] = socket[j] /\ handler'[j] = handler[j]
                        \/ j = i /\ socket'[j] = "closing"
    <2>1. CASE Live(i)
        BY <2>1 DEF Cleanup, Close, TypeOK
    <2>2. CASE ~Live(i)
        BY <2>2 DEF Cleanup
    <2> QED
        BY <2>1, <2>2
<1>3. phase[i] = "mounted"
    BY DEF Cleanup
<1>4. ASSUME NEW j \in Visits, phase'[j] # "new", NEW k \in 1 .. j - 1
      PROVE  phase'[k] \in {"left", "abandoned"}
    BY <1>1, <1>3, <1>4, ConsoleAssumption DEF Visits
<1> QED
    BY <1>1, <1>2, <1>3, <1>4 DEF server

\* An open socket has a handler of a gateway that is up, a hook that is not mounted
\* yet has no socket, visits follow each other, and what has no push loop has nothing
\* to push.
LEMMA StepSocketInv ==
    ASSUME TypeOK, SocketInv, [Next]_vars
    PROVE  SocketInv'
<1> USE DEF SocketInv
<1>1. ASSUME NEW m \in Missions, Insert(m)
      PROVE  SocketInv'
    BY <1>1 DEF Insert, Announce, Write, server, client
<1>2. ASSUME NEW m \in Missions, Start(m)
      PROVE  SocketInv'
    BY <1>2 DEF Start, Announce, Write, server, client
<1>3. ASSUME NEW m \in Missions, End(m)
      PROVE  SocketInv'
    BY <1>3 DEF End, Announce, Write, server, client
<1>4. ASSUME NEW m \in Missions, Cancel(m)
      PROVE  SocketInv'
    BY <1>4 DEF Cancel, Announce, Write, server, client
<1>5. ASSUME NEW e \in Event, Publish(e)
      PROVE  SocketInv'
    BY <1>5 DEF Publish, client
<1>6. ASSUME NEW e \in Event, LoseEvent(e)
      PROVE  SocketInv'
    BY <1>6 DEF LoseEvent, server, client
<1>7. CASE TakeEvent
    BY <1>7 DEF TakeEvent, client
<1>8. CASE PushEnds
    BY <1>8 DEF PushEnds, client
<1>9. CASE Crash
    BY <1>9 DEF Crash, client, TypeOK
<1>10. CASE Restart
    BY <1>10 DEF Restart, client
<1>11. ASSUME NEW i \in Visits, ReadMissions(i)
      PROVE  SocketInv'
    <2>1. Read(status) # None /\ Read([m \in Missions |-> "absent"]) # None
        BY DEF Read, None
    <2> QED
        BY <1>11, <2>1 DEF ReadMissions, server, client, TypeOK
<1>12. ASSUME NEW i \in Visits, SendSnapshot(i)
      PROVE  SocketInv'
    BY <1>12, MessageTypes DEF SendSnapshot, server, client, TypeOK
<1>13. ASSUME NEW i \in Visits, HandlerFails(i)
      PROVE  SocketInv'
    BY <1>13 DEF HandlerFails, server, TypeOK
<1>14. ASSUME NEW i \in Visits, CutLink(i)
      PROVE  SocketInv'
    BY <1>14 DEF CutLink, server, TypeOK
<1>15. ASSUME NEW i \in Visits, NEW e \in Event, Broadcast(i, e)
      PROVE  SocketInv'
    BY <1>15 DEF Broadcast, client
<1>16. ASSUME NEW i \in Visits, Mount(i)
      PROVE  SocketInv'
    BY <1>16 DEF Mount, server, TypeOK
<1>17. ASSUME NEW i \in Visits, Unmount(i)
      PROVE  SocketInv'
    BY <1>17, CleanupSocketInv DEF Unmount
<1>18. ASSUME NEW i \in Visits, Open(i)
      PROVE  SocketInv'
    BY <1>18, MessageTypes DEF Open, server, TypeOK
<1>19. ASSUME NEW i \in Visits, Refused(i)
      PROVE  SocketInv'
    BY <1>19 DEF Refused, server, TypeOK
<1>20. ASSUME NEW i \in Visits, HeartbeatTimeout(i)
      PROVE  SocketInv'
    BY <1>20 DEF HeartbeatTimeout, Close, Silent, server, TypeOK
<1>21. ASSUME NEW i \in Visits, OnClose(i)
      PROVE  SocketInv'
    BY <1>21 DEF OnClose, server, TypeOK
<1>22. ASSUME NEW i \in Visits, Reconnect(i)
      PROVE  SocketInv'
    BY <1>22 DEF Reconnect, server, TypeOK
<1>23. ASSUME NEW i \in Visits, Receive(i)
      PROVE  SocketInv'
    BY <1>23 DEF Receive, server, client
<1>24. ASSUME NEW m \in Missions, Upsert(m)
      PROVE  SocketInv'
    BY <1>24 DEF Upsert, server, client
<1>25. CASE StoreAnswer
    <2>1. CASE \E i \in Visits : Cleanup(i)
        BY <1>25, <2>1, CleanupSocketInv DEF StoreAnswer
    <2>2. CASE UNCHANGED <<phase, socket, timer, handler, inbox>>
        BY <1>25, <2>2 DEF StoreAnswer, server
    <2> QED
        BY <1>25, <2>1, <2>2 DEF StoreAnswer
<1>26. CASE UNCHANGED vars
    BY <1>26 DEF vars, server, client
<1> QED
    BY <1>1, <1>2, <1>3, <1>4, <1>5, <1>6, <1>7, <1>8, <1>9, <1>10, <1>11, <1>12,
       <1>13, <1>14, <1>15, <1>16, <1>17, <1>18, <1>19, <1>20, <1>21, <1>22, <1>23,
       <1>24, <1>25, <1>26
    DEF Next, Services, Gateway, Browser

\* What is left behind stays closed, because only a timer opens a socket again.
LEMMA StepCleanUnmount ==
    ASSUME TypeOK, SocketInv, CleanUnmount, [Next]_vars
    PROVE  CleanUnmount'
<1> USE DEF CleanUnmount, Live
<1>1. ASSUME NEW m \in Missions, Insert(m)
      PROVE  CleanUnmount'
    BY <1>1 DEF Insert, Announce, Write, client
<1>2. ASSUME NEW m \in Missions, Start(m)
      PROVE  CleanUnmount'
    BY <1>2 DEF Start, Announce, Write, client
<1>3. ASSUME NEW m \in Missions, End(m)
      PROVE  CleanUnmount'
    BY <1>3 DEF End, Announce, Write, client
<1>4. ASSUME NEW m \in Missions, Cancel(m)
      PROVE  CleanUnmount'
    BY <1>4 DEF Cancel, Announce, Write, client
<1>5. ASSUME NEW e \in Event, Publish(e)
      PROVE  CleanUnmount'
    BY <1>5 DEF Publish, client
<1>6. ASSUME NEW e \in Event, LoseEvent(e)
      PROVE  CleanUnmount'
    BY <1>6 DEF LoseEvent, client
<1>7. CASE TakeEvent
    BY <1>7 DEF TakeEvent, client
<1>8. CASE PushEnds
    BY <1>8 DEF PushEnds, client
<1>9. CASE Crash
    BY <1>9 DEF Crash, TypeOK
<1>10. CASE Restart
    BY <1>10 DEF Restart, client
<1>11. ASSUME NEW i \in Visits, ReadMissions(i)
      PROVE  CleanUnmount'
    BY <1>11 DEF ReadMissions, client
<1>12. ASSUME NEW i \in Visits, SendSnapshot(i)
      PROVE  CleanUnmount'
    BY <1>12 DEF SendSnapshot, client
<1>13. ASSUME NEW i \in Visits, HandlerFails(i)
      PROVE  CleanUnmount'
    BY <1>13 DEF HandlerFails, TypeOK
<1>14. ASSUME NEW i \in Visits, CutLink(i)
      PROVE  CleanUnmount'
    BY <1>14 DEF CutLink, TypeOK
<1>15. ASSUME NEW i \in Visits, NEW e \in Event, Broadcast(i, e)
      PROVE  CleanUnmount'
    BY <1>15 DEF Broadcast, client
<1>16. ASSUME NEW i \in Visits, Mount(i)
      PROVE  CleanUnmount'
    BY <1>16 DEF Mount, TypeOK
<1>17. ASSUME NEW i \in Visits, Unmount(i)
      PROVE  CleanUnmount'
    BY <1>17 DEF Unmount, Cleanup, Close, TypeOK
<1>18. ASSUME NEW i \in Visits, Open(i)
      PROVE  CleanUnmount'
    BY <1>18 DEF Open, TypeOK
<1>19. ASSUME NEW i \in Visits, Refused(i)
      PROVE  CleanUnmount'
    BY <1>19 DEF Refused, TypeOK
<1>20. ASSUME NEW i \in Visits, HeartbeatTimeout(i)
      PROVE  CleanUnmount'
    BY <1>20 DEF HeartbeatTimeout, Close, Silent, TypeOK
<1>21. ASSUME NEW i \in Visits, OnClose(i)
      PROVE  CleanUnmount'
    BY <1>21 DEF OnClose, TypeOK
<1>22. ASSUME NEW i \in Visits, Reconnect(i)
      PROVE  CleanUnmount'
    BY <1>22 DEF Reconnect, TypeOK
<1>23. ASSUME NEW i \in Visits, Receive(i)
      PROVE  CleanUnmount'
    BY <1>23 DEF Receive, client
<1>24. ASSUME NEW m \in Missions, Upsert(m)
      PROVE  CleanUnmount'
    BY <1>24 DEF Upsert, client
<1>25. CASE StoreAnswer
    BY <1>25 DEF StoreAnswer, Cleanup, Close, TypeOK
<1>26. CASE UNCHANGED vars
    BY <1>26 DEF vars, client
<1> QED
    BY <1>1, <1>2, <1>3, <1>4, <1>5, <1>6, <1>7, <1>8, <1>9, <1>10, <1>11, <1>12,
       <1>13, <1>14, <1>15, <1>16, <1>17, <1>18, <1>19, <1>20, <1>21, <1>22, <1>23,
       <1>24, <1>25, <1>26
    DEF Next, Services, Gateway, Browser

-----------------------------------------------------------------------------
(* The channel and the inboxes are sequences.                              *)

\* The entries of a sequence that one is appended to.
LEMMA AppendEntries ==
    ASSUME NEW S, NEW s \in Seq(S), NEW x \in S
    PROVE  /\ DOMAIN s = 1 .. Len(s) /\ Len(s) \in Nat
           /\ DOMAIN Append(s, x) = DOMAIN s \cup {Len(s) + 1}
           /\ \A k \in DOMAIN s : Append(s, x)[k] = s[k] /\ k < Len(s) + 1
           /\ Append(s, x)[Len(s) + 1] = x
           /\ Append(s, x) \in Seq(S)
BY AppendProperties, LenProperties

\* The entries of a sequence that loses its first.
LEMMA TailEntries ==
    ASSUME NEW S, NEW s \in Seq(S), s # <<>>
    PROVE  /\ DOMAIN s = 1 .. Len(s) /\ Len(s) \in Nat /\ 1 \in DOMAIN s
           /\ Head(s) = s[1] /\ Head(s) \in S
           /\ Tail(s) \in Seq(S)
           /\ DOMAIN Tail(s) = 1 .. Len(s) - 1
           /\ \A k \in DOMAIN Tail(s) : k + 1 \in DOMAIN s /\ Tail(s)[k] = s[k + 1]
BY HeadTailProperties, LenProperties, EmptySeq, ElementOfSeq

-----------------------------------------------------------------------------
(* Events: who puts them on their way, and how they move.                  *)

\* An event of m is told from a snapshot.
LEMMA SnapshotIsNoEvent ==
    ASSUME NEW e \in Event, NEW rows \in [Missions -> Statuses]
    PROVE  Snapshot(rows) # MissionEvent(e)
BY MessageTypes

\* What is in the inboxes when one of them gets a message, is emptied or read.
LEMMA InboxAppended ==
    ASSUME TypeOK, NEW i \in Visits, NEW msg \in Message,
           inbox' = [inbox EXCEPT ![i] = Append(@, msg)],
           NEW j \in Visits, NEW x, Sent(j, x)'
    PROVE  Sent(j, x) \/ (j = i /\ x = msg)
<1>1. inbox[i] \in Seq(Message) /\ inbox \in [Visits -> Seq(Message)]
    BY DEF TypeOK
<1>2. PICK k \in DOMAIN inbox'[j] : inbox'[j][k] = x
    BY DEF Sent
<1>3. CASE j # i
    BY <1>1, <1>2, <1>3 DEF Sent
<1>4. CASE j = i
    <2>1. inbox'[i] = Append(inbox[i], msg)
        BY <1>1
    <2>2. \/ k \in DOMAIN inbox[i] /\ inbox'[i][k] = inbox[i][k]
          \/ inbox'[i][k] = msg
        BY <1>1, <1>2, <1>4, <2>1, AppendEntries
    <2> QED
        BY <1>2, <1>4, <2>2 DEF Sent
<1> QED
    BY <1>3, <1>4

\* A socket that is cut or closed loses messages.
LEMMA InboxEmptied ==
    ASSUME TypeOK, NEW i \in Visits,
           inbox' = [inbox EXCEPT ![i] = <<>>] \/ inbox' = inbox,
           NEW j \in Visits, NEW x, Sent(j, x)'
    PROVE  Sent(j, x)
<1>1. inbox \in [Visits -> Seq(Message)] /\ DOMAIN <<>> = {}
    BY EmptySeq, LenProperties DEF TypeOK
<1> QED
    BY <1>1 DEF Sent

\* A message that is read leaves the inbox.
LEMMA InboxRead ==
    ASSUME TypeOK, NEW i \in Visits, inbox[i] # <<>>,
           inbox' = [inbox EXCEPT ![i] = Tail(@)],
           NEW j \in Visits, NEW x, Sent(j, x)'
    PROVE  Sent(j, x)
<1>1. inbox[i] \in Seq(Message) /\ inbox \in [Visits -> Seq(Message)]
    BY DEF TypeOK
<1>2. PICK k \in DOMAIN inbox'[j] : inbox'[j][k] = x
    BY DEF Sent
<1>3. CASE j # i
    BY <1>1, <1>2, <1>3 DEF Sent
<1>4. CASE j = i
    <2>1. inbox'[i] = Tail(inbox[i])
        BY <1>1
    <2>2. k + 1 \in DOMAIN inbox[i] /\ inbox'[i][k] = inbox[i][k + 1]
        BY <1>1, <1>2, <1>4, <2>1, TailEntries
    <2> QED
        BY <1>2, <1>4, <2>2 DEF Sent
<1> QED
    BY <1>3, <1>4

\* The answer to the poll empties an inbox at most.
LEMMA AnswerEmpties ==
    ASSUME StoreAnswer
    PROVE  \E i \in Visits :
               /\ inbox' = [inbox EXCEPT ![i] = <<>>] \/ inbox' = inbox
               /\ handler' = [handler EXCEPT ![i] = None] \/ handler' = handler
<1>1. CASE \E i \in Visits : Cleanup(i)
    BY <1>1 DEF Cleanup, Close
<1>2. CASE UNCHANGED <<phase, socket, timer, handler, inbox>>
    BY <1>2 DEF StoreAnswer
<1> QED
    BY <1>1, <1>2 DEF StoreAnswer

\* The event f was under way before, or its row has just been written.
Kept(f) ==
    UnderWay(f)' =>
        \/ UnderWay(f)
        \/ /\ f \in unsent' /\ f.to = status'[f.mission] /\ "insert" \in wrote'[f.mission]
           /\ f.to = "cancelled" => excused'[f.mission]

\* The event that a service announces says what it has just written.
LEMMA AnnounceKept ==
    ASSUME TypeOK, NEW f \in Event, NEW m \in Missions, NEW service, NEW s,
           Announce(m, service, s), s = "cancelled" => excused'[m]
    PROVE  Kept(f)
<1>1. /\ "insert" \in wrote'[m] /\ status'[m] = s
      /\ unsent' = unsent \cup {[mission |-> m, to |-> s]}
      /\ UNCHANGED <<channel, outgoing, inbox>>
    BY DEF Announce, Write, server, TypeOK
<1> QED
    BY <1>1 DEF Kept, UnderWay, Sent

\* Only a service that writes a row puts an event on its way.
LEMMA EventsKept ==
    ASSUME TypeOK, [Next]_vars, NEW f \in Event
    PROVE  Kept(f)
<1>1. ASSUME NEW m \in Missions, Insert(m)
      PROVE  Kept(f)
    BY <1>1 DEF Kept, UnderWay, Insert, Write, server, client, Sent
<1>2. ASSUME NEW m \in Missions, Start(m)
      PROVE  Kept(f)
    BY <1>2, AnnounceKept DEF Start
<1>3. ASSUME NEW m \in Missions, End(m)
      PROVE  Kept(f)
    BY <1>3, AnnounceKept, ConsoleAssumption DEF End
<1>4. ASSUME NEW m \in Missions, Cancel(m)
      PROVE  Kept(f)
    <2>1. excused'[m]
        BY <1>4 DEF Cancel, ExcuseIf, TypeOK
    <2> QED
        BY <1>4, <2>1, AnnounceKept DEF Cancel
<1>5. ASSUME NEW e \in Event, Publish(e)
      PROVE  Kept(f)
    <2>1. \A k \in DOMAIN channel' : channel'[k] = e \/ (k \in DOMAIN channel /\ channel'[k] = channel[k])
        BY <1>5, AppendEntries DEF Kept, UnderWay, Publish, TypeOK
    <2> QED
        BY <1>5, <2>1 DEF Kept, UnderWay, Publish, client, Sent
<1>6. ASSUME NEW e \in Event, LoseEvent(e)
      PROVE  Kept(f)
    BY <1>6 DEF Kept, UnderWay, LoseEvent, server, client, Sent
<1>7. CASE TakeEvent
    <2>1. /\ \A k \in DOMAIN channel' : k + 1 \in DOMAIN channel /\ channel'[k] = channel[k + 1]
          /\ Head(channel) = channel[1] /\ 1 \in DOMAIN channel
        BY <1>7, TailEntries DEF Kept, UnderWay, TakeEvent, TypeOK
    <2> QED
        BY <1>7, <2>1 DEF Kept, UnderWay, TakeEvent, services, client, Sent
<1>8. CASE PushEnds
    BY <1>8 DEF Kept, UnderWay, PushEnds, services, client, Sent
<1>9. CASE Crash
    BY <1>9 DEF Kept, UnderWay, Crash, client, TypeOK, Sent
<1>10. CASE Restart
    BY <1>10 DEF Kept, UnderWay, Restart, services, client, Sent
<1>11. ASSUME NEW i \in Visits, ReadMissions(i)
      PROVE  Kept(f)
    BY <1>11 DEF Kept, UnderWay, ReadMissions, services, server, client, Sent
<1>12. ASSUME NEW i \in Visits, SendSnapshot(i)
      PROVE  Kept(f)
    <2>1. handler[i].missions \in [Missions -> Statuses]
        BY <1>12, HandlerCases DEF Kept, UnderWay, SendSnapshot, TypeOK
    <2> QED
        <3>1. CASE socket[i] = "open"
            BY <1>12, <2>1, <3>1, InboxAppended, SnapshotIsNoEvent, MessageTypes
            DEF Kept, UnderWay, SendSnapshot, services, server, client
        <3>2. CASE socket[i] # "open"
            BY <1>12, <3>2 DEF Kept, UnderWay, SendSnapshot, services, server, client, Sent
        <3> QED
            BY <3>1, <3>2
<1>13. ASSUME NEW i \in Visits, HandlerFails(i)
      PROVE  Kept(f)
    BY <1>13, InboxEmptied DEF Kept, UnderWay, HandlerFails, services, server
<1>14. ASSUME NEW i \in Visits, CutLink(i)
      PROVE  Kept(f)
    BY <1>14, InboxEmptied DEF Kept, UnderWay, CutLink, services, server
<1>15. ASSUME NEW i \in Visits, NEW e \in Event, Broadcast(i, e)
      PROVE  Kept(f)
    <2>1. MissionEvent(e) \in Message /\ (MissionEvent(f) = MissionEvent(e) => f = e)
        BY MessageTypes
    <2>2. /\ <<i, e>> \in outgoing /\ outgoing' \subseteq outgoing
          /\ UNCHANGED <<unsent, channel>>
        BY <1>15 DEF Broadcast, services
    <2>3. CASE handler[i] # None /\ socket[i] = "open"
        <3>1. inbox' = [inbox EXCEPT ![i] = Append(inbox[i], MissionEvent(e))]
            BY <1>15, <2>3 DEF Broadcast
        <3> QED
            BY <2>1, <2>2, <3>1, InboxAppended DEF Kept, UnderWay
    <2>4. CASE ~(handler[i] # None /\ socket[i] = "open")
        <3>1. inbox' = inbox
            BY <1>15, <2>4 DEF Broadcast
        <3> QED
            BY <2>2, <3>1 DEF Kept, UnderWay, Sent
    <2> QED
        BY <2>3, <2>4
<1>16. ASSUME NEW i \in Visits, Mount(i)
      PROVE  Kept(f)
    BY <1>16 DEF Kept, UnderWay, Mount, services, server, Sent
<1>17. ASSUME NEW i \in Visits, Unmount(i)
      PROVE  Kept(f)
    BY <1>17, InboxEmptied DEF Kept, UnderWay, Unmount, Cleanup, Close, services, server
<1>18. ASSUME NEW i \in Visits, Open(i)
      PROVE  Kept(f)
    BY <1>18 DEF Kept, UnderWay, Open, services, server, Sent
<1>19. ASSUME NEW i \in Visits, Refused(i)
      PROVE  Kept(f)
    BY <1>19 DEF Kept, UnderWay, Refused, services, server, Sent
<1>20. ASSUME NEW i \in Visits, HeartbeatTimeout(i)
      PROVE  Kept(f)
    BY <1>20, InboxEmptied DEF Kept, UnderWay, HeartbeatTimeout, Close, services, server
<1>21. ASSUME NEW i \in Visits, OnClose(i)
      PROVE  Kept(f)
    BY <1>21 DEF Kept, UnderWay, OnClose, services, server, Sent
<1>22. ASSUME NEW i \in Visits, Reconnect(i)
      PROVE  Kept(f)
    BY <1>22 DEF Kept, UnderWay, Reconnect, services, server, Sent
<1>23. ASSUME NEW i \in Visits, Receive(i)
      PROVE  Kept(f)
    BY <1>23, InboxRead DEF Kept, UnderWay, Receive, services, server
<1>24. ASSUME NEW m \in Missions, Upsert(m)
      PROVE  Kept(f)
    BY <1>24 DEF Kept, UnderWay, Upsert, server, Sent
<1>25. CASE StoreAnswer
    <2>1. PICK i \in Visits : inbox' = [inbox EXCEPT ![i] = <<>>] \/ inbox' = inbox
        BY <1>25, AnswerEmpties
    <2> QED
        BY <1>25, <2>1, InboxEmptied DEF Kept, UnderWay, StoreAnswer, services, server
<1>26. CASE UNCHANGED vars
    BY <1>26 DEF Kept, UnderWay, vars, services, server, client, Sent
<1> QED
    BY <1>1, <1>2, <1>3, <1>4, <1>5, <1>6, <1>7, <1>8, <1>9, <1>10, <1>11, <1>12,
       <1>13, <1>14, <1>15, <1>16, <1>17, <1>18, <1>19, <1>20, <1>21, <1>22, <1>23,
       <1>24, <1>25, <1>26
    DEF Next, Services, Gateway, Browser

\* What is written stays so; a crash aborts requests, and undoes nothing.
LEMMA WroteGrows ==
    ASSUME TypeOK, [Next]_vars, NEW n \in Missions
    PROVE  wrote[n] \subseteq wrote'[n]
<1>1. ASSUME NEW m \in Missions, Insert(m)
      PROVE  wrote[n] \subseteq wrote'[n]
    BY <1>1 DEF Insert, Write, TypeOK
<1>2. ASSUME NEW m \in Missions, Start(m)
      PROVE  wrote[n] \subseteq wrote'[n]
    BY <1>2 DEF Start, Announce, Write, TypeOK
<1>3. ASSUME NEW m \in Missions, End(m)
      PROVE  wrote[n] \subseteq wrote'[n]
    BY <1>3 DEF End, Announce, Write, TypeOK
<1>4. ASSUME NEW m \in Missions, Cancel(m)
      PROVE  wrote[n] \subseteq wrote'[n]
    BY <1>4 DEF Cancel, Announce, Write, TypeOK
<1>5. ASSUME NEW e \in Event, Publish(e)
      PROVE  wrote[n] \subseteq wrote'[n]
    BY <1>5 DEF Publish
<1>6. ASSUME NEW e \in Event, LoseEvent(e)
      PROVE  wrote[n] \subseteq wrote'[n]
    BY <1>6 DEF LoseEvent
<1>7. CASE TakeEvent
    BY <1>7 DEF TakeEvent, services
<1>8. CASE PushEnds
    BY <1>8 DEF PushEnds, services
<1>9. CASE Crash
    BY <1>9 DEF Crash, TypeOK
<1>10. CASE Restart
    BY <1>10 DEF Restart, services
<1>11. ASSUME NEW i \in Visits, ReadMissions(i)
      PROVE  wrote[n] \subseteq wrote'[n]
    BY <1>11 DEF ReadMissions, services
<1>12. ASSUME NEW i \in Visits, SendSnapshot(i)
      PROVE  wrote[n] \subseteq wrote'[n]
    BY <1>12 DEF SendSnapshot, services
<1>13. ASSUME NEW i \in Visits, HandlerFails(i)
      PROVE  wrote[n] \subseteq wrote'[n]
    BY <1>13 DEF HandlerFails, services
<1>14. ASSUME NEW i \in Visits, CutLink(i)
      PROVE  wrote[n] \subseteq wrote'[n]
    BY <1>14 DEF CutLink, services
<1>15. ASSUME NEW i \in Visits, NEW e \in Event, Broadcast(i, e)
      PROVE  wrote[n] \subseteq wrote'[n]
    BY <1>15 DEF Broadcast, services
<1>16. ASSUME NEW i \in Visits, Mount(i)
      PROVE  wrote[n] \subseteq wrote'[n]
    BY <1>16 DEF Mount, services
<1>17. ASSUME NEW i \in Visits, Unmount(i)
      PROVE  wrote[n] \subseteq wrote'[n]
    BY <1>17 DEF Unmount, services
<1>18. ASSUME NEW i \in Visits, Open(i)
      PROVE  wrote[n] \subseteq wrote'[n]
    BY <1>18 DEF Open, services
<1>19. ASSUME NEW i \in Visits, Refused(i)
      PROVE  wrote[n] \subseteq wrote'[n]
    BY <1>19 DEF Refused, services
<1>20. ASSUME NEW i \in Visits, HeartbeatTimeout(i)
      PROVE  wrote[n] \subseteq wrote'[n]
    BY <1>20 DEF HeartbeatTimeout, services
<1>21. ASSUME NEW i \in Visits, OnClose(i)
      PROVE  wrote[n] \subseteq wrote'[n]
    BY <1>21 DEF OnClose, services
<1>22. ASSUME NEW i \in Visits, Reconnect(i)
      PROVE  wrote[n] \subseteq wrote'[n]
    BY <1>22 DEF Reconnect, services
<1>23. ASSUME NEW i \in Visits, Receive(i)
      PROVE  wrote[n] \subseteq wrote'[n]
    BY <1>23 DEF Receive, services
<1>24. ASSUME NEW m \in Missions, Upsert(m)
      PROVE  wrote[n] \subseteq wrote'[n]
    BY <1>24 DEF Upsert
<1>25. CASE StoreAnswer
    BY <1>25 DEF StoreAnswer, services
<1>26. CASE UNCHANGED vars
    BY <1>26 DEF vars, services
<1> QED
    BY <1>1, <1>2, <1>3, <1>4, <1>5, <1>6, <1>7, <1>8, <1>9, <1>10, <1>11, <1>12,
       <1>13, <1>14, <1>15, <1>16, <1>17, <1>18, <1>19, <1>20, <1>21, <1>22, <1>23,
       <1>24, <1>25, <1>26
    DEF Next, Services, Gateway, Browser

\* A mission is not excused any more only when a snapshot that is right about it is
\* the last to arrive.
LEMMA ExcusedStays ==
    ASSUME TypeOK, [Next]_vars, NEW n \in Missions, excused[n], ~excused'[n]
    PROVE  Quiet(n)' /\ \E k \in Visits : Receive(k) /\ view'[n] = status'[n]
<1>1. ASSUME NEW m \in Missions, Insert(m)
      PROVE  Quiet(n)' /\ \E k \in Visits : Receive(k) /\ view'[n] = status'[n]
    BY <1>1 DEF Insert
<1>2. ASSUME NEW m \in Missions, Start(m)
      PROVE  Quiet(n)' /\ \E k \in Visits : Receive(k) /\ view'[n] = status'[n]
    BY <1>2 DEF Start
<1>3. ASSUME NEW m \in Missions, End(m)
      PROVE  Quiet(n)' /\ \E k \in Visits : Receive(k) /\ view'[n] = status'[n]
    BY <1>3 DEF End
<1>4. ASSUME NEW m \in Missions, Cancel(m)
      PROVE  Quiet(n)' /\ \E k \in Visits : Receive(k) /\ view'[n] = status'[n]
    BY <1>4 DEF Cancel, ExcuseIf, TypeOK
<1>5. ASSUME NEW e \in Event, Publish(e)
      PROVE  Quiet(n)' /\ \E k \in Visits : Receive(k) /\ view'[n] = status'[n]
    BY <1>5 DEF Publish, ExcuseIf, TypeOK
<1>6. ASSUME NEW e \in Event, LoseEvent(e)
      PROVE  Quiet(n)' /\ \E k \in Visits : Receive(k) /\ view'[n] = status'[n]
    BY <1>6 DEF LoseEvent, ExcuseIf, TypeOK
<1>7. CASE TakeEvent
    BY <1>7 DEF TakeEvent
<1>8. CASE PushEnds
    BY <1>8 DEF PushEnds
<1>9. CASE Crash
    BY <1>9 DEF Crash
<1>10. CASE Restart
    BY <1>10 DEF Restart
<1>11. ASSUME NEW i \in Visits, ReadMissions(i)
      PROVE  Quiet(n)' /\ \E k \in Visits : Receive(k) /\ view'[n] = status'[n]
    BY <1>11 DEF ReadMissions
<1>12. ASSUME NEW i \in Visits, SendSnapshot(i)
      PROVE  Quiet(n)' /\ \E k \in Visits : Receive(k) /\ view'[n] = status'[n]
    BY <1>12 DEF SendSnapshot
<1>13. ASSUME NEW i \in Visits, HandlerFails(i)
      PROVE  Quiet(n)' /\ \E k \in Visits : Receive(k) /\ view'[n] = status'[n]
    BY <1>13 DEF HandlerFails
<1>14. ASSUME NEW i \in Visits, CutLink(i)
      PROVE  Quiet(n)' /\ \E k \in Visits : Receive(k) /\ view'[n] = status'[n]
    BY <1>14 DEF CutLink
<1>15. ASSUME NEW i \in Visits, NEW e \in Event, Broadcast(i, e)
      PROVE  Quiet(n)' /\ \E k \in Visits : Receive(k) /\ view'[n] = status'[n]
    BY <1>15 DEF Broadcast, ExcuseIf, TypeOK
<1>16. ASSUME NEW i \in Visits, Mount(i)
      PROVE  Quiet(n)' /\ \E k \in Visits : Receive(k) /\ view'[n] = status'[n]
    BY <1>16 DEF Mount
<1>17. ASSUME NEW i \in Visits, Unmount(i)
      PROVE  Quiet(n)' /\ \E k \in Visits : Receive(k) /\ view'[n] = status'[n]
    BY <1>17 DEF Unmount
<1>18. ASSUME NEW i \in Visits, Open(i)
      PROVE  Quiet(n)' /\ \E k \in Visits : Receive(k) /\ view'[n] = status'[n]
    BY <1>18 DEF Open
<1>19. ASSUME NEW i \in Visits, Refused(i)
      PROVE  Quiet(n)' /\ \E k \in Visits : Receive(k) /\ view'[n] = status'[n]
    BY <1>19 DEF Refused
<1>20. ASSUME NEW i \in Visits, HeartbeatTimeout(i)
      PROVE  Quiet(n)' /\ \E k \in Visits : Receive(k) /\ view'[n] = status'[n]
    BY <1>20 DEF HeartbeatTimeout
<1>21. ASSUME NEW i \in Visits, OnClose(i)
      PROVE  Quiet(n)' /\ \E k \in Visits : Receive(k) /\ view'[n] = status'[n]
    BY <1>21 DEF OnClose
<1>22. ASSUME NEW i \in Visits, Reconnect(i)
      PROVE  Quiet(n)' /\ \E k \in Visits : Receive(k) /\ view'[n] = status'[n]
    BY <1>22 DEF Reconnect
<1>23. ASSUME NEW i \in Visits, Receive(i)
      PROVE  Quiet(n)' /\ \E k \in Visits : Receive(k) /\ view'[n] = status'[n]
    <2>1. status' = status
        BY <1>23 DEF Receive, services
    <2>2. Head(inbox[i]).type = "snapshot" /\ ApplySnapshot(Head(inbox[i]).missions)
        BY <1>23 DEF Receive, ApplyEvent
    <2>3. view'[n] = status[n] /\ Quiet(n)'
        BY <2>2 DEF ApplySnapshot
    <2> QED
        BY <1>23, <2>1, <2>3
<1>24. ASSUME NEW m \in Missions, Upsert(m)
      PROVE  Quiet(n)' /\ \E k \in Visits : Receive(k) /\ view'[n] = status'[n]
    BY <1>24 DEF Upsert, ExcuseIf, TypeOK
<1>25. CASE StoreAnswer
    BY <1>25 DEF StoreAnswer
<1>26. CASE UNCHANGED vars
    BY <1>26 DEF vars
<1> QED
    BY <1>1, <1>2, <1>3, <1>4, <1>5, <1>6, <1>7, <1>8, <1>9, <1>10, <1>11, <1>12,
       <1>13, <1>14, <1>15, <1>16, <1>17, <1>18, <1>19, <1>20, <1>21, <1>22, <1>23,
       <1>24, <1>25, <1>26
    DEF Next, Services, Gateway, Browser

\* Nothing under way is about a mission that is quiet.
LEMMA QuietNext ==
    ASSUME NEW f \in Event, Quiet(f.mission)'
    PROVE  ~UnderWay(f)'
<1>1. \A i \in Visits : inbox'[i] = <<>> /\ DOMAIN <<>> = {}
    BY EmptySeq, LenProperties DEF Quiet
<1> QED
    BY <1>1 DEF Quiet, UnderWay, Sent

\* Every action keeps EventInv: a cancellation excuses its mission until it has arrived.
LEMMA StepEventInv ==
    ASSUME TypeOK, EventInv, [Next]_vars
    PROVE  EventInv'
<1> SUFFICES ASSUME NEW f \in Event, UnderWay(f)'
             PROVE  /\ "insert" \in wrote'[f.mission]
                    /\ f.to = "cancelled" => excused'[f.mission]
    BY DEF EventInv
<1>1. f.mission \in Missions
    BY DEF Event
<1>2. CASE UnderWay(f)
    <2>1. "insert" \in wrote'[f.mission]
        BY <1>1, <1>2, WroteGrows DEF EventInv
    <2>2. ASSUME f.to = "cancelled"
          PROVE  excused'[f.mission]
        <3>1. excused[f.mission]
            BY <1>2, <2>2 DEF EventInv
        <3>2. ASSUME ~excused'[f.mission]
              PROVE  FALSE
            <4>1. Quiet(f.mission)'
                BY <1>1, <3>1, <3>2, ExcusedStays
            <4> QED
                BY <4>1, QuietNext
        <3> QED
            BY <3>2
    <2> QED
        BY <2>1, <2>2
<1>3. CASE ~UnderWay(f)
    BY <1>3, EventsKept DEF Kept
<1> QED
    BY <1>2, <1>3

-----------------------------------------------------------------------------
(* The list: where there is none, no page shows it.                        *)

\* Every action keeps ListInv.
LEMMA StepListInv ==
    ASSUME TypeOK, SocketInv, ListInv, [Next]_vars
    PROVE  ListInv'
<1> USE DEF ListInv
<1>1. ASSUME NEW m \in Missions, Insert(m)
      PROVE  ListInv'
    BY <1>1 DEF Insert, Write, client
<1>2. ASSUME NEW m \in Missions, Start(m)
      PROVE  ListInv'
    BY <1>2 DEF Start, Announce, Write, client
<1>3. ASSUME NEW m \in Missions, End(m)
      PROVE  ListInv'
    BY <1>3 DEF End, Announce, Write, client
<1>4. ASSUME NEW m \in Missions, Cancel(m)
      PROVE  ListInv'
    BY <1>4 DEF Cancel, Announce, Write, client
<1>5. ASSUME NEW e \in Event, Publish(e)
      PROVE  ListInv'
    BY <1>5 DEF Publish, client
<1>6. ASSUME NEW e \in Event, LoseEvent(e)
      PROVE  ListInv'
    BY <1>6 DEF LoseEvent, client
<1>7. CASE TakeEvent
    BY <1>7 DEF TakeEvent, client
<1>8. CASE PushEnds
    BY <1>8 DEF PushEnds, client
<1>9. CASE Crash
    BY <1>9 DEF Crash
<1>10. CASE Restart
    BY <1>10 DEF Restart, client
<1>11. ASSUME NEW i \in Visits, ReadMissions(i)
      PROVE  ListInv'
    BY <1>11 DEF ReadMissions, client
<1>12. ASSUME NEW i \in Visits, SendSnapshot(i)
      PROVE  ListInv'
    BY <1>12 DEF SendSnapshot, client
<1>13. ASSUME NEW i \in Visits, HandlerFails(i)
      PROVE  ListInv'
    BY <1>13 DEF HandlerFails
<1>14. ASSUME NEW i \in Visits, CutLink(i)
      PROVE  ListInv'
    BY <1>14 DEF CutLink
<1>15. ASSUME NEW i \in Visits, NEW e \in Event, Broadcast(i, e)
      PROVE  ListInv'
    BY <1>15 DEF Broadcast, client
<1>16. ASSUME NEW i \in Visits, Mount(i)
      PROVE  ListInv'
    BY <1>16 DEF Mount
<1>17. ASSUME NEW i \in Visits, Unmount(i)
      PROVE  ListInv'
    BY <1>17 DEF Unmount, Cleanup, TypeOK
<1>18. ASSUME NEW i \in Visits, Open(i)
      PROVE  ListInv'
    BY <1>18 DEF Open
<1>19. ASSUME NEW i \in Visits, Refused(i)
      PROVE  ListInv'
    BY <1>19 DEF Refused
<1>20. ASSUME NEW i \in Visits, HeartbeatTimeout(i)
      PROVE  ListInv'
    BY <1>20 DEF HeartbeatTimeout
<1>21. ASSUME NEW i \in Visits, OnClose(i)
      PROVE  ListInv'
    BY <1>21 DEF OnClose
<1>22. ASSUME NEW i \in Visits, Reconnect(i)
      PROVE  ListInv'
    BY <1>22 DEF Reconnect
<1>23. ASSUME NEW i \in Visits, Receive(i)
      PROVE  ListInv'
    <2>1. Head(inbox[i]) \in Message
        BY <1>23 DEF Receive, TypeOK
    <2>2. \A m \in Missions : view'[m] = "garbled" => view[m] = "garbled"
        BY <1>23, <2>1, MessageCases
        DEF Receive, ApplySnapshot, ApplyEvent, TypeOK, Event, Statuses, Announced
    <2> QED
        BY <1>23, <2>2 DEF Receive, client
<1>24. ASSUME NEW m \in Missions, Upsert(m)
      PROVE  ListInv'
    BY <1>24 DEF Upsert, client, TypeOK
<1>25. CASE StoreAnswer
    <2>1. CASE \E i \in Visits : Cleanup(i)
        <3>1. PICK i \in Visits : Cleanup(i)
            BY <2>1
        <3>2. \A j \in Visits : phase[j] = "mounted" => j = i
            <4>1. ASSUME NEW j \in Visits, phase[j] = "mounted"
                  PROVE  ~(i < j) /\ ~(j < i)
                BY <3>1, <4>1, ConsoleAssumption DEF Cleanup, SocketInv, Visits
            <4> QED
                BY <4>1, ConsoleAssumption DEF Visits
        <3> QED
            BY <1>25, <3>1, <3>2 DEF StoreAnswer, Cleanup, TypeOK
    <2>2. CASE (\A i \in Visits : phase[i] # "mounted") /\ UNCHANGED phase
        BY <1>25, <2>2 DEF StoreAnswer
    <2> QED
        BY <1>25, <2>1, <2>2 DEF StoreAnswer
<1>26. CASE UNCHANGED vars
    BY <1>26 DEF vars, client
<1> QED
    BY <1>1, <1>2, <1>3, <1>4, <1>5, <1>6, <1>7, <1>8, <1>9, <1>10, <1>11, <1>12,
       <1>13, <1>14, <1>15, <1>16, <1>17, <1>18, <1>19, <1>20, <1>21, <1>22, <1>23,
       <1>24, <1>25, <1>26
    DEF Next, Services, Gateway, Browser

-----------------------------------------------------------------------------
(* Rows: nobody knows of one before it is inserted.                        *)

\* What RowInv says of a mission, in terms of what has been sent.
Unread(n) ==
    /\ status[n] = "absent" /\ view[n] \in {"absent", "garbled"} /\ form[n] = "none"
    /\ \A i \in Visits :
        /\ handler[i].pc = "read" => handler[i].missions[n] = "absent"
        /\ \A msg : Sent(i, msg) /\ msg.type = "snapshot" => msg.missions[n] = "absent"

\* RowInv in these terms.
LEMMA RowsUnread == RowInv <=> \A n \in Missions : "insert" \notin wrote[n] => Unread(n)
BY DEF RowInv, Unread, Sent

\* No step but the insert of its row tells of a mission that is not inserted.
LEMMA StaysUnread ==
    ASSUME TypeOK, [Next]_vars, NEW n \in Missions, "insert" \notin wrote'[n], Unread(n)
    PROVE  Unread(n)'
<1>1. ASSUME NEW m \in Missions, Insert(m)
      PROVE  Unread(n)'
    BY <1>1 DEF Unread, Insert, Write, client, TypeOK, Sent
<1>2. ASSUME NEW m \in Missions, Start(m)
      PROVE  Unread(n)'
    BY <1>2, WroteGrows DEF Unread, Start, Announce, Write, client, TypeOK, Sent
<1>3. ASSUME NEW m \in Missions, End(m)
      PROVE  Unread(n)'
    BY <1>3, WroteGrows DEF Unread, End, Announce, Write, client, TypeOK, Sent
<1>4. ASSUME NEW m \in Missions, Cancel(m)
      PROVE  Unread(n)'
    BY <1>4, WroteGrows DEF Unread, Cancel, Announce, Write, client, TypeOK, Sent
<1>5. ASSUME NEW e \in Event, Publish(e)
      PROVE  Unread(n)'
    <2>1. form'[n] = "none"
        BY <1>5, AnswerTypes DEF Unread, Publish
    <2> QED
        BY <1>5, <2>1 DEF Unread, Publish, client, Sent
<1>6. ASSUME NEW e \in Event, LoseEvent(e)
      PROVE  Unread(n)'
    <2>1. form'[n] = "none"
        BY <1>6, AnswerTypes DEF Unread, LoseEvent
    <2> QED
        BY <1>6, <2>1 DEF Unread, LoseEvent, client, Sent
<1>7. CASE TakeEvent
    BY <1>7 DEF Unread, TakeEvent, services, client, Sent
<1>8. CASE PushEnds
    BY <1>8 DEF Unread, PushEnds, services, client, Sent
<1>9. CASE Crash
    <2>1. \A i \in Visits : handler'[i] = None /\ inbox'[i] = <<>>
        BY <1>9 DEF Crash
    <2>2. DOMAIN <<>> = {} /\ None.pc # "read"
        BY MessageTypes, EmptySeq, LenProperties
    <2> QED
        BY <1>9, <2>1, <2>2 DEF Unread, Crash, client, Sent
<1>10. CASE Restart
    BY <1>10 DEF Unread, Restart, services, client, Sent
<1>11. ASSUME NEW i \in Visits, ReadMissions(i)
      PROVE  Unread(n)'
    <2>1. /\ Read(status).pc = "read" /\ Read(status).missions = status
          /\ Read([m \in Missions |-> "absent"]).pc = "read"
          /\ Read([m \in Missions |-> "absent"]).missions = [m \in Missions |-> "absent"]
        BY MessageTypes DEF TypeOK
    <2>2. handler \in [Visits -> Handler]
        BY DEF TypeOK
    <2>3. handler' \in {[handler EXCEPT ![i] = Read(status)],
                       [handler EXCEPT ![i] = Read([m \in Missions |-> "absent"])]}
        BY <1>11 DEF ReadMissions
    <2>4. UNCHANGED <<status, form, view, inbox>>
        BY <1>11 DEF ReadMissions, services, client
    <2> QED
        BY <2>1, <2>2, <2>3, <2>4 DEF Unread, Sent
<1>12. ASSUME NEW i \in Visits, SendSnapshot(i)
      PROVE  Unread(n)'
    <2>1. handler[i].missions \in [Missions -> Statuses] /\ handler \in [Visits -> Handler]
        BY <1>12, HandlerCases DEF SendSnapshot, TypeOK
    <2>2. UNCHANGED <<status, form, view>> /\ handler' = [handler EXCEPT ![i] = Serving]
        BY <1>12 DEF SendSnapshot, services, client
    <2>3. ASSUME NEW j \in Visits
          PROVE  handler'[j].pc = "read" => handler'[j].missions[n] = "absent"
        BY <2>1, <2>2, MessageTypes DEF Unread
    <2>4. ASSUME NEW j \in Visits, NEW msg, Sent(j, msg)', msg.type = "snapshot"
          PROVE  msg.missions[n] = "absent"
        <3>1. CASE socket[i] = "open"
            <4>1. Sent(j, msg) \/ msg = Snapshot(handler[i].missions)
                <5>1. inbox' = [inbox EXCEPT ![i] = Append(inbox[i], Snapshot(handler[i].missions))]
                    BY <1>12, <3>1 DEF SendSnapshot
                <5>2. Snapshot(handler[i].missions) \in Message
                    BY <2>1, MessageTypes
                <5> QED
                    BY <2>4, <5>1, <5>2, InboxAppended
            <4> QED
                BY <1>12, <2>1, <2>4, <4>1, MessageTypes DEF Unread, SendSnapshot
        <3>2. CASE socket[i] # "open"
            BY <1>12, <2>4, <3>2 DEF Unread, SendSnapshot, Sent
        <3> QED
            BY <3>1, <3>2
    <2> QED
        BY <2>2, <2>3, <2>4 DEF Unread
<1>13. ASSUME NEW i \in Visits, HandlerFails(i)
      PROVE  Unread(n)'
    <2>1. /\ inbox' = [inbox EXCEPT ![i] = <<>>] \/ inbox' = inbox
          /\ handler' = [handler EXCEPT ![i] = None] \/ handler' = handler
          /\ UNCHANGED <<status, form, view>>
        BY <1>13 DEF HandlerFails, Close, services, client
    <2>2. handler \in [Visits -> Handler] /\ None.pc # "read"
        BY MessageTypes DEF TypeOK
    <2> QED
        BY <2>1, <2>2, InboxEmptied DEF Unread
<1>14. ASSUME NEW i \in Visits, CutLink(i)
      PROVE  Unread(n)'
    <2>1. /\ inbox' = [inbox EXCEPT ![i] = <<>>] \/ inbox' = inbox
          /\ handler' = [handler EXCEPT ![i] = None] \/ handler' = handler
          /\ UNCHANGED <<status, form, view>>
        BY <1>14 DEF CutLink, Close, services, client
    <2>2. handler \in [Visits -> Handler] /\ None.pc # "read"
        BY MessageTypes DEF TypeOK
    <2> QED
        BY <2>1, <2>2, InboxEmptied DEF Unread
<1>15. ASSUME NEW i \in Visits, NEW e \in Event, Broadcast(i, e)
      PROVE  Unread(n)'
    <2>1. MissionEvent(e) \in Message /\ MissionEvent(e).type # "snapshot"
        BY MessageTypes
    <2>2. UNCHANGED <<status, form, view, handler>>
        BY <1>15 DEF Broadcast, services, client
    <2>3. ASSUME NEW j \in Visits, NEW msg, Sent(j, msg)', msg.type = "snapshot"
          PROVE  msg.missions[n] = "absent"
        <3>1. CASE handler[i] # None /\ socket[i] = "open"
            <4>1. inbox' = [inbox EXCEPT ![i] = Append(inbox[i], MissionEvent(e))]
                BY <1>15, <3>1 DEF Broadcast
            <4>2. Sent(j, msg)
                BY <2>1, <2>3, <4>1, InboxAppended
            <4> QED
                BY <2>3, <4>2 DEF Unread
        <3>2. CASE ~(handler[i] # None /\ socket[i] = "open")
            BY <1>15, <2>3, <3>2 DEF Unread, Broadcast, Sent
        <3> QED
            BY <3>1, <3>2
    <2> QED
        BY <2>2, <2>3 DEF Unread
<1>16. ASSUME NEW i \in Visits, Mount(i)
      PROVE  Unread(n)'
    BY <1>16 DEF Unread, Mount, services, Sent
<1>17. ASSUME NEW i \in Visits, Unmount(i)
      PROVE  Unread(n)'
    <2>1. /\ inbox' = [inbox EXCEPT ![i] = <<>>] \/ inbox' = inbox
          /\ handler' = [handler EXCEPT ![i] = None] \/ handler' = handler
          /\ UNCHANGED <<status, form, view>>
        BY <1>17 DEF Unmount, Cleanup, Close, services, client
    <2>2. handler \in [Visits -> Handler] /\ None.pc # "read"
        BY MessageTypes DEF TypeOK
    <2> QED
        BY <2>1, <2>2, InboxEmptied DEF Unread
<1>18. ASSUME NEW i \in Visits, Open(i)
      PROVE  Unread(n)'
    <2>1. handler \in [Visits -> Handler] /\ Building.pc # "read"
        BY MessageTypes DEF TypeOK
    <2> QED
        BY <1>18, <2>1 DEF Unread, Open, services, Sent
<1>19. ASSUME NEW i \in Visits, Refused(i)
      PROVE  Unread(n)'
    BY <1>19 DEF Unread, Refused, services, Sent
<1>20. ASSUME NEW i \in Visits, HeartbeatTimeout(i)
      PROVE  Unread(n)'
    <2>1. /\ inbox' = [inbox EXCEPT ![i] = <<>>] \/ inbox' = inbox
          /\ handler' = [handler EXCEPT ![i] = None] \/ handler' = handler
          /\ UNCHANGED <<status, form, view>>
        BY <1>20 DEF HeartbeatTimeout, Close, services, client
    <2>2. handler \in [Visits -> Handler] /\ None.pc # "read"
        BY MessageTypes DEF TypeOK
    <2> QED
        BY <2>1, <2>2, InboxEmptied DEF Unread
<1>21. ASSUME NEW i \in Visits, OnClose(i)
      PROVE  Unread(n)'
    BY <1>21 DEF Unread, OnClose, services, Sent
<1>22. ASSUME NEW i \in Visits, Reconnect(i)
      PROVE  Unread(n)'
    BY <1>22 DEF Unread, Reconnect, services, Sent
<1>23. ASSUME NEW i \in Visits, Receive(i)
      PROVE  Unread(n)'
    <2>1. inbox[i] \in Seq(Message) /\ inbox[i] # <<>>
        BY <1>23 DEF Receive, TypeOK
    <2>2. Head(inbox[i]) \in Message /\ Sent(i, Head(inbox[i]))
        BY <2>1, TailEntries DEF Sent
    <2>3. UNCHANGED <<status, form, handler>> /\ inbox' = [inbox EXCEPT ![i] = Tail(inbox[i])]
        BY <1>23 DEF Receive, services
    <2>4. view'[n] \in {"absent", "garbled"}
        <3>1. CASE Head(inbox[i]).type = "snapshot"
            BY <1>23, <2>2, <3>1 DEF Unread, Receive, ApplySnapshot
        <3>2. CASE Head(inbox[i]).type # "snapshot"
            <4>1. Head(inbox[i]).event.mission \in Missions
                BY <2>2, <3>2, MessageCases DEF Event
            <4> QED
                BY <1>23, <3>2, <4>1 DEF Unread, Receive, ApplyEvent, TypeOK
        <3> QED
            BY <3>1, <3>2
    <2> QED
        BY <2>1, <2>3, <2>4, InboxRead DEF Unread
<1>24. ASSUME NEW m \in Missions, Upsert(m)
      PROVE  Unread(n)'
    BY <1>24 DEF Unread, Upsert, TypeOK, Sent
<1>25. CASE StoreAnswer
    <2>1. PICK i \in Visits :
              /\ inbox' = [inbox EXCEPT ![i] = <<>>] \/ inbox' = inbox
              /\ handler' = [handler EXCEPT ![i] = None] \/ handler' = handler
        BY <1>25, AnswerEmpties
    <2>2. UNCHANGED <<status, form>> /\ view'[n] = "garbled"
        BY <1>25 DEF StoreAnswer, services
    <2>3. handler \in [Visits -> Handler] /\ None.pc # "read"
        BY MessageTypes DEF TypeOK
    <2> QED
        BY <2>1, <2>2, <2>3, InboxEmptied DEF Unread
<1>26. CASE UNCHANGED vars
    BY <1>26 DEF Unread, vars, services, client, Sent
<1> QED
    BY <1>1, <1>2, <1>3, <1>4, <1>5, <1>6, <1>7, <1>8, <1>9, <1>10, <1>11, <1>12,
       <1>13, <1>14, <1>15, <1>16, <1>17, <1>18, <1>19, <1>20, <1>21, <1>22, <1>23,
       <1>24, <1>25, <1>26
    DEF Next, Services, Gateway, Browser

\* Every action keeps RowInv.
LEMMA StepRowInv ==
    ASSUME TypeOK, RowInv, [Next]_vars
    PROVE  RowInv'
<1>1. ASSUME NEW n \in Missions, "insert" \notin wrote'[n]
      PROVE  Unread(n)'
    BY <1>1, RowsUnread, WroteGrows, StaysUnread
<1> QED
    BY <1>1 DEF RowInv, Unread, Sent

-----------------------------------------------------------------------------
(* The last event of a mission in the gateway.                             *)

\* What LastEventInv says of a mission.
LastRight(n) ==
    /\ \A k \in DOMAIN channel :
           channel[k].mission = n /\ (\A l \in DOMAIN channel : l > k => channel[l].mission # n)
               => channel[k].to = status[n]
    /\ InChannel(n) \/ \A p \in outgoing : p[2].mission = n => p[2].to = status[n]

\* It holds of a gateway that has no events.
LEMMA NothingIsRight ==
    ASSUME NEW n, channel = <<>>, outgoing = {}
    PROVE  LastRight(n)
<1>1. DOMAIN <<>> = {}
    BY EmptySeq, LenProperties
<1> QED
    BY <1>1 DEF LastRight

\* A push loop that ends, or a crash, leaves nothing in the gateway.
LEMMA NothingStays ==
    ASSUME NEW n, channel' = <<>>, outgoing' = {}
    PROVE  LastRight(n)'
<1>1. DOMAIN <<>> = {}
    BY EmptySeq, LenProperties
<1> QED
    BY <1>1 DEF LastRight

\* Nor is there anything about a mission that is quiet.
LEMMA QuietStays ==
    ASSUME NEW n, Quiet(n)'
    PROVE  LastRight(n)'
BY DEF Quiet, LastRight

\* Before its row is inserted, a mission has no events.
LEMMA UnbornHasNone ==
    ASSUME TypeOK, EventInv, NEW n \in Missions, "insert" \notin wrote[n]
    PROVE  /\ \A e \in unsent : e.mission # n
           /\ ~InChannel(n)
           /\ \A p \in outgoing : p[2].mission # n
<1>1. \A f \in Event : UnderWay(f) => f.mission # n
    BY DEF EventInv
<1>2. \A e \in unsent : e \in Event /\ UnderWay(e)
    BY DEF TypeOK, UnderWay
<1>3. \A k \in DOMAIN channel : channel[k] \in Event /\ UnderWay(channel[k])
    <2>1. channel \in Seq(Event)
        BY DEF TypeOK
    <2> QED
        BY <2>1, LenProperties, ElementOfSeq DEF UnderWay
<1>4. ASSUME NEW p \in outgoing
      PROVE  p[2] \in Event /\ UnderWay(p[2])
    <2>1. PICK i \in Visits, e \in Event : p = <<i, e>>
        BY DEF TypeOK
    <2> QED
        BY <2>1 DEF UnderWay
<1> QED
    BY <1>1, <1>2, <1>3, <1>4 DEF InChannel

\* A broadcast goes on: nothing else changed for the mission.
LEMMA GatewayStays ==
    ASSUME NEW n, LastRight(n), status'[n] = status[n], channel' = channel, outgoing' \subseteq outgoing
    PROVE  LastRight(n)'
BY DEF LastRight, InChannel

\* Only the services make an event of the mission fresh or not.
LEMMA FreshStays ==
    ASSUME NEW n, status'[n] = status[n],
           \A s : [mission |-> n, to |-> s] \in unsent => [mission |-> n, to |-> s] \in unsent'
    PROVE  Fresh(n) => Fresh(n)'
BY DEF Fresh

\* A service that writes the row makes its event the last one, and only TakeEvent takes it out.
LEMMA StaysLastRight ==
    ASSUME TypeOK, SocketInv, EventInv, [Next]_vars, NEW n \in Missions, ~excused'[n], ~Fresh(n)',
           Fresh(n) \/ LastRight(n)
    PROVE  LastRight(n)'
<1>1. ASSUME NEW m \in Missions, Insert(m)
      PROVE  LastRight(n)'
    <2>1. UNCHANGED <<channel, outgoing, unsent>> /\ status' = [status EXCEPT ![m] = "pending"]
        BY <1>1 DEF Insert, Write, server
    <2>2. CASE m = n
        <3>1. "insert" \notin wrote[n]
            BY <1>1, <2>2 DEF Insert, Write
        <3> QED
            BY <2>1, <3>1, UnbornHasNone DEF LastRight, InChannel
    <2>3. CASE m # n
        BY <2>1, <2>3, GatewayStays DEF Fresh, TypeOK
    <2> QED
        BY <2>2, <2>3
<1>2. ASSUME NEW m \in Missions, Start(m)
      PROVE  LastRight(n)'
    <2>1. CASE m = n
        BY <1>2, <2>1 DEF Start, Announce, Write, Fresh, TypeOK
    <2>2. CASE m # n
        BY <1>2, <2>2, GatewayStays DEF Start, Announce, Write, Fresh, TypeOK, server
    <2> QED
        BY <2>1, <2>2
<1>3. ASSUME NEW m \in Missions, End(m)
      PROVE  LastRight(n)'
    <2>1. CASE m = n
        BY <1>3, <2>1 DEF End, Announce, Write, Fresh, TypeOK
    <2>2. CASE m # n
        BY <1>3, <2>2, GatewayStays DEF End, Announce, Write, Fresh, TypeOK, server
    <2> QED
        BY <2>1, <2>2
<1>4. ASSUME NEW m \in Missions, Cancel(m)
      PROVE  LastRight(n)'
    <2>1. CASE m = n
        BY <1>4, <2>1 DEF Cancel, Announce, Write, Fresh, TypeOK
    <2>2. CASE m # n
        BY <1>4, <2>2, GatewayStays DEF Cancel, Announce, Write, Fresh, TypeOK, server
    <2> QED
        BY <2>1, <2>2
<1>5. ASSUME NEW e \in Event, Publish(e)
      PROVE  LastRight(n)'
    <2>1. /\ UNCHANGED <<status, outgoing, push>> /\ unsent' = unsent \ {e}
          /\ channel' = IF push = "running" THEN Append(channel, e) ELSE channel
        BY <1>5 DEF Publish
    <2>2. e.mission \in Missions /\ e = [mission |-> e.mission, to |-> e.to]
        BY DEF Event
    <2>3. CASE push = "ended"
        BY <2>1, <2>3, NothingIsRight, GatewayStays DEF SocketInv
    <2>4. CASE push # "ended"
        <3>1. channel' = Append(channel, e) /\ channel \in Seq(Event)
            BY <2>1, <2>4 DEF TypeOK
        <3>2. /\ DOMAIN channel = 1 .. Len(channel) /\ Len(channel) \in Nat
              /\ DOMAIN channel' = DOMAIN channel \cup {Len(channel) + 1}
              /\ \A k \in DOMAIN channel : channel'[k] = channel[k] /\ k < Len(channel) + 1
              /\ channel'[Len(channel) + 1] = e
            BY <3>1, AppendEntries
        <3>3. CASE e.mission = n
            <4>1. e.to = status[n]
                BY <1>5, <3>3 DEF Publish, ExcuseIf, TypeOK
            <4> QED
                BY <2>1, <3>2, <3>3, <4>1 DEF LastRight, InChannel
        <3>4. CASE e.mission # n
            <4>1. LastRight(n)
                BY <2>1, <3>4 DEF Fresh
            <4> QED
                BY <2>1, <3>2, <3>4, <4>1 DEF LastRight, InChannel
        <3> QED
            BY <3>3, <3>4
    <2> QED
        BY <2>3, <2>4
<1>6. ASSUME NEW e \in Event, LoseEvent(e)
      PROVE  LastRight(n)'
    <2>1. UNCHANGED <<status, channel, outgoing>> /\ unsent' = unsent \ {e}
        BY <1>6 DEF LoseEvent, server
    <2>2. e.mission # n
        BY <1>6 DEF LoseEvent, ExcuseIf, TypeOK
    <2>3. Fresh(n) => Fresh(n)'
        BY <2>1, <2>2 DEF Fresh
    <2> QED
        BY <2>1, <2>3, GatewayStays
<1>7. CASE TakeEvent
    <2>1. /\ UNCHANGED <<status, unsent>> /\ outgoing = {} /\ channel # <<>>
          /\ channel' = Tail(channel) /\ outgoing' = Registered \X {Head(channel)}
        BY <1>7 DEF TakeEvent, services
    <2>2. LastRight(n)
        BY <2>1 DEF Fresh
    <2>3. channel \in Seq(Event)
        BY DEF TypeOK
    <2>4. /\ DOMAIN channel = 1 .. Len(channel) /\ Len(channel) \in Nat /\ 1 \in DOMAIN channel
          /\ Head(channel) = channel[1]
          /\ DOMAIN channel' = 1 .. Len(channel) - 1
          /\ \A k \in DOMAIN channel' : k + 1 \in DOMAIN channel /\ channel'[k] = channel[k + 1]
        BY <2>1, <2>3, TailEntries
    <2>5. ASSUME NEW l \in DOMAIN channel, l > 1
          PROVE  l - 1 \in DOMAIN channel' /\ channel'[l - 1] = channel[l]
        BY <2>4, <2>5
    <2>6. ASSUME NEW k \in DOMAIN channel', channel'[k].mission = n,
                 \A l \in DOMAIN channel' : l > k => channel'[l].mission # n
          PROVE  channel'[k].to = status[n]
        <3>1. ASSUME NEW l \in DOMAIN channel, l > k + 1
              PROVE  channel[l].mission # n
            BY <2>4, <2>5, <2>6, <3>1
        <3>2. k + 1 \in DOMAIN channel /\ channel'[k] = channel[k + 1]
            BY <2>4
        <3> QED
            BY <2>2, <2>6, <3>1, <3>2 DEF LastRight
    <2>7. ASSUME ~InChannel(n)', Head(channel).mission = n
          PROVE  Head(channel).to = status[n]
        <3>1. ASSUME NEW l \in DOMAIN channel, l > 1
              PROVE  channel[l].mission # n
            BY <2>5, <2>7, <3>1 DEF InChannel
        <3> QED
            BY <2>2, <2>4, <2>7, <3>1 DEF LastRight
    <2>8. \A p \in outgoing' : p[2] = Head(channel)
        BY <2>1
    <2> QED
        BY <2>1, <2>6, <2>7, <2>8 DEF LastRight
<1>8. CASE PushEnds
    <2>1. channel' = <<>> /\ outgoing' = {}
        BY <1>8 DEF PushEnds
    <2> QED
        BY <2>1, NothingStays
<1>9. CASE Crash
    <2>1. channel' = <<>> /\ outgoing' = {}
        BY <1>9 DEF Crash
    <2> QED
        BY <2>1, NothingStays
<1>10. CASE Restart
    BY <1>10, GatewayStays, FreshStays DEF Restart, services
<1>11. ASSUME NEW i \in Visits, ReadMissions(i)
      PROVE  LastRight(n)'
    BY <1>11, GatewayStays, FreshStays DEF ReadMissions, services, server
<1>12. ASSUME NEW i \in Visits, SendSnapshot(i)
      PROVE  LastRight(n)'
    BY <1>12, GatewayStays, FreshStays DEF SendSnapshot, services, server
<1>13. ASSUME NEW i \in Visits, HandlerFails(i)
      PROVE  LastRight(n)'
    BY <1>13, GatewayStays, FreshStays DEF HandlerFails, services, server
<1>14. ASSUME NEW i \in Visits, CutLink(i)
      PROVE  LastRight(n)'
    BY <1>14, GatewayStays, FreshStays DEF CutLink, services, server
<1>15. ASSUME NEW i \in Visits, NEW e \in Event, Broadcast(i, e)
      PROVE  LastRight(n)'
    <2>1. UNCHANGED <<services, channel>> /\ outgoing' \subseteq outgoing
        BY <1>15 DEF Broadcast
    <2> QED
        BY <2>1, GatewayStays, FreshStays DEF services
<1>16. ASSUME NEW i \in Visits, Mount(i)
      PROVE  LastRight(n)'
    BY <1>16, GatewayStays, FreshStays DEF Mount, services, server
<1>17. ASSUME NEW i \in Visits, Unmount(i)
      PROVE  LastRight(n)'
    BY <1>17, GatewayStays, FreshStays DEF Unmount, services, server
<1>18. ASSUME NEW i \in Visits, Open(i)
      PROVE  LastRight(n)'
    BY <1>18, GatewayStays, FreshStays DEF Open, services, server
<1>19. ASSUME NEW i \in Visits, Refused(i)
      PROVE  LastRight(n)'
    BY <1>19, GatewayStays, FreshStays DEF Refused, services, server
<1>20. ASSUME NEW i \in Visits, HeartbeatTimeout(i)
      PROVE  LastRight(n)'
    BY <1>20, GatewayStays, FreshStays DEF HeartbeatTimeout, services, server
<1>21. ASSUME NEW i \in Visits, OnClose(i)
      PROVE  LastRight(n)'
    BY <1>21, GatewayStays, FreshStays DEF OnClose, services, server
<1>22. ASSUME NEW i \in Visits, Reconnect(i)
      PROVE  LastRight(n)'
    BY <1>22, GatewayStays, FreshStays DEF Reconnect, services, server
<1>23. ASSUME NEW i \in Visits, Receive(i)
      PROVE  LastRight(n)'
    BY <1>23, GatewayStays, FreshStays DEF Receive, services, server
<1>24. ASSUME NEW m \in Missions, Upsert(m)
      PROVE  LastRight(n)'
    BY <1>24, GatewayStays, FreshStays DEF Upsert, server
<1>25. CASE StoreAnswer
    BY <1>25, GatewayStays, FreshStays DEF StoreAnswer, services, server
<1>26. CASE UNCHANGED vars
    BY <1>26, GatewayStays, FreshStays DEF vars, services, server
<1> QED
    BY <1>1, <1>2, <1>3, <1>4, <1>5, <1>6, <1>7, <1>8, <1>9, <1>10, <1>11, <1>12,
       <1>13, <1>14, <1>15, <1>16, <1>17, <1>18, <1>19, <1>20, <1>21, <1>22, <1>23,
       <1>24, <1>25, <1>26
    DEF Next, Services, Gateway, Browser

\* Every action keeps LastEventInv.
LEMMA StepLastEventInv ==
    ASSUME TypeOK, SocketInv, EventInv, LastEventInv, [Next]_vars
    PROVE  LastEventInv'
<1>1. ASSUME NEW n \in Missions, ~excused'[n], ~Fresh(n)'
      PROVE  LastRight(n)'
    <2>1. CASE excused[n]
        BY <1>1, <2>1, ExcusedStays, QuietStays
    <2>2. CASE ~excused[n]
        <3>1. Fresh(n) \/ LastRight(n)
            BY <2>2 DEF LastEventInv, LastRight
        <3> QED
            BY <1>1, <3>1, StaysLastRight
    <2> QED
        BY <2>1, <2>2
<1> QED
    BY <1>1 DEF LastEventInv, LastRight

-----------------------------------------------------------------------------
(* What is under way to the one open socket.                               *)

\* What ViewInv says of a mission and an open socket.
Awaited(i, n) == Due(i, n) \/ WillBeRight(i, n)

\* A page that was left with a live socket stays so.
LEMMA AbandonedStays ==
    ASSUME TypeOK, [Next]_vars, NEW j \in Visits, phase[j] = "abandoned"
    PROVE  phase'[j] = "abandoned"
<1>1. ASSUME NEW m \in Missions, Insert(m)
      PROVE  phase'[j] = "abandoned"
    BY <1>1 DEF Insert, Announce, Write, client
<1>2. ASSUME NEW m \in Missions, Start(m)
      PROVE  phase'[j] = "abandoned"
    BY <1>2 DEF Start, Announce, Write, client
<1>3. ASSUME NEW m \in Missions, End(m)
      PROVE  phase'[j] = "abandoned"
    BY <1>3 DEF End, Announce, Write, client
<1>4. ASSUME NEW m \in Missions, Cancel(m)
      PROVE  phase'[j] = "abandoned"
    BY <1>4 DEF Cancel, Announce, Write, client
<1>5. ASSUME NEW e \in Event, Publish(e)
      PROVE  phase'[j] = "abandoned"
    BY <1>5 DEF Publish, client
<1>6. ASSUME NEW e \in Event, LoseEvent(e)
      PROVE  phase'[j] = "abandoned"
    BY <1>6 DEF LoseEvent, client
<1>7. CASE TakeEvent
    BY <1>7 DEF TakeEvent, client
<1>8. CASE PushEnds
    BY <1>8 DEF PushEnds, client
<1>9. CASE Crash
    BY <1>9 DEF Crash, client
<1>10. CASE Restart
    BY <1>10 DEF Restart, client
<1>11. ASSUME NEW i \in Visits, ReadMissions(i)
      PROVE  phase'[j] = "abandoned"
    BY <1>11 DEF ReadMissions, client
<1>12. ASSUME NEW i \in Visits, SendSnapshot(i)
      PROVE  phase'[j] = "abandoned"
    BY <1>12 DEF SendSnapshot, client
<1>13. ASSUME NEW i \in Visits, HandlerFails(i)
      PROVE  phase'[j] = "abandoned"
    BY <1>13 DEF HandlerFails, client
<1>14. ASSUME NEW i \in Visits, CutLink(i)
      PROVE  phase'[j] = "abandoned"
    BY <1>14 DEF CutLink, client
<1>15. ASSUME NEW i \in Visits, NEW e \in Event, Broadcast(i, e)
      PROVE  phase'[j] = "abandoned"
    BY <1>15 DEF Broadcast, client
<1>16. ASSUME NEW i \in Visits, Mount(i)
      PROVE  phase'[j] = "abandoned"
    BY <1>16 DEF Mount, TypeOK
<1>17. ASSUME NEW i \in Visits, Unmount(i)
      PROVE  phase'[j] = "abandoned"
    BY <1>17 DEF Unmount, Cleanup, TypeOK
<1>18. ASSUME NEW i \in Visits, Open(i)
      PROVE  phase'[j] = "abandoned"
    BY <1>18 DEF Open, client
<1>19. ASSUME NEW i \in Visits, Refused(i)
      PROVE  phase'[j] = "abandoned"
    BY <1>19 DEF Refused, client
<1>20. ASSUME NEW i \in Visits, HeartbeatTimeout(i)
      PROVE  phase'[j] = "abandoned"
    BY <1>20 DEF HeartbeatTimeout, client
<1>21. ASSUME NEW i \in Visits, OnClose(i)
      PROVE  phase'[j] = "abandoned"
    BY <1>21 DEF OnClose, client
<1>22. ASSUME NEW i \in Visits, Reconnect(i)
      PROVE  phase'[j] = "abandoned"
    BY <1>22 DEF Reconnect, client
<1>23. ASSUME NEW i \in Visits, Receive(i)
      PROVE  phase'[j] = "abandoned"
    BY <1>23 DEF Receive, client
<1>24. ASSUME NEW m \in Missions, Upsert(m)
      PROVE  phase'[j] = "abandoned"
    BY <1>24 DEF Upsert, client
<1>25. CASE StoreAnswer
    BY <1>25 DEF StoreAnswer, Cleanup, TypeOK
<1>26. CASE UNCHANGED vars
    BY <1>26 DEF vars, client
<1> QED
    BY <1>1, <1>2, <1>3, <1>4, <1>5, <1>6, <1>7, <1>8, <1>9, <1>10, <1>11, <1>12,
       <1>13, <1>14, <1>15, <1>16, <1>17, <1>18, <1>19, <1>20, <1>21, <1>22, <1>23,
       <1>24, <1>25, <1>26
    DEF Next, Services, Gateway, Browser

\* Unless a page was left with a live socket, an open socket is that of the mounted page.
LEMMA OpenIsMounted ==
    ASSUME TypeOK, SocketInv, CleanUnmount, \A k \in Visits : phase[k] # "abandoned",
           NEW i \in Visits, socket[i] = "open"
    PROVE  phase[i] = "mounted" /\ \A j \in Visits : phase[j] = "mounted" => j = i
<1>1. phase[i] = "mounted"
    BY DEF TypeOK, SocketInv, CleanUnmount, Live
<1>2. ASSUME NEW j \in Visits, phase[j] = "mounted"
      PROVE  ~(i < j) /\ ~(j < i)
    BY <1>1, <1>2, ConsoleAssumption DEF SocketInv, Visits
<1> QED
    BY <1>1, <1>2, ConsoleAssumption DEF Visits

\* One socket at most is open then.
LEMMA OneOpenSocket ==
    ASSUME TypeOK, SocketInv, CleanUnmount, \A k \in Visits : phase[k] # "abandoned",
           NEW i \in Visits, NEW j \in Visits, socket[i] = "open", socket[j] = "open"
    PROVE  i = j
BY OpenIsMounted

\* An event that is due stays so if the gateway still has it.
LEMMA DueStays ==
    ASSUME NEW i, NEW n, Due(i, n), status'[n] = status[n], InChannel(n) => InChannel(n)',
           \A s : [mission |-> n, to |-> s] \in unsent => [mission |-> n, to |-> s] \in unsent',
           \A p \in outgoing : p[1] = i /\ p[2].mission = n => p \in outgoing'
    PROVE  Due(i, n)'
BY DEF Due, Fresh

\* What will be right stays so if neither the row nor the browser's side changes.
LEMMA RightStays ==
    ASSUME NEW i, NEW n, WillBeRight(i, n), status'[n] = status[n], view'[n] = view[n],
           handler'[i] = handler[i], inbox'[i] = inbox[i]
    PROVE  WillBeRight(i, n)'
BY DEF WillBeRight, InboxRight, Right

\* A step of something else.
LEMMA AwaitedStays ==
    ASSUME NEW i, NEW n, Awaited(i, n), UNCHANGED <<services, channel, outgoing, view>>,
           handler'[i] = handler[i], inbox'[i] = inbox[i]
    PROVE  Awaited(i, n)'
BY DueStays, RightStays DEF Awaited, services, InChannel

\* A message that is not about the mission changes nothing for it ...
LEMMA OthersAppended ==
    ASSUME TypeOK, NEW i \in Visits, NEW n, NEW msg \in Message, ~About(n, msg), InboxRight(i, n),
           inbox'[i] = Append(inbox[i], msg), status'[n] = status[n], view'[n] = view[n]
    PROVE  InboxRight(i, n)'
<1>1. inbox[i] \in Seq(Message)
    BY DEF TypeOK
<1>2. /\ DOMAIN inbox[i] = 1 .. Len(inbox[i]) /\ Len(inbox[i]) \in Nat
      /\ DOMAIN inbox'[i] = DOMAIN inbox[i] \cup {Len(inbox[i]) + 1}
      /\ \A k \in DOMAIN inbox[i] : inbox'[i][k] = inbox[i][k] /\ k < Len(inbox[i]) + 1
      /\ inbox'[i][Len(inbox[i]) + 1] = msg
    BY <1>1, AppendEntries
<1>3. \A l \in DOMAIN inbox'[i] : (l \in DOMAIN inbox[i] => ~About(n, inbox[i][l])) => ~About(n, inbox'[i][l])
    BY <1>2
<1>4. CASE \E k \in DOMAIN inbox[i] :
              /\ About(n, inbox[i][k]) /\ Right(n, Says(n, inbox[i][k]))
              /\ \A l \in DOMAIN inbox[i] : l > k => ~About(n, inbox[i][l])
    <2>1. PICK k \in DOMAIN inbox[i] :
              /\ About(n, inbox[i][k]) /\ Right(n, Says(n, inbox[i][k]))
              /\ \A l \in DOMAIN inbox[i] : l > k => ~About(n, inbox[i][l])
        BY <1>4
    <2>2. /\ k \in DOMAIN inbox'[i] /\ About(n, inbox'[i][k])
          /\ Says(n, inbox'[i][k]) \in {"absent", status'[n]}
          /\ \A l \in DOMAIN inbox'[i] : l > k => ~About(n, inbox'[i][l])
        BY <1>2, <1>3, <2>1 DEF Right
    <2> QED
        BY <2>2 DEF InboxRight, Right, About, Says
<1>5. CASE Right(n, view[n]) /\ \A k \in DOMAIN inbox[i] : ~About(n, inbox[i][k])
    BY <1>3, <1>5 DEF InboxRight, Right
<1> QED
    BY <1>4, <1>5 DEF InboxRight

\* ... and one that says what is right is all that matters.
LEMMA RightAppended ==
    ASSUME TypeOK, NEW i \in Visits, NEW n, NEW msg \in Message,
           About(n, msg), Says(n, msg) \in {"absent", status'[n]},
           inbox'[i] = Append(inbox[i], msg)
    PROVE  InboxRight(i, n)'
<1>1. inbox[i] \in Seq(Message)
    BY DEF TypeOK
<1>2. /\ DOMAIN inbox[i] = 1 .. Len(inbox[i]) /\ Len(inbox[i]) \in Nat
      /\ DOMAIN inbox'[i] = DOMAIN inbox[i] \cup {Len(inbox[i]) + 1}
      /\ inbox'[i][Len(inbox[i]) + 1] = msg
    BY <1>1, AppendEntries
<1>3. \A l \in DOMAIN inbox'[i] : ~(l > Len(inbox[i]) + 1)
    BY <1>2
<1> QED
    BY <1>2, <1>3 DEF InboxRight, Right

\* The browser takes the first message: the last one about the mission stays the
\* last one, or has just made the view right.
LEMMA RightReceived ==
    ASSUME TypeOK, EventInv, NEW i \in Visits, NEW n \in Missions, ~excused[n],
           view[n] # "garbled", Receive(i), InboxRight(i, n)
    PROVE  InboxRight(i, n)'
<1> DEFINE msgs == inbox[i]
           msg == Head(msgs)
<1>1. msgs \in Seq(Message) /\ msgs # <<>>
    BY DEF Receive, TypeOK
<1>2. /\ DOMAIN msgs = 1 .. Len(msgs) /\ Len(msgs) \in Nat /\ 1 \in DOMAIN msgs
      /\ msg = msgs[1] /\ msg \in Message
      /\ DOMAIN Tail(msgs) = 1 .. Len(msgs) - 1
      /\ \A k \in DOMAIN Tail(msgs) : k + 1 \in DOMAIN msgs /\ Tail(msgs)[k] = msgs[k + 1]
    BY <1>1, TailEntries
<1>3. inbox'[i] = Tail(msgs) /\ UNCHANGED status
    BY DEF Receive, services, TypeOK
<1>4. view'[n] = view[n] \/ About(n, msg)
    <2>1. CASE msg.type = "snapshot"
        BY <2>1 DEF About
    <2>2. CASE msg.type # "snapshot"
        BY <2>2 DEF Receive, ApplyEvent, About, TypeOK
    <2> QED
        BY <2>1, <2>2
<1>5. About(n, msg) /\ Right(n, Says(n, msg)) => Right(n, view[n])'
    <2>1. CASE msg.type = "snapshot"
        BY <1>3, <2>1 DEF Receive, ApplySnapshot, Right, Says
    <2>2. CASE msg.type # "snapshot" /\ About(n, msg) /\ Right(n, Says(n, msg))
        <3>1. msg.event \in Event /\ msg = MissionEvent(msg.event) /\ msg.event.mission = n
            BY <1>2, <2>2, MessageCases DEF About
        <3>2. UnderWay(msg.event)
            BY <1>2, <3>1 DEF UnderWay, Sent
        <3>3. msg.event.to # "cancelled" /\ msg.event.to = status[n]
            BY <2>2, <3>1, <3>2 DEF EventInv, Right, Says, Event, Announced
        <3>4. view'[n] = IF view[n] = "absent" THEN "absent" ELSE msg.event.to
            BY <2>2, <3>1, <3>3 DEF Receive, ApplyEvent, TypeOK
        <3> QED
            BY <1>3, <3>3, <3>4 DEF Right
    <2> QED
        BY <2>1, <2>2
<1>6. CASE \E k \in DOMAIN msgs :
              /\ About(n, msgs[k]) /\ Right(n, Says(n, msgs[k]))
              /\ \A l \in DOMAIN msgs : l > k => ~About(n, msgs[l])
    <2>1. PICK k \in DOMAIN msgs :
              /\ About(n, msgs[k]) /\ Right(n, Says(n, msgs[k]))
              /\ \A l \in DOMAIN msgs : l > k => ~About(n, msgs[l])
        BY <1>6
    <2>2. \A l \in DOMAIN Tail(msgs) : l + 1 > k => ~About(n, Tail(msgs)[l])
        BY <1>2, <2>1
    <2>3. CASE k = 1
        <3>1. Right(n, view[n])'
            BY <1>2, <1>5, <2>1, <2>3
        <3>2. \A l \in DOMAIN Tail(msgs) : ~About(n, Tail(msgs)[l])
            BY <1>2, <2>2, <2>3
        <3> QED
            BY <1>3, <3>1, <3>2 DEF InboxRight
    <2>4. CASE k # 1
        <3>1. k - 1 \in DOMAIN Tail(msgs) /\ Tail(msgs)[k - 1] = msgs[k]
            BY <1>2, <2>4
        <3>2. \A l \in DOMAIN Tail(msgs) : l > k - 1 => ~About(n, Tail(msgs)[l])
            BY <1>2, <2>2
        <3>3. Says(n, msgs[k]) \in {"absent", status'[n]}
            BY <1>3, <2>1 DEF Right
        <3> QED
            BY <1>3, <2>1, <3>1, <3>2, <3>3 DEF InboxRight, Right, About, Says
    <2> QED
        BY <2>3, <2>4
<1>7. CASE Right(n, view[n]) /\ \A k \in DOMAIN msgs : ~About(n, msgs[k])
    <2>1. Right(n, view[n])'
        BY <1>2, <1>3, <1>4, <1>7 DEF Right
    <2>2. \A l \in DOMAIN Tail(msgs) : ~About(n, Tail(msgs)[l])
        BY <1>2, <1>7
    <2> QED
        BY <1>3, <2>1, <2>2 DEF InboxRight
<1> QED
    BY <1>6, <1>7 DEF InboxRight

\* A mission that is inserted is right as absent wherever it was read before.
LEMMA InsertAwaited ==
    ASSUME TypeOK, EventInv, RowInv, NEW i \in Visits, NEW n \in Missions, Insert(n),
           WillBeRight(i, n)
    PROVE  WillBeRight(i, n)'
<1>1. "insert" \notin wrote[n] /\ UNCHANGED <<handler, inbox, view>>
    BY DEF Insert, Write, client
<1>2. /\ status[n] = "absent" /\ view[n] \in {"absent", "garbled"}
      /\ handler[i].pc = "read" => handler[i].missions[n] = "absent"
      /\ \A k \in DOMAIN inbox[i] :
             inbox[i][k].type = "snapshot" => inbox[i][k].missions[n] = "absent"
    BY <1>1 DEF RowInv
<1>3. ASSUME NEW k \in DOMAIN inbox[i], About(n, inbox[i][k])
      PROVE  inbox[i][k].type = "snapshot"
    <2>1. inbox[i][k] \in Message
        BY LenProperties, ElementOfSeq DEF TypeOK
    <2>2. ASSUME inbox[i][k].type # "snapshot"
          PROVE  FALSE
        <3>1. /\ inbox[i][k].event \in Event /\ inbox[i][k] = MissionEvent(inbox[i][k].event)
              /\ inbox[i][k].event.mission = n
            BY <1>3, <2>1, <2>2, MessageCases DEF About
        <3>2. UnderWay(inbox[i][k].event)
            BY <3>1 DEF UnderWay, Sent
        <3> QED
            BY <1>1, <3>1, <3>2 DEF EventInv
    <2> QED
        BY <2>2
<1> QED
    BY <1>1, <1>2, <1>3 DEF WillBeRight, InboxRight, Right, Says

\* The answer to the form's request says what is right, or excuses the mission.
LEMMA UpsertAwaited ==
    ASSUME TypeOK, NEW i \in Visits, NEW n \in Missions, ~excused'[n], Upsert(n), Awaited(i, n)
    PROVE  Awaited(i, n)'
<1>1. /\ UNCHANGED <<status, unsent, channel, outgoing, handler, inbox>>
      /\ view'[n] \in {view[n], "running"} /\ status[n] = "running"
    BY DEF Upsert, ExcuseIf, TypeOK, server
<1>2. InboxRight(i, n) => InboxRight(i, n)'
    BY <1>1 DEF InboxRight, Right
<1>3. WillBeRight(i, n) => WillBeRight(i, n)'
    BY <1>1, <1>2 DEF WillBeRight, Right
<1>4. Due(i, n) => Due(i, n)'
    BY <1>1, DueStays DEF InChannel
<1> QED
    BY <1>3, <1>4 DEF Awaited

\* The answer to the poll takes the page down, with its socket.
LEMMA AnswerCloses ==
    ASSUME TypeOK, SocketInv, CleanUnmount, \A k \in Visits : phase[k] # "abandoned",
           NEW i \in Visits, socket[i] = "open", StoreAnswer
    PROVE  socket'[i] # "open"
<1>1. phase[i] = "mounted"
    BY OpenIsMounted
<1>2. PICK j \in Visits : Cleanup(j)
    BY <1>1 DEF StoreAnswer
<1>3. j = i
    BY <1>2, OpenIsMounted DEF Cleanup
<1> QED
    BY <1>2, <1>3 DEF Cleanup, Close, Live, TypeOK

\* The push loop hands the event to every open socket.
LEMMA TakenIsDue ==
    ASSUME TypeOK, SocketInv, NEW i \in Visits, NEW n \in Missions, socket[i] = "open",
           TakeEvent, InChannel(n)
    PROVE  Due(i, n)'
<1>1. /\ channel \in Seq(Event) /\ channel # <<>>
      /\ channel' = Tail(channel) /\ outgoing' = Registered \X {Head(channel)}
    BY DEF TakeEvent, TypeOK
<1>2. /\ DOMAIN channel = 1 .. Len(channel) /\ Len(channel) \in Nat
      /\ Head(channel) = channel[1]
      /\ DOMAIN channel' = 1 .. Len(channel) - 1
      /\ \A k \in DOMAIN channel' : channel'[k] = channel[k + 1]
    BY <1>1, TailEntries
<1>3. PICK k \in DOMAIN channel : channel[k].mission = n
    BY DEF InChannel
<1>4. CASE k = 1
    <2>1. <<i, Head(channel)>> \in outgoing'
        BY <1>1 DEF SocketInv, Registered
    <2> QED
        BY <1>2, <1>3, <1>4, <2>1 DEF Due
<1>5. CASE k # 1
    <2>1. k - 1 \in DOMAIN channel' /\ channel'[k - 1] = channel[k]
        BY <1>2, <1>5
    <2> QED
        BY <1>3, <2>1 DEF Due, InChannel
<1> QED
    BY <1>4, <1>5

\* The snapshot that a handler has read is the last word on the mission.
LEMMA SnapshotAwaited ==
    ASSUME TypeOK, NEW i \in Visits, NEW n \in Missions, socket[i] = "open",
           SendSnapshot(i), WillBeRight(i, n)
    PROVE  WillBeRight(i, n)'
<1>1. /\ handler[i].pc = "read" /\ handler[i].missions \in [Missions -> Statuses]
      /\ handler'[i] = Serving
      /\ inbox'[i] = Append(inbox[i], Snapshot(handler[i].missions))
      /\ UNCHANGED <<status, view>>
    BY HandlerCases DEF SendSnapshot, TypeOK, services, client
<1>2. Right(n, handler[i].missions[n])
    BY <1>1, MessageTypes DEF WillBeRight
<1>3. /\ Snapshot(handler[i].missions) \in Message
      /\ About(n, Snapshot(handler[i].missions))
      /\ Says(n, Snapshot(handler[i].missions)) \in {"absent", status'[n]}
    BY <1>1, <1>2, MessageTypes DEF About, Says, Right
<1> QED
    BY <1>1, <1>3, RightAppended DEF WillBeRight

\* An event of another mission says nothing; one of the mission says the truth, is
\* followed by another, or excuses the mission because it overtakes a snapshot.
LEMMA BroadcastAwaited ==
    ASSUME TypeOK, SocketInv, LastEventInv, NEW i \in Visits, NEW n \in Missions,
           ~excused[n], ~excused'[n], socket[i] = "open",
           NEW e \in Event, Broadcast(i, e), Awaited(i, n)
    PROVE  Awaited(i, n)'
<1>1. /\ <<i, e>> \in outgoing /\ outgoing' = outgoing \ {<<i, e>>}
      /\ UNCHANGED <<services, channel, handler, view>>
      /\ handler[i] # None
      /\ inbox'[i] = Append(inbox[i], MissionEvent(e))
    BY DEF Broadcast, SocketInv, TypeOK, client
<1>2. MissionEvent(e) \in Message /\ (About(n, MissionEvent(e)) <=> e.mission = n)
    BY MessageTypes DEF About
<1>3. CASE e.mission # n
    <2>1. CASE Due(i, n)
        BY <1>1, <1>3, <2>1, DueStays DEF Awaited, services, InChannel
    <2>2. CASE WillBeRight(i, n)
        <3>1. InboxRight(i, n) => InboxRight(i, n)'
            BY <1>1, <1>2, <1>3, OthersAppended DEF services
        <3> QED
            BY <1>1, <2>2, <3>1 DEF Awaited, WillBeRight, Right, services
    <2> QED
        BY <2>1, <2>2 DEF Awaited
<1>4. CASE e.mission = n
    <2>1. handler[i].pc # "read"
        BY <1>4 DEF Broadcast, ExcuseIf, TypeOK
    <2>2. handler[i] \in {Building, Serving}
        BY <1>1, <2>1, HandlerCases DEF TypeOK
    <2>3. CASE handler[i] = Building
        BY <1>1, <2>3 DEF Awaited, WillBeRight
    <2>4. CASE handler[i] = Serving
        <3>1. CASE Fresh(n) \/ InChannel(n)
            BY <1>1, <3>1 DEF Awaited, Due, Fresh, InChannel, services
        <3>2. CASE ~Fresh(n) /\ ~InChannel(n)
            <4>1. e.to = status[n]
                BY <1>1, <1>4, <3>2 DEF LastEventInv
            <4>2. Says(n, MissionEvent(e)) \in {"absent", status'[n]}
                BY <1>1, <4>1, MessageTypes DEF Says, services
            <4> QED
                BY <1>1, <1>2, <1>4, <2>4, <4>2, RightAppended DEF Awaited, WillBeRight
        <3> QED
            BY <3>1, <3>2
    <2> QED
        BY <2>2, <2>3, <2>4
<1> QED
    BY <1>3, <1>4

\* What an open socket waits for stays right, whatever the step.
LEMMA StaysAwaited ==
    ASSUME TypeOK, SocketInv, CleanUnmount, EventInv, ListInv, RowInv, LastEventInv, [Next]_vars,
           push = "running", push' = "running", \A k \in Visits : phase[k] # "abandoned",
           NEW i \in Visits, socket[i] = "open", socket'[i] = "open",
           NEW n \in Missions, ~excused[n], ~excused'[n], Awaited(i, n)
    PROVE  Awaited(i, n)'
<1>1. ASSUME NEW m \in Missions, Insert(m)
      PROVE  Awaited(i, n)'
    <2>1. UNCHANGED <<unsent, channel, outgoing, view, handler, inbox>>
        BY <1>1 DEF Insert, Write, server, client
    <2>2. CASE m = n
        <3>1. "insert" \notin wrote[n]
            BY <1>1, <2>2 DEF Insert, Write
        <3>2. ~Due(i, n)
            BY <3>1, UnbornHasNone DEF Due, Fresh
        <3> QED
            BY <1>1, <2>2, <3>2, InsertAwaited DEF Awaited
    <2>3. CASE m # n
        <3>1. status'[n] = status[n]
            BY <1>1, <2>3 DEF Insert, Write, TypeOK
        <3> QED
            BY <2>1, <3>1, DueStays, RightStays DEF Awaited, InChannel
    <2> QED
        BY <2>2, <2>3
<1>2. ASSUME NEW m \in Missions, Start(m)
      PROVE  Awaited(i, n)'
    <2>1. CASE m = n
        BY <1>2, <2>1 DEF Start, Announce, Write, Awaited, Due, Fresh, TypeOK
    <2>2. CASE m # n
        <3>1. /\ status'[n] = status[n] /\ unsent \subseteq unsent'
              /\ UNCHANGED <<channel, outgoing, view, handler, inbox>>
            BY <1>2, <2>2 DEF Start, Announce, Write, TypeOK, server, client
        <3> QED
            BY <3>1, DueStays, RightStays DEF Awaited, InChannel
    <2> QED
        BY <2>1, <2>2
<1>3. ASSUME NEW m \in Missions, End(m)
      PROVE  Awaited(i, n)'
    <2>1. CASE m = n
        BY <1>3, <2>1 DEF End, Announce, Write, Awaited, Due, Fresh, TypeOK
    <2>2. CASE m # n
        <3>1. /\ status'[n] = status[n] /\ unsent \subseteq unsent'
              /\ UNCHANGED <<channel, outgoing, view, handler, inbox>>
            BY <1>3, <2>2 DEF End, Announce, Write, TypeOK, server, client
        <3> QED
            BY <3>1, DueStays, RightStays DEF Awaited, InChannel
    <2> QED
        BY <2>1, <2>2
<1>4. ASSUME NEW m \in Missions, Cancel(m)
      PROVE  Awaited(i, n)'
    <2>1. CASE m = n
        BY <1>4, <2>1 DEF Cancel, Announce, Write, Awaited, Due, Fresh, TypeOK
    <2>2. CASE m # n
        <3>1. /\ status'[n] = status[n] /\ unsent \subseteq unsent'
              /\ UNCHANGED <<channel, outgoing, view, handler, inbox>>
            BY <1>4, <2>2 DEF Cancel, Announce, Write, TypeOK, server, client
        <3> QED
            BY <3>1, DueStays, RightStays DEF Awaited, InChannel
    <2> QED
        BY <2>1, <2>2
<1>5. ASSUME NEW e \in Event, Publish(e)
      PROVE  Awaited(i, n)'
    <2>1. /\ UNCHANGED <<status, outgoing, view, handler, inbox>> /\ unsent' = unsent \ {e}
          /\ channel' = Append(channel, e) /\ channel \in Seq(Event)
        BY <1>5 DEF Publish, client, TypeOK
    <2>2. /\ DOMAIN channel' = DOMAIN channel \cup {Len(channel) + 1}
          /\ \A k \in DOMAIN channel : channel'[k] = channel[k]
          /\ channel'[Len(channel) + 1] = e
        BY <2>1, AppendEntries
    <2>3. CASE e.mission = n
        BY <2>2, <2>3 DEF Awaited, Due, InChannel
    <2>4. CASE e.mission # n
        <3>1. \A s : [mission |-> n, to |-> s] # e
            BY <2>4
        <3>2. InChannel(n) => InChannel(n)'
            BY <2>2 DEF InChannel
        <3> QED
            BY <2>1, <3>1, <3>2, DueStays, RightStays DEF Awaited
    <2> QED
        BY <2>3, <2>4
<1>6. ASSUME NEW e \in Event, LoseEvent(e)
      PROVE  Awaited(i, n)'
    <2>1. UNCHANGED <<status, channel, outgoing, view, handler, inbox>> /\ unsent' = unsent \ {e}
        BY <1>6 DEF LoseEvent, server, client
    <2>2. e.mission # n
        BY <1>6 DEF LoseEvent, ExcuseIf, TypeOK
    <2>3. \A s : [mission |-> n, to |-> s] # e
        BY <2>2
    <2> QED
        BY <2>1, <2>3, DueStays, RightStays DEF Awaited, InChannel
<1>7. CASE TakeEvent
    <2>1. UNCHANGED <<services, view, handler, inbox>> /\ outgoing = {}
        BY <1>7 DEF TakeEvent, client
    <2>2. CASE InChannel(n)
        BY <1>7, <2>2, TakenIsDue DEF Awaited
    <2>3. CASE ~InChannel(n)
        BY <2>1, <2>3, DueStays, RightStays DEF Awaited, services
    <2> QED
        BY <2>2, <2>3
<1>8. CASE PushEnds
    BY <1>8 DEF PushEnds
<1>9. CASE Crash
    BY <1>9 DEF Crash
<1>10. CASE Restart
    BY <1>10 DEF Restart, SocketInv
<1>11. ASSUME NEW j \in Visits, ReadMissions(j)
      PROVE  Awaited(i, n)'
    <2>1. CASE j = i
        <3>1. /\ handler' \in {[handler EXCEPT ![i] = Read(status)],
                             [handler EXCEPT ![i] = Read([m \in Missions |-> "absent"])]}
              /\ UNCHANGED status
            BY <1>11, <2>1 DEF ReadMissions, services
        <3>2. /\ Read(status).pc = "read" /\ Read(status).missions = status
              /\ Read([m \in Missions |-> "absent"]).pc = "read"
              /\ Read([m \in Missions |-> "absent"]).missions = [m \in Missions |-> "absent"]
              /\ handler \in [Visits -> Handler]
            BY MessageTypes DEF TypeOK
        <3> QED
            BY <3>1, <3>2 DEF Awaited, WillBeRight, Right
    <2>2. CASE j # i
        <3>1. handler'[i] = handler[i] /\ inbox'[i] = inbox[i]
            BY <1>11, <2>2 DEF ReadMissions, TypeOK
        <3> QED
            BY <1>11, <3>1, AwaitedStays DEF ReadMissions, server, client
    <2> QED
        BY <2>1, <2>2
<1>12. ASSUME NEW j \in Visits, SendSnapshot(j)
      PROVE  Awaited(i, n)'
    <2>1. CASE j = i
        <3>1. UNCHANGED <<status, unsent, channel, outgoing>>
            BY <1>12 DEF SendSnapshot, services, server
        <3> QED
            BY <1>12, <2>1, <3>1, SnapshotAwaited, DueStays DEF Awaited, InChannel
    <2>2. CASE j # i
        <3>1. handler'[i] = handler[i] /\ inbox'[i] = inbox[i]
            BY <1>12, <2>2 DEF SendSnapshot, TypeOK
        <3> QED
            BY <1>12, <3>1, AwaitedStays DEF SendSnapshot, server, client
    <2> QED
        BY <2>1, <2>2
<1>13. ASSUME NEW j \in Visits, HandlerFails(j)
      PROVE  Awaited(i, n)'
    <2>1. j # i
        BY <1>13 DEF HandlerFails, TypeOK
    <2>2. handler'[i] = handler[i] /\ inbox'[i] = inbox[i]
        BY <1>13, <2>1 DEF HandlerFails, TypeOK
    <2> QED
        BY <1>13, <2>2, AwaitedStays DEF HandlerFails, server, client
<1>14. ASSUME NEW j \in Visits, CutLink(j)
      PROVE  Awaited(i, n)'
    <2>1. j # i
        BY <1>14 DEF CutLink, TypeOK
    <2>2. handler'[i] = handler[i] /\ inbox'[i] = inbox[i]
        BY <1>14, <2>1 DEF CutLink, TypeOK
    <2> QED
        BY <1>14, <2>2, AwaitedStays DEF CutLink, server, client
<1>15. ASSUME NEW j \in Visits, NEW e \in Event, Broadcast(j, e)
      PROVE  Awaited(i, n)'
    <2>1. CASE j = i
        BY <1>15, <2>1, BroadcastAwaited
    <2>2. CASE j # i
        <3>1. /\ handler'[i] = handler[i] /\ inbox'[i] = inbox[i]
              /\ UNCHANGED <<services, channel, view>> /\ outgoing' = outgoing \ {<<j, e>>}
            BY <1>15, <2>2 DEF Broadcast, TypeOK, client
        <3> QED
            BY <2>2, <3>1, DueStays, RightStays DEF Awaited, InChannel, services
    <2> QED
        BY <2>1, <2>2
<1>16. ASSUME NEW j \in Visits, Mount(j)
      PROVE  Awaited(i, n)'
    BY <1>16, AwaitedStays DEF Mount, server
<1>17. ASSUME NEW j \in Visits, Unmount(j)
      PROVE  Awaited(i, n)'
    <2>1. CASE Live(j)
        <3>1. j # i
            BY <1>17, <2>1 DEF Unmount, Cleanup, Close, TypeOK
        <3>2. handler'[i] = handler[i] /\ inbox'[i] = inbox[i]
            BY <1>17, <2>1, <3>1 DEF Unmount, Cleanup, Close, TypeOK
        <3> QED
            BY <1>17, <3>2, AwaitedStays DEF Unmount, Cleanup, server
    <2>2. CASE ~Live(j)
        BY <1>17, <2>2, AwaitedStays DEF Unmount, Cleanup, server
    <2> QED
        BY <2>1, <2>2
<1>18. ASSUME NEW j \in Visits, Open(j)
      PROVE  Awaited(i, n)'
    <2>1. j # i
        BY <1>18 DEF Open, TypeOK
    <2>2. handler'[i] = handler[i] /\ inbox'[i] = inbox[i]
        BY <1>18, <2>1 DEF Open, TypeOK
    <2> QED
        BY <1>18, <2>2, AwaitedStays DEF Open, server, client
<1>19. ASSUME NEW j \in Visits, Refused(j)
      PROVE  Awaited(i, n)'
    BY <1>19, AwaitedStays DEF Refused, server
<1>20. ASSUME NEW j \in Visits, HeartbeatTimeout(j)
      PROVE  Awaited(i, n)'
    <2>1. j # i
        BY <1>20 DEF HeartbeatTimeout, Close, TypeOK
    <2>2. handler'[i] = handler[i] /\ inbox'[i] = inbox[i]
        BY <1>20, <2>1 DEF HeartbeatTimeout, Close, TypeOK
    <2> QED
        BY <1>20, <2>2, AwaitedStays DEF HeartbeatTimeout, server, client
<1>21. ASSUME NEW j \in Visits, OnClose(j)
      PROVE  Awaited(i, n)'
    BY <1>21, AwaitedStays DEF OnClose, server
<1>22. ASSUME NEW j \in Visits, Reconnect(j)
      PROVE  Awaited(i, n)'
    BY <1>22, AwaitedStays DEF Reconnect, server
<1>23. ASSUME NEW j \in Visits, Receive(j)
      PROVE  Awaited(i, n)'
    <2>1. j = i
        BY <1>23, OneOpenSocket DEF Receive
    <2>2. UNCHANGED <<services, server, handler>>
        BY <1>23 DEF Receive
    <2>3. view[n] # "garbled"
        BY OpenIsMounted DEF ListInv
    <2>4. InboxRight(i, n) => InboxRight(i, n)'
        BY <1>23, <2>1, <2>3, RightReceived
    <2> QED
        BY <2>2, <2>4, DueStays DEF Awaited, WillBeRight, Right, InChannel, services, server
<1>24. ASSUME NEW m \in Missions, Upsert(m)
      PROVE  Awaited(i, n)'
    <2>1. CASE m = n
        BY <1>24, <2>1, UpsertAwaited
    <2>2. CASE m # n
        <3>1. view'[n] = view[n]
            BY <1>24, <2>2 DEF Upsert, TypeOK
        <3> QED
            BY <1>24, <3>1, DueStays, RightStays DEF Upsert, Awaited, InChannel, server
    <2> QED
        BY <2>1, <2>2
<1>25. CASE StoreAnswer
    BY <1>25, AnswerCloses
<1>26. CASE UNCHANGED vars
    BY <1>26, AwaitedStays DEF vars, server, client
<1> QED
    BY <1>1, <1>2, <1>3, <1>4, <1>5, <1>6, <1>7, <1>8, <1>9, <1>10, <1>11, <1>12,
       <1>13, <1>14, <1>15, <1>16, <1>17, <1>18, <1>19, <1>20, <1>21, <1>22, <1>23,
       <1>24, <1>25, <1>26
    DEF Next, Services, Gateway, Browser

\* A socket that has just opened has a handler that is to read the rows.
LEMMA OpenedIsBuilding ==
    ASSUME TypeOK, [Next]_vars, NEW j \in Visits, socket[j] # "open", socket'[j] = "open"
    PROVE  handler'[j] = Building
<1>1. ASSUME NEW m \in Missions, Insert(m)
      PROVE  handler'[j] = Building
    BY <1>1 DEF Insert, Announce, Write, client
<1>2. ASSUME NEW m \in Missions, Start(m)
      PROVE  handler'[j] = Building
    BY <1>2 DEF Start, Announce, Write, client
<1>3. ASSUME NEW m \in Missions, End(m)
      PROVE  handler'[j] = Building
    BY <1>3 DEF End, Announce, Write, client
<1>4. ASSUME NEW m \in Missions, Cancel(m)
      PROVE  handler'[j] = Building
    BY <1>4 DEF Cancel, Announce, Write, client
<1>5. ASSUME NEW e \in Event, Publish(e)
      PROVE  handler'[j] = Building
    BY <1>5 DEF Publish, client
<1>6. ASSUME NEW e \in Event, LoseEvent(e)
      PROVE  handler'[j] = Building
    BY <1>6 DEF LoseEvent, client
<1>7. CASE TakeEvent
    BY <1>7 DEF TakeEvent, client
<1>8. CASE PushEnds
    BY <1>8 DEF PushEnds, client
<1>9. CASE Crash
    BY <1>9 DEF Crash, TypeOK
<1>10. CASE Restart
    BY <1>10 DEF Restart, client
<1>11. ASSUME NEW i \in Visits, ReadMissions(i)
      PROVE  handler'[j] = Building
    BY <1>11 DEF ReadMissions, client
<1>12. ASSUME NEW i \in Visits, SendSnapshot(i)
      PROVE  handler'[j] = Building
    BY <1>12 DEF SendSnapshot, client
<1>13. ASSUME NEW i \in Visits, HandlerFails(i)
      PROVE  handler'[j] = Building
    BY <1>13 DEF HandlerFails, TypeOK
<1>14. ASSUME NEW i \in Visits, CutLink(i)
      PROVE  handler'[j] = Building
    BY <1>14 DEF CutLink, TypeOK
<1>15. ASSUME NEW i \in Visits, NEW e \in Event, Broadcast(i, e)
      PROVE  handler'[j] = Building
    BY <1>15 DEF Broadcast, client
<1>16. ASSUME NEW i \in Visits, Mount(i)
      PROVE  handler'[j] = Building
    BY <1>16 DEF Mount, TypeOK
<1>17. ASSUME NEW i \in Visits, Unmount(i)
      PROVE  handler'[j] = Building
    BY <1>17 DEF Unmount, Cleanup, Close, TypeOK
<1>18. ASSUME NEW i \in Visits, Open(i)
      PROVE  handler'[j] = Building
    BY <1>18 DEF Open, TypeOK
<1>19. ASSUME NEW i \in Visits, Refused(i)
      PROVE  handler'[j] = Building
    BY <1>19 DEF Refused, TypeOK
<1>20. ASSUME NEW i \in Visits, HeartbeatTimeout(i)
      PROVE  handler'[j] = Building
    BY <1>20 DEF HeartbeatTimeout, Close, TypeOK
<1>21. ASSUME NEW i \in Visits, OnClose(i)
      PROVE  handler'[j] = Building
    BY <1>21 DEF OnClose, TypeOK
<1>22. ASSUME NEW i \in Visits, Reconnect(i)
      PROVE  handler'[j] = Building
    BY <1>22 DEF Reconnect, TypeOK
<1>23. ASSUME NEW i \in Visits, Receive(i)
      PROVE  handler'[j] = Building
    BY <1>23 DEF Receive, client
<1>24. ASSUME NEW m \in Missions, Upsert(m)
      PROVE  handler'[j] = Building
    BY <1>24 DEF Upsert, client
<1>25. CASE StoreAnswer
    BY <1>25 DEF StoreAnswer, Cleanup, Close, TypeOK
<1>26. CASE UNCHANGED vars
    BY <1>26 DEF vars, client
<1> QED
    BY <1>1, <1>2, <1>3, <1>4, <1>5, <1>6, <1>7, <1>8, <1>9, <1>10, <1>11, <1>12,
       <1>13, <1>14, <1>15, <1>16, <1>17, <1>18, <1>19, <1>20, <1>21, <1>22, <1>23,
       <1>24, <1>25, <1>26
    DEF Next, Services, Gateway, Browser

\* A push loop is started with the gateway, when no socket is open.
LEMMA RunsOnlyAfterRestart ==
    ASSUME [Next]_vars, push # "running", push' = "running"
    PROVE  gateway = "down"
<1>1. ASSUME NEW m \in Missions, Insert(m)
      PROVE  gateway = "down"
    BY <1>1 DEF Insert, Announce, Write, server
<1>2. ASSUME NEW m \in Missions, Start(m)
      PROVE  gateway = "down"
    BY <1>2 DEF Start, Announce, Write, server
<1>3. ASSUME NEW m \in Missions, End(m)
      PROVE  gateway = "down"
    BY <1>3 DEF End, Announce, Write, server
<1>4. ASSUME NEW m \in Missions, Cancel(m)
      PROVE  gateway = "down"
    BY <1>4 DEF Cancel, Announce, Write, server
<1>5. ASSUME NEW e \in Event, Publish(e)
      PROVE  gateway = "down"
    BY <1>5 DEF Publish, server
<1>6. ASSUME NEW e \in Event, LoseEvent(e)
      PROVE  gateway = "down"
    BY <1>6 DEF LoseEvent, server
<1>7. CASE TakeEvent
    BY <1>7 DEF TakeEvent, server
<1>8. CASE PushEnds
    BY <1>8 DEF PushEnds, server
<1>9. CASE Crash
    BY <1>9 DEF Crash, server
<1>10. CASE Restart
    BY <1>10 DEF Restart
<1>11. ASSUME NEW i \in Visits, ReadMissions(i)
      PROVE  gateway = "down"
    BY <1>11 DEF ReadMissions, server
<1>12. ASSUME NEW i \in Visits, SendSnapshot(i)
      PROVE  gateway = "down"
    BY <1>12 DEF SendSnapshot, server
<1>13. ASSUME NEW i \in Visits, HandlerFails(i)
      PROVE  gateway = "down"
    BY <1>13 DEF HandlerFails, server
<1>14. ASSUME NEW i \in Visits, CutLink(i)
      PROVE  gateway = "down"
    BY <1>14 DEF CutLink, server
<1>15. ASSUME NEW i \in Visits, NEW e \in Event, Broadcast(i, e)
      PROVE  gateway = "down"
    BY <1>15 DEF Broadcast, server
<1>16. ASSUME NEW i \in Visits, Mount(i)
      PROVE  gateway = "down"
    BY <1>16 DEF Mount, server
<1>17. ASSUME NEW i \in Visits, Unmount(i)
      PROVE  gateway = "down"
    BY <1>17 DEF Unmount, server
<1>18. ASSUME NEW i \in Visits, Open(i)
      PROVE  gateway = "down"
    BY <1>18 DEF Open, server
<1>19. ASSUME NEW i \in Visits, Refused(i)
      PROVE  gateway = "down"
    BY <1>19 DEF Refused, server
<1>20. ASSUME NEW i \in Visits, HeartbeatTimeout(i)
      PROVE  gateway = "down"
    BY <1>20 DEF HeartbeatTimeout, server
<1>21. ASSUME NEW i \in Visits, OnClose(i)
      PROVE  gateway = "down"
    BY <1>21 DEF OnClose, server
<1>22. ASSUME NEW i \in Visits, Reconnect(i)
      PROVE  gateway = "down"
    BY <1>22 DEF Reconnect, server
<1>23. ASSUME NEW i \in Visits, Receive(i)
      PROVE  gateway = "down"
    BY <1>23 DEF Receive, server
<1>24. ASSUME NEW m \in Missions, Upsert(m)
      PROVE  gateway = "down"
    BY <1>24 DEF Upsert, server
<1>25. CASE StoreAnswer
    BY <1>25 DEF StoreAnswer, server
<1>26. CASE UNCHANGED vars
    BY <1>26 DEF vars, server
<1> QED
    BY <1>1, <1>2, <1>3, <1>4, <1>5, <1>6, <1>7, <1>8, <1>9, <1>10, <1>11, <1>12,
       <1>13, <1>14, <1>15, <1>16, <1>17, <1>18, <1>19, <1>20, <1>21, <1>22, <1>23,
       <1>24, <1>25, <1>26
    DEF Next, Services, Gateway, Browser

\* What is known of an open socket before a step, or its having just been opened,
\* gives what is known after it.
LEMMA StepViewInv ==
    ASSUME IndInv, [Next]_vars
    PROVE  ViewInv'
<1> USE DEF IndInv
<1> SUFFICES ASSUME push' = "running", \A k \in Visits : phase'[k] # "abandoned",
                    NEW i \in Visits, NEW n \in Missions, socket'[i] = "open", ~excused'[n]
             PROVE  Awaited(i, n)'
    BY DEF ViewInv, Awaited
<1>1. \A k \in Visits : phase[k] # "abandoned"
    BY AbandonedStays
<1>2. CASE excused[n]
    <2>1. Quiet(n)' /\ \E j \in Visits : Receive(j) /\ view'[n] = status'[n]
        BY <1>2, ExcusedStays
    <2>2. UNCHANGED <<socket, handler>>
        BY <2>1 DEF Receive, client
    <2>3. handler'[i] \in {Building, Serving} /\ inbox'[i] = <<>>
        <3>1. handler'[i].pc # "read" /\ inbox'[i] = <<>>
            BY <2>1 DEF Quiet
        <3>2. handler[i] \in Handler /\ handler[i] # None
            BY <2>2 DEF SocketInv, TypeOK
        <3> QED
            BY <2>2, <3>1, <3>2, HandlerCases
    <2>4. DOMAIN <<>> = {}
        BY EmptySeq, LenProperties
    <2> QED
        BY <2>1, <2>3, <2>4 DEF Awaited, WillBeRight, InboxRight, Right
<1>3. CASE ~excused[n] /\ socket[i] = "open" /\ push = "running"
    BY <1>1, <1>3, StaysAwaited DEF ViewInv, Awaited
<1>4. CASE socket[i] # "open"
    BY <1>4, OpenedIsBuilding DEF Awaited, WillBeRight
<1>5. CASE socket[i] = "open" /\ push # "running"
    BY <1>5, RunsOnlyAfterRestart DEF SocketInv
<1> QED
    BY <1>2, <1>3, <1>4, <1>5

-----------------------------------------------------------------------------
(* Theorems.                                                               *)

\* The initial state satisfies the invariant.
LEMMA InitIndInv == Init => IndInv
<1> SUFFICES ASSUME Init PROVE IndInv
    OBVIOUS
<1>1. TypeOK
    BY MessageTypes, ConsoleAssumption DEF Init, TypeOK, Statuses, Shown
<1>2. DOMAIN <<>> = {} /\ None.pc = "none"
    BY EmptySeq, LenProperties, MessageTypes
<1>3. SocketInv /\ CleanUnmount
    BY DEF Init, SocketInv, CleanUnmount, Live
<1>4. EventInv /\ ListInv /\ RowInv
    BY <1>2 DEF Init, EventInv, UnderWay, Sent, ListInv, RowInv
<1>5. LastEventInv /\ ViewInv
    BY <1>2 DEF Init, LastEventInv, ViewInv
<1> QED
    BY <1>1, <1>3, <1>4, <1>5 DEF IndInv

\* The invariant holds in every state.
THEOREM Invariance == Spec => []IndInv
<1>1. ASSUME IndInv, [Next]_vars
      PROVE  IndInv'
    BY <1>1, StepTypeOK, StepSocketInv, StepCleanUnmount, StepEventInv, StepListInv, StepRowInv,
       StepLastEventInv, StepViewInv DEF IndInv
<1> QED
    BY InitIndInv, <1>1, PTL DEF Spec

\* Every variable has its type, a socket that is not open has no handler, and a
\* reconnect timer runs only when its socket is closed.
THEOREM TypeCorrect == Spec => []TypeOK
<1>1. IndInv => TypeOK
    BY DEF IndInv
<1> QED
    BY Invariance, <1>1, PTL

\* A page left while it waits to reconnect (useWebSocket's cleanup) leaves neither a
\* socket nor a timer behind, whatever happens afterwards.
THEOREM UnmountIsClean == Spec => []CleanUnmount
<1>1. IndInv => CleanUnmount
    BY DEF IndInv
<1> QED
    BY Invariance, <1>1, PTL

\* At rest the missions listed on the console have their status, for every number of
\* missions, visits, reconnects, crashes, cut links and lost events, but for the excused ones.
THEOREM ViewIsRight == Spec => []StaleForAReason
<1>1. IndInv => StaleForAReason
    <2> SUFFICES ASSUME IndInv, AtRest, \A i \in Visits : phase[i] # "abandoned",
                        NEW m \in Missions
                 PROVE  ~excused[m] => view[m] \in {"absent", status[m]}
        BY Zenon DEF StaleForAReason
    <2> HAVE ~excused[m]
    <2>1. PICK i \in Visits : socket[i] = "open"
        BY DEF AtRest
    <2>2. /\ push = "running" /\ Quiet(m) /\ inbox[i] = <<>>
          /\ handler[i] = Serving
        BY <2>1 DEF AtRest, Quiet, IndInv, SocketInv, CleanUnmount, Live, TypeOK
    <2>3. DOMAIN <<>> = {} /\ Serving # Building /\ Serving.pc # "read"
        BY EmptySeq, LenProperties, MessageTypes
    <2>4. ~Due(i, m)
        BY <2>2 DEF Due, Fresh, InChannel, Quiet
    <2>5. Due(i, m) \/ WillBeRight(i, m)
        BY <2>1, <2>2 DEF IndInv, ViewInv
    <2> QED
        BY <2>2, <2>3, <2>4, <2>5 DEF WillBeRight, InboxRight, Right
<1> QED
    BY Invariance, <1>1, PTL

================================================================================
