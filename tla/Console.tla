-------------------------------- MODULE Console --------------------------------
(***************************************************************************)
(* The list of missions on the console: the events that the services       *)
(* publish, the gateway's push loop and WebSocket handlers                 *)
(* (api_gateway/main.py), and the browser's hook and stores                *)
(* (frontend/src/hooks/useWebSocket.ts, store/missionStore.ts).  The same  *)
(* store takes the answers to the requests of the page's list and form     *)
(* (components/mission/MissionList.tsx, MissionForm.tsx).                  *)
(*                                                                         *)
(* A visit is one mount of the monitor page, with the sockets that its     *)
(* hook opens one after the other; all visits of a browser tab share the   *)
(* store.  Agents, stream depths and circuits are left out: the stream     *)
(* depths that the push loop sends every second only matter as a sign of   *)
(* life (see Silent).  So is the limit of 50 missions to a snapshot.       *)
(***************************************************************************)
EXTENDS Integers, Sequences

CONSTANTS
    Missions,
    MaxVisits,      \* bound on the mounts of the monitor page
    Ends,           \* the statuses the coordinator ends a mission with
    MaxRetries,     \* MAX_RETRIES, 5 in the code
    MaxFaults       \* bound on crashes, lost events, failed handlers and links

VARIABLES
    status,     \* status[m]: column status, "absent" before the row exists
    wrote,      \* wrote[m]: which writes of the row of m are made, or "aborted"
    unsent,     \* events whose row is committed and that are not published yet
    form,       \* form[m]: the page's request that creates m, "none", "waiting" or its "reply"
    channel,    \* live_events_channel: events that the push loop has not read
    gateway,    \* "up" or "down"
    push,       \* _stream_push_loop: "running" or "ended"
    outgoing,   \* the broadcast: pairs of a socket still to be served and the event
    handler,    \* handler[i]: ws_console of the socket of visit i
    inbox,      \* inbox[i]: messages on their way to the socket of visit i
    phase,      \* phase[i]: "new", "mounted", "left", or "abandoned" (left with a live socket)
    socket,     \* socket[i]: the WebSocket of wsRef
    retries,    \* retries[i]: retryCountRef
    timer,      \* timer[i]: whether retryTimerRef is pending
    rendered,   \* whether React shows the application
    view,       \* view[m]: status of m in the store, "absent" when not listed, or
                \* "garbled" when what the store holds is no list
    faults,     \* how many faults have happened
    excused     \* history: excused[m], see StaleForAReason

services == <<status, wrote, unsent, form>>
server == <<channel, gateway, push, outgoing>>
client == <<phase, socket, retries, timer, rendered>>
vars == <<services, server, handler, inbox, client, view, faults, excused>>

ASSUME ConsoleAssumption ==
    /\ Ends \subseteq {"completed", "failed"}
    /\ MaxVisits \in Nat
    /\ MaxRetries \in Nat
    /\ MaxFaults \in Nat

\* Visits follow each other.
Visits == 1 .. MaxVisits

Announced == {"running", "completed", "failed", "cancelled"}
Statuses == {"absent", "pending"} \cup Announced
Shown == Statuses \cup {"garbled"}

\* A mission_event, named by the status it announces.
Event == [mission : Missions, to : Announced]

None == [pc |-> "none"]
Building == [pc |-> "building"]
Serving == [pc |-> "serving"]
Read(rows) == [pc |-> "read", missions |-> rows]

Snapshot(rows) == [type |-> "snapshot", missions |-> rows]
MissionEvent(e) == [type |-> "mission_event", event |-> e]

Init ==
    /\ status = [m \in Missions |-> "absent"]
    /\ wrote = [m \in Missions |-> {}]
    /\ unsent = {}
    /\ form = [m \in Missions |-> "none"]
    /\ channel = <<>>
    /\ gateway = "up" /\ push = "running"
    /\ outgoing = {}
    /\ handler = [i \in Visits |-> None]
    /\ inbox = [i \in Visits |-> <<>>]
    /\ phase = [i \in Visits |-> "new"]
    /\ socket = [i \in Visits |-> "none"]
    /\ retries = [i \in Visits |-> 0]
    /\ timer = [i \in Visits |-> FALSE]
    /\ rendered = TRUE
    /\ view = [m \in Missions |-> "absent"]
    /\ faults = 0
    /\ excused = [m \in Missions |-> FALSE]

SpendFault == faults < MaxFaults /\ faults' = faults + 1

ExcuseIf(condition, m) == excused' = IF condition THEN [excused EXCEPT ![m] = TRUE] ELSE excused

-----------------------------------------------------------------------------
(* The services write a row and then publish.  What a service read before  *)
(* it writes may be outdated (module Missions), so that nothing but the    *)
(* mission's beginning orders the writes.                                  *)

Write(m, service, s) ==
    /\ service \notin wrote[m]
    /\ wrote' = [wrote EXCEPT ![m] = @ \cup {service}]
    /\ status' = [status EXCEPT ![m] = s]
    /\ UNCHANGED <<server, handler, inbox, client, view, faults>>

\* create_mission inserts the row, without an event.  The request is taken to be
\* that of a form if any page was opened: that of another client is like one whose
\* answer never arrives.
Insert(m) ==
    /\ gateway = "up"
    /\ Write(m, "insert", "pending")
    /\ form' = IF \E i \in Visits : phase[i] # "new" THEN [form EXCEPT ![m] = "waiting"] ELSE form
    /\ UNCHANGED <<unsent, excused>>

Announce(m, service, s) ==
    /\ "insert" \in wrote[m]
    /\ Write(m, service, s)
    /\ unsent' = unsent \cup {[mission |-> m, to |-> s]}
    /\ UNCHANGED form

Start(m) ==
    /\ gateway = "up" /\ "aborted" \notin wrote[m]
    /\ Announce(m, "start", "running")
    /\ UNCHANGED excused

\* The coordinator's completion check.
End(m) ==
    /\ "start" \in wrote[m]
    /\ \E s \in Ends : Announce(m, "end", s)
    /\ UNCHANGED excused

\* No console shows a cancellation by its event.
Cancel(m) == gateway = "up" /\ Announce(m, "cancel", "cancelled") /\ ExcuseIf(TRUE, m)

\* create_mission answers when it has published the mission's start, or fails.
Answer(e, reply) ==
    form' = IF e.to = "running" /\ form[e.mission] = "waiting"
            THEN [form EXCEPT ![e.mission] = reply] ELSE form

\* Redis hands an event to whoever is subscribed at this moment.
Publish(e) ==
    /\ e \in unsent
    /\ unsent' = unsent \ {e}
    /\ channel' = IF push = "running" THEN Append(channel, e) ELSE channel
    /\ Answer(e, "reply")
    /\ ExcuseIf(status[e.mission] # e.to, e.mission)
    /\ UNCHANGED <<status, wrote, gateway, push, outgoing, handler, inbox, client, view, faults>>

\* The service crashes before it publishes, or Redis refuses.
LoseEvent(e) ==
    /\ e \in unsent
    /\ SpendFault
    /\ unsent' = unsent \ {e}
    /\ Answer(e, "none")
    /\ ExcuseIf(TRUE, e.mission)
    /\ UNCHANGED <<status, wrote, server, handler, inbox, client, view>>

-----------------------------------------------------------------------------
(* The gateway.                                                            *)

Registered == {i \in Visits : handler[i] # None}

\* A faulty variant: only sockets that have been sent their snapshot.
ServedOnly ==
    /\ push = "running"
    /\ outgoing = {}
    /\ channel # <<>>
    /\ outgoing' = {i \in Visits : handler[i] = Serving} \X {Head(channel)}
    /\ channel' = Tail(channel)
    /\ UNCHANGED <<services, gateway, push, handler, inbox, client, view, faults, excused>>

\* The push loop takes an event and the list of connections ...
TakeEvent ==
    /\ push = "running"
    /\ outgoing = {}
    /\ channel # <<>>
    /\ outgoing' = Registered \X {Head(channel)}
    /\ channel' = Tail(channel)
    /\ UNCHANGED <<services, gateway, push, handler, inbox, client, view, faults, excused>>

\* ... and serves one after the other; a message to a dead socket is lost.
Broadcast(i, e) ==
    /\ <<i, e>> \in outgoing
    /\ outgoing' = outgoing \ {<<i, e>>}
    /\ inbox' = IF handler[i] # None /\ socket[i] = "open"
                THEN [inbox EXCEPT ![i] = Append(@, MissionEvent(e))] ELSE inbox
    /\ ExcuseIf(handler[i].pc = "read", e.mission)
    /\ UNCHANGED <<services, channel, gateway, push, handler, client, view, faults>>

\* pubsub.get_message raises, which ends the loop and its subscription.
PushEnds ==
    /\ push = "running"
    /\ outgoing = {}
    /\ SpendFault
    /\ push' = "ended"
    /\ channel' = <<>>
    /\ UNCHANGED <<services, gateway, outgoing, handler, inbox, client, view, excused>>

\* _build_snapshot reads the missions last; an error leaves them out.
ReadMissions(i) ==
    /\ handler[i] = Building
    /\ \/ handler' = [handler EXCEPT ![i] = Read(status)] /\ UNCHANGED faults
       \/ handler' = [handler EXCEPT ![i] = Read([m \in Missions |-> "absent"])] /\ SpendFault
    /\ UNCHANGED <<services, server, inbox, client, view, excused>>

SendSnapshot(i) ==
    /\ handler[i].pc = "read"
    /\ handler' = [handler EXCEPT ![i] = Serving]
    /\ inbox' = IF socket[i] = "open"
                THEN [inbox EXCEPT ![i] = Append(@, Snapshot(handler[i].missions))] ELSE inbox
    /\ UNCHANGED <<services, server, client, view, faults, excused>>

\* A handler or its link fails, and both ends learn of it.
HandlerFails(i) ==
    /\ handler[i] # None
    /\ SpendFault
    /\ handler' = [handler EXCEPT ![i] = None]
    /\ inbox' = [inbox EXCEPT ![i] = <<>>]
    /\ socket' = [socket EXCEPT ![i] = "closing"]
    /\ UNCHANGED <<services, server, phase, retries, timer, rendered, view, excused>>

\* The link is cut and neither end learns of it.
CutLink(i) ==
    /\ socket[i] = "open"
    /\ SpendFault
    /\ socket' = [socket EXCEPT ![i] = "cut"]
    /\ inbox' = [inbox EXCEPT ![i] = <<>>]
    /\ UNCHANGED <<services, server, handler, phase, retries, timer, rendered, view, excused>>

\* With the gateway go its requests, and what they have not published; an answer
\* that it has sent may still arrive.
Crash ==
    /\ gateway = "up"
    /\ SpendFault
    /\ gateway' = "down" /\ push' = "ended"
    /\ unsent' = {e \in unsent : e.to \in Ends}
    /\ wrote' = [m \in Missions |-> IF wrote[m] = {} THEN {} ELSE wrote[m] \cup {"aborted"}]
    /\ form' = [m \in Missions |-> IF form[m] = "waiting" THEN "none" ELSE form[m]]
    /\ channel' = <<>> /\ outgoing' = {}
    /\ handler' = [i \in Visits |-> None]
    /\ inbox' = [i \in Visits |-> <<>>]
    /\ socket' = [i \in Visits |-> IF socket[i] = "open" THEN "closing" ELSE socket[i]]
    /\ UNCHANGED <<status, phase, retries, timer, rendered, view, excused>>

\* lifespan starts a new push loop.
Restart ==
    /\ gateway = "down"
    /\ gateway' = "up" /\ push' = "running"
    /\ UNCHANGED <<services, channel, outgoing, handler, inbox, client, view, faults, excused>>

-----------------------------------------------------------------------------
(* The hook.                                                               *)

Live(i) == socket[i] \in {"connecting", "open", "cut", "closing"}

Mount(i) ==
    /\ rendered
    /\ phase[i] = "new"
    /\ \A j \in 1 .. i - 1 : phase[j] \in {"left", "abandoned"}
    /\ phase' = [phase EXCEPT ![i] = "mounted"]
    /\ socket' = [socket EXCEPT ![i] = "connecting"]
    /\ UNCHANGED <<services, server, handler, inbox, retries, timer, rendered, view, faults, excused>>

\* The client's end of a socket goes; the handler notices when it next
\* receives or sends, and what is sent to it meanwhile is lost.
Close(i) ==
    /\ socket' = [socket EXCEPT ![i] = "closing"]
    /\ handler' = [handler EXCEPT ![i] = None]
    /\ inbox' = [inbox EXCEPT ![i] = <<>>]

\* A faulty variant: the cleanup forgets the reconnect timer.
CleanupSocket(i) ==
    /\ phase[i] = "mounted"
    /\ IF Live(i)
       THEN Close(i) /\ phase' = [phase EXCEPT ![i] = "abandoned"]
       ELSE phase' = [phase EXCEPT ![i] = "left"] /\ UNCHANGED <<socket, handler, inbox>>
    /\ UNCHANGED timer

\* The cleanup clears the timers and closes the socket, if it is not closed.
Cleanup(i) ==
    /\ phase[i] = "mounted"
    /\ timer' = [timer EXCEPT ![i] = FALSE]
    /\ IF Live(i)
       THEN Close(i) /\ phase' = [phase EXCEPT ![i] = "abandoned"]
       ELSE phase' = [phase EXCEPT ![i] = "left"] /\ UNCHANGED <<socket, handler, inbox>>

Unmount(i) ==
    /\ Cleanup(i)
    /\ UNCHANGED <<services, server, retries, rendered, view, faults, excused>>

\* manager.connect registers the socket before its handler builds the snapshot.
Open(i) ==
    /\ socket[i] = "connecting"
    /\ gateway = "up"
    /\ socket' = [socket EXCEPT ![i] = "open"]
    /\ handler' = [handler EXCEPT ![i] = Building]
    /\ retries' = [retries EXCEPT ![i] = 0]
    /\ UNCHANGED <<services, server, inbox, phase, timer, rendered, view, faults, excused>>

Refused(i) ==
    /\ socket[i] = "connecting"
    /\ \/ gateway = "down" /\ UNCHANGED faults
       \/ gateway = "up" /\ SpendFault
    /\ socket' = [socket EXCEPT ![i] = "closing"]
    /\ UNCHANGED <<services, server, handler, inbox, phase, retries, timer, rendered, view, excused>>

\* A faulty variant: the handler's pings come often enough.
SilentWhenCut(i) == socket[i] = "cut"

\* No message comes for 15 seconds: the handler's ping is due after 30, so
\* only the push loop's messages keep a socket open.  Snapshots and messages
\* under way are taken to arrive in less.
Silent(i) == socket[i] = "cut" \/ (socket[i] = "open" /\ push = "ended")

HeartbeatTimeout(i) ==
    /\ Silent(i)
    /\ inbox[i] = <<>>
    /\ handler[i] \in {None, Serving}
    /\ Close(i)
    /\ UNCHANGED <<services, server, phase, retries, timer, rendered, view, faults, excused>>

\* A faulty variant: a closed socket is not opened again.
StayClosed(i) ==
    /\ socket[i] = "closing"
    /\ socket' = [socket EXCEPT ![i] = "closed"]
    /\ UNCHANGED <<services, server, handler, inbox, phase, retries, timer, rendered, view, faults, excused>>

OnClose(i) ==
    /\ socket[i] = "closing"
    /\ socket' = [socket EXCEPT ![i] = "closed"]
    /\ IF retries[i] < MaxRetries
       THEN /\ retries' = [retries EXCEPT ![i] = @ + 1]
            /\ timer' = [timer EXCEPT ![i] = TRUE]
       ELSE UNCHANGED <<retries, timer>>
    /\ UNCHANGED <<services, server, handler, inbox, phase, rendered, view, faults, excused>>

\* A faulty variant: an interval instead of a timeout.
ReconnectAgain(i) ==
    /\ timer[i]
    /\ socket' = [socket EXCEPT ![i] = "connecting"]
    /\ UNCHANGED <<services, server, handler, inbox, phase, retries, timer, rendered, view, faults, excused>>

Reconnect(i) ==
    /\ timer[i]
    /\ timer' = [timer EXCEPT ![i] = FALSE]
    /\ socket' = [socket EXCEPT ![i] = "connecting"]
    /\ UNCHANGED <<services, server, handler, inbox, phase, retries, rendered, view, faults, excused>>

-----------------------------------------------------------------------------
(* The store.                                                              *)

\* Nothing about m is on its way.
Quiet(m) ==
    /\ \A e \in unsent : e.mission # m
    /\ \A k \in DOMAIN channel : channel[k].mission # m
    /\ \A p \in outgoing : p[2].mission # m
    /\ \A i \in Visits : handler[i].pc # "read" /\ inbox[i] = <<>>

\* setMissions replaces the list with that of a snapshot.
ApplySnapshot(rows) ==
    /\ view' = rows
    /\ excused' = [m \in Missions |-> excused[m] /\ ~(rows[m] = status[m] /\ Quiet(m)')]

\* updateMissionFromEvent knows neither missions that are not listed nor
\* cancellations, and throws when there is no list.
ApplyEvent(e) ==
    /\ view' = IF view[e.mission] \in {"absent", "garbled"} \/ e.to = "cancelled" THEN view
               ELSE [view EXCEPT ![e.mission] = e.to]
    /\ UNCHANGED excused

Receive(i) ==
    /\ socket[i] = "open"
    /\ inbox[i] # <<>>
    /\ inbox' = [inbox EXCEPT ![i] = Tail(@)]
    /\ UNCHANGED <<services, server, handler, client, faults>>
    /\ LET msg == Head(inbox[i])
       IN  IF msg.type = "snapshot" THEN ApplySnapshot(msg.missions) ELSE ApplyEvent(msg.event)

\* upsertMission puts the answer to the form's request on the list, by which the
\* mission is running; it throws when there is no list.
Upsert(m) ==
    /\ form[m] = "reply"
    /\ form' = [form EXCEPT ![m] = "none"]
    /\ view' = IF view[m] = "garbled" THEN view ELSE [view EXCEPT ![m] = "running"]
    /\ ExcuseIf(status[m] # "running", m)
    /\ UNCHANGED <<status, wrote, unsent, server, handler, inbox, client, faults>>

\* The list on the page asks for the missions when it is mounted and every 10 seconds
\* from then on.  The answer is an object with the missions as its items; setMissions
\* stores it as the list, also when the page has been left meanwhile.  Rendering it
\* throws: React shows nothing any more, and cleans the page up if it is mounted.
StoreAnswer ==
    /\ gateway = "up"
    /\ \E i \in Visits : phase[i] # "new"
    /\ rendered /\ rendered' = FALSE
    /\ view' = [m \in Missions |-> "garbled"]
    /\ \/ \E i \in Visits : Cleanup(i)
       \/ (\A i \in Visits : phase[i] # "mounted") /\ UNCHANGED <<phase, socket, timer, handler, inbox>>
    /\ UNCHANGED <<services, server, retries, faults, excused>>

-----------------------------------------------------------------------------
Services ==
    \/ \E m \in Missions : Insert(m) \/ Start(m) \/ End(m) \/ Cancel(m)
    \/ \E e \in Event : Publish(e) \/ LoseEvent(e)

Gateway ==
    \/ TakeEvent \/ PushEnds \/ Crash \/ Restart
    \/ \E i \in Visits : \/ ReadMissions(i) \/ SendSnapshot(i) \/ HandlerFails(i) \/ CutLink(i)
                         \/ \E e \in Event : Broadcast(i, e)

Browser ==
    \/ StoreAnswer
    \/ \E m \in Missions : Upsert(m)
    \/ \E i \in Visits : \/ Mount(i) \/ Unmount(i) \/ Open(i) \/ Refused(i)
                         \/ HeartbeatTimeout(i) \/ OnClose(i) \/ Reconnect(i) \/ Receive(i)

Next == Services \/ Gateway \/ Browser

(***************************************************************************)
(* Fairness.  Services go on to publish, coroutines of the gateway and     *)
(* timers and callbacks of the browser run, messages arrive or the socket  *)
(* closes, and compose restarts the gateway.  Nobody has to create, end or *)
(* cancel a mission, or to open or leave a page, and the page's requests   *)
(* may fail.                                                               *)
(***************************************************************************)
Fairness ==
    /\ WF_vars(TakeEvent) /\ WF_vars(Restart)
    /\ \A e \in Event : WF_vars(Publish(e)) /\ \A i \in Visits : WF_vars(Broadcast(i, e))
    /\ \A i \in Visits :
        /\ WF_vars(ReadMissions(i)) /\ WF_vars(SendSnapshot(i)) /\ WF_vars(Receive(i))
        /\ WF_vars(Open(i) \/ Refused(i)) /\ WF_vars(OnClose(i)) /\ WF_vars(Reconnect(i))
        /\ WF_vars(HeartbeatTimeout(i))

Spec == Init /\ [][Next]_vars

FairSpec == Spec /\ Fairness

-----------------------------------------------------------------------------
(* Properties.                                                             *)

Message == [type : {"snapshot"}, missions : [Missions -> Statuses]]
               \cup [type : {"mission_event"}, event : Event]

Handler == {None, Building, Serving} \cup {Read(rows) : rows \in [Missions -> Statuses]}

\* Types; a socket that is not open has no handler, and a timer no socket.
TypeOK ==
    /\ status \in [Missions -> Statuses]
    /\ wrote \in [Missions -> SUBSET {"insert", "start", "end", "cancel", "aborted"}]
    /\ unsent \subseteq Event
    /\ form \in [Missions -> {"none", "waiting", "reply"}]
    /\ channel \in Seq(Event)
    /\ gateway \in {"up", "down"}
    /\ push \in {"running", "ended"}
    /\ outgoing \subseteq Visits \X Event
    /\ handler \in [Visits -> Handler]
    /\ inbox \in [Visits -> Seq(Message)]
    /\ phase \in [Visits -> {"new", "mounted", "left", "abandoned"}]
    /\ socket \in [Visits -> {"none", "connecting", "open", "cut", "closing", "closed"}]
    /\ retries \in [Visits -> 0 .. MaxRetries]
    /\ timer \in [Visits -> BOOLEAN]
    /\ \A i \in Visits :
        /\ handler[i] # None => socket[i] \in {"open", "cut"}
        /\ timer[i] => socket[i] = "closed"
    /\ faults \in 0 .. MaxFaults
    /\ rendered \in BOOLEAN
    /\ view \in [Missions -> Shown]
    /\ excused \in [Missions -> BOOLEAN]

\* Every page that was opened has its socket and its snapshot, or left none.
AtRest ==
    /\ gateway = "up" /\ push = "running"
    /\ \A m \in Missions : Quiet(m)
    /\ \A i \in Visits : phase[i] \in {"new", "left"} \/ (socket[i] = "open" /\ handler[i] = Serving)
    /\ \E i \in Visits : socket[i] = "open"

(***************************************************************************)
(* Once everything has arrived, a mission on the list shows its status,    *)
(* whatever crashes, cut links and reconnects there were, unless, since    *)
(* the last snapshot that was right about it, it was cancelled, an event   *)
(* of it was published after the row had changed again or overtook a       *)
(* snapshot, or was never published, or the answer to the form that        *)
(* created it arrived after the row had changed again; or unless a page    *)
(* was left with a live socket, or taken down with it by the answer to its *)
(* poll, so that two sockets feed the store, each with its own delay.      *)
(***************************************************************************)
StaleForAReason ==
    AtRest /\ (\A i \in Visits : phase[i] # "abandoned") =>
        \A m \in Missions : view[m] \in {"absent", status[m]} \/ excused[m]

(***************************************************************************)
(* A page that is left while it waits to reconnect leaves no socket and no *)
(* timer behind.  (One that is left with a live socket does: the cleanup   *)
(* closes the socket, and onclose then starts a timer that nobody clears.) *)
(***************************************************************************)
CleanUnmount ==
    \A i \in Visits : phase[i] = "left" => ~Live(i) /\ ~timer[i]

GaveUp(i) == socket[i] = "closed" /\ ~timer[i]

(***************************************************************************)
(* A push loop that has ended is not noticed by the gateway, but by the    *)
(* browsers: for want of messages they reconnect every 15 seconds, and the *)
(* snapshots show in the end what the events do not, unless every hook has *)
(* given up or is gone.                                                    *)
(***************************************************************************)
ReconnectsMakeUpForThePush ==
    <>[](gateway = "up" /\ push = "ended") =>
        <>[](\/ view = status
             \/ \A i \in Visits : phase[i] \in {"new", "left"} \/ GaveUp(i))

(***************************************************************************)
(* Every hook that holds a socket, also of a page that was left, gets one  *)
(* with a snapshot again and again, or has given up: after MAX_RETRIES     *)
(* reconnects in a row, and never unless something has failed.             *)
(***************************************************************************)
SocketsComeBack ==
    \A i \in Visits :
        []<>(\/ phase[i] \in {"new", "left"}
             \/ socket[i] = "open" /\ handler[i] = Serving
             \/ GaveUp(i) /\ retries[i] = MaxRetries /\ faults > 0)

-----------------------------------------------------------------------------
(* The invariant that the proofs of ConsoleProofs use.                     *)

\* An open socket has a handler; visits follow each other.
SocketInv ==
    /\ push = "ended" => channel = <<>> /\ outgoing = {}
    /\ \A i \in Visits :
        /\ socket[i] = "open" => handler[i] # None /\ gateway = "up"
        /\ phase[i] = "new" => socket[i] = "none"
        /\ phase[i] # "new" => \A j \in 1 .. i - 1 : phase[j] \in {"left", "abandoned"}

Sent(i, msg) == \E k \in DOMAIN inbox[i] : inbox[i][k] = msg

UnderWay(e) ==
    \/ e \in unsent
    \/ \E k \in DOMAIN channel : channel[k] = e
    \/ \E i \in Visits : <<i, e>> \in outgoing \/ Sent(i, MissionEvent(e))

\* Events are of missions that exist, and a cancellation on its way excuses.
EventInv ==
    \A e \in Event :
        UnderWay(e) => "insert" \in wrote[e.mission] /\ (e.to = "cancelled" => excused[e.mission])

\* Where there is no list, nothing is rendered, and no page is mounted.
ListInv ==
    /\ \A m \in Missions : view[m] = "garbled" => ~rendered
    /\ ~rendered => \A i \in Visits : phase[i] # "mounted"

\* Nobody has read a row before it was inserted.
RowInv ==
    \A m \in Missions :
        "insert" \notin wrote[m] =>
            /\ status[m] = "absent" /\ view[m] \in {"absent", "garbled"} /\ form[m] = "none"
            /\ \A i \in Visits :
                /\ handler[i].pc = "read" => handler[i].missions[m] = "absent"
                /\ \A k \in DOMAIN inbox[i] :
                       inbox[i][k].type = "snapshot" => inbox[i][k].missions[m] = "absent"

Fresh(m) == [mission |-> m, to |-> status[m]] \in unsent

InChannel(m) == \E k \in DOMAIN channel : channel[k].mission = m

\* The last event of m that the gateway has announces its status.
LastEventInv ==
    \A m \in Missions :
        ~excused[m] /\ ~Fresh(m) =>
            /\ \A k \in DOMAIN channel :
                   channel[k].mission = m /\ (\A l \in DOMAIN channel : l > k => channel[l].mission # m)
                       => channel[k].to = status[m]
            /\ InChannel(m) \/ \A p \in outgoing : p[2].mission = m => p[2].to = status[m]

\* An event of m is still to reach the socket of visit i.
Due(i, m) == Fresh(m) \/ InChannel(m) \/ \E p \in outgoing : p[1] = i /\ p[2].mission = m

Right(m, s) == s \in {"absent", status[m]}

About(m, msg) == msg.type = "snapshot" \/ msg.event.mission = m

Says(m, msg) == IF msg.type = "snapshot" THEN msg.missions[m] ELSE msg.event.to

\* The last message about m says what is right; if there is none, the view is right.
InboxRight(i, m) ==
    \/ \E k \in DOMAIN inbox[i] :
        /\ About(m, inbox[i][k]) /\ Right(m, Says(m, inbox[i][k]))
        /\ \A l \in DOMAIN inbox[i] : l > k => ~About(m, inbox[i][l])
    \/ Right(m, view[m]) /\ \A k \in DOMAIN inbox[i] : ~About(m, inbox[i][k])

WillBeRight(i, m) ==
    \/ handler[i] = Building
    \/ handler[i].pc = "read" /\ Right(m, handler[i].missions[m])
    \/ handler[i] = Serving /\ InboxRight(i, m)

\* What is under way to the one open socket ends with what is right.
ViewInv ==
    push = "running" /\ (\A i \in Visits : phase[i] # "abandoned") =>
        \A i \in Visits, m \in Missions :
            socket[i] = "open" /\ ~excused[m] => Due(i, m) \/ WillBeRight(i, m)

IndInv ==
    /\ TypeOK
    /\ SocketInv
    /\ CleanUnmount
    /\ EventInv
    /\ ListInv
    /\ RowInv
    /\ LastEventInv
    /\ ViewInv

================================================================================
