----------------------------- MODULE PtySession -----------------------------
(***************************************************************************)
(* A client's terminal session, end to end: the hub's connection loop      *)
(* (hub/pty_session.rs), the hub's table of workspaces in use              *)
(* (AppState.workspaces), the registry of agent connections and their      *)
(* session routes (hub/registry.rs, hub/ws_handler.rs), the link to an     *)
(* agent, and the agent's table of open PTYs (agent/pty.rs, agent/ws.rs).  *)
(*                                                                         *)
(* One account is modelled: its name is part of every key and never        *)
(* changes.  A session id is a number, handed out in order, so freshness   *)
(* is nextSid.  An agent connection is <<agent, n>>, n the n-th time the    *)
(* agent registered (AgentConn.id).                                        *)
(***************************************************************************)
EXTENDS Naturals, Sequences, FiniteSets

CONSTANTS
  Clients,          \* connections to /v1/pty/ws
  Agents,           \* agent names
  Workspaces,       \* workspace names
  MaxSid,           \* bound: OpenSession requests in a behaviour
  MaxConn,          \* bound: registrations of one agent
  QueueCap,         \* PTY_EVENT_QUEUE, the capacity of a session's channel
  MaxBacklog,       \* bound: frames undelivered when a PTY writes output
  NoConn, NoWorkspace

Sids  == 1 .. MaxSid
NoSid == 0
Conns == Agents \X (1 .. MaxConn)
Keys  == Agents \X Workspaces

ASSUME ConstantsAssumption ==
  /\ MaxSid \in Nat \ {0} /\ MaxConn \in Nat \ {0}
  /\ QueueCap \in Nat \ {0} /\ MaxBacklog \in Nat
  /\ NoConn \notin Conns
  /\ NoWorkspace \notin Workspaces

VARIABLES
  \* hub, one ConnCtx per client
  pc,          \* where the connection's handler stands
  selected,    \* ConnCtx.selected_agent
  session,     \* the session being opened, or ConnCtx.active
  \* what is fixed when a session is opened
  nextSid,
  home,        \* session -> the agent connection it was opened on
  ws,          \* session -> its workspace
  \* hub, shared
  workspaces,  \* AppState.workspaces: (agent, workspace) -> session
  routes,      \* sessions with an entry in their AgentConn.sessions
  events,      \* session -> events queued for its client
  registry,    \* AgentRegistry.agents: agent -> number of its connection, or 0
  epoch,       \* agent -> number of its latest connection
  \* links and agents
  wire,        \* connections whose TCP link works
  toAgent,     \* connection -> frames sent, not yet run by an agent task
  toHub,       \* session -> frames about it the hub has not read
  ptys,        \* PtyManager.sessions, over all agents
  readers      \* sessions with a reader thread, which keeps the PTY open

clientVars == <<pc, selected, session>>
openVars   == <<nextSid, home, ws>>
linkVars   == <<registry, epoch, wire>>
agentVars  == <<ptys, readers>>
vars == <<clientVars, openVars, workspaces, routes, events, linkVars,
          toAgent, toHub, agentVars>>

Frame == [type : {"PtyOpen", "PtyClose"}, sid : Sids, by : Clients]
Event == {"opened", "error", "closed", "output"}

TypeOK ==
  /\ pc \in [Clients ->
               {"menu", "reserved", "opening", "active", "closing", "gone"}]
  /\ selected \in [Clients -> Conns \cup {NoConn}]
  /\ session \in [Clients -> Sids \cup {NoSid}]
  /\ nextSid \in 1 .. MaxSid + 1
  /\ home \in [Sids -> Conns \cup {NoConn}]
  /\ ws \in [Sids -> Workspaces \cup {NoWorkspace}]
  /\ workspaces \in [Keys -> Sids \cup {NoSid}]
  /\ routes \subseteq Sids
  /\ events \in [Sids -> Seq(Event)]
  /\ registry \in [Agents -> 0 .. MaxConn]
  /\ epoch \in [Agents -> 0 .. MaxConn]
  /\ wire \subseteq Conns
  /\ toAgent \in [Conns -> SUBSET Frame]
  /\ toHub \in [Sids -> Seq(Event)]
  /\ ptys \subseteq Sids /\ readers \subseteq Sids
  /\ \A c \in Clients : session[c] = NoSid <=> pc[c] \in {"menu", "gone"}

Init ==
  /\ pc = [c \in Clients |-> "menu"]
  /\ selected = [c \in Clients |-> NoConn]
  /\ session = [c \in Clients |-> NoSid]
  /\ nextSid = 1
  /\ home = [s \in Sids |-> NoConn]
  /\ ws = [s \in Sids |-> NoWorkspace]
  /\ workspaces = [k \in Keys |-> NoSid]
  /\ routes = {}
  /\ events = [s \in Sids |-> <<>>]
  /\ registry = [a \in Agents |-> 0]
  /\ epoch = [a \in Agents |-> 0]
  /\ wire = {}
  /\ toAgent = [k \in Conns |-> {}]
  /\ toHub = [s \in Sids |-> <<>>]
  /\ ptys = {} /\ readers = {}

-----------------------------------------------------------------------------
(* Helpers *)

Registered(k) == registry[k[1]] = k[2]

OpenFrame(s, c)  == [type |-> "PtyOpen", sid |-> s, by |-> c]
CloseFrame(s, c) == [type |-> "PtyClose", sid |-> s, by |-> c]

\* AgentConn::send.  The frame reaches the agent only over a working link;
\* an error here is ignored by every caller but the one of PtyOpen.
Sent(k, f) == [toAgent EXCEPT ![k] = IF k \in wire THEN @ \cup {f} ELSE @]

\* An agent task or reader thread sends about session s on the channel of its
\* connection.  On a later connection of the agent than the session's own the
\* hub finds no route for the frame and drops it.
Replied(k, s, e) ==
  [toHub EXCEPT ![s] = IF k \in wire /\ k = home[s] THEN Append(@, e) ELSE @]

\* DashMap::remove_if(key, |_, sid| *sid == s)
SlotWithout(key, s) ==
  IF workspaces[key] = s THEN [workspaces EXCEPT ![key] = NoSid]
                         ELSE workspaces

\* AgentConn::unregister_session, on the given connection
RoutesWithout(k, s) == IF home[s] = k THEN routes \ {s} ELSE routes

\* Sender::try_send on the session's channel: dropped when it is full
Pushed(queue, e) == IF Len(queue) < QueueCap THEN Append(queue, e) ELSE queue

\* What the client's loop takes from the channel next
NextIs(s, e) == events[s] # <<>> /\ Head(events[s]) = e

\* A bug the properties must catch: no session hears that its agent is gone
NotifiedNot(lost) == events

\* AgentRegistry::unregister: a last event for every session of the link
Notified(lost) ==
  [s \in Sids |-> IF s \in lost THEN Pushed(events[s], "closed") ELSE events[s]]

\* The key teardown and PtyClosed handling compute: the agent selected now
KeyOf(c)    == <<selected[c][1], ws[session[c]]>>
\* The key OpenSession computed, from the connection it was opened on
HomeKey(s)  == <<home[s][1], ws[s]>>

\* A bug the properties must catch: its route is left behind
EndSessionKeepsRoute(c, k, key) ==
  /\ UNCHANGED routes
  /\ workspaces' = SlotWithout(key, session[c])
  /\ events' = [events EXCEPT ![session[c]] = <<>>]
  /\ session' = [session EXCEPT ![c] = NoSid]

\* A bug the properties must catch: the slot is freed whoever holds it
EndSessionFreesAny(c, k, key) ==
  /\ routes' = RoutesWithout(k, session[c])
  /\ workspaces' = [workspaces EXCEPT ![key] = NoSid]
  /\ events' = [events EXCEPT ![session[c]] = <<>>]
  /\ session' = [session EXCEPT ![c] = NoSid]

\* What every path that ends a session of c does: unregister the route on
\* connection k, free the slot of key, drop the receiver with its queue.
EndSession(c, k, key) ==
  /\ routes' = RoutesWithout(k, session[c])
  /\ workspaces' = SlotWithout(key, session[c])
  /\ events' = [events EXCEPT ![session[c]] = <<>>]
  /\ session' = [session EXCEPT ![c] = NoSid]

-----------------------------------------------------------------------------
(* Hub: the client connection loop *)

\* upgrade + authenticate, then the loop in its menu phase
Connect(c) ==
  /\ pc[c] = "gone"
  /\ pc' = [pc EXCEPT ![c] = "menu"]
  /\ UNCHANGED <<selected, session, openVars, workspaces, routes, events,
                 linkVars, toAgent, toHub, agentVars>>

\* The hub would take it in a session too; clients send it from their menu
\* (client/menu.rs), where there is none.
SelectAgent(c, a) ==
  /\ pc[c] = "menu"
  /\ registry[a] # 0
  /\ selected' = [selected EXCEPT ![c] = <<a, registry[a]>>]
  /\ UNCHANGED <<pc, session, openVars, workspaces, routes, events,
                 linkVars, toAgent, toHub, agentVars>>

\* OpenSession up to its first database lookup: take the workspace, evicting
\* whoever holds it.
OpenSession(c, a, w) ==
  LET k    == <<a, registry[a]>>
      key  == <<a, w>>
      prev == workspaces[key]
  IN
  /\ pc[c] = "menu"
  /\ registry[a] # 0
  /\ nextSid <= MaxSid
  /\ selected' = [selected EXCEPT ![c] = k]
  /\ session' = [session EXCEPT ![c] = nextSid]
  /\ home' = [home EXCEPT ![nextSid] = k]
  /\ ws' = [ws EXCEPT ![nextSid] = w]
  /\ nextSid' = nextSid + 1
  /\ workspaces' = [workspaces EXCEPT ![key] = nextSid]
  /\ toAgent' = IF prev # NoSid THEN Sent(k, CloseFrame(prev, c)) ELSE toAgent
  /\ pc' = [pc EXCEPT ![c] = "reserved"]
  /\ UNCHANGED <<routes, events, linkVars, toHub, agentVars>>

\* OpenSession after the lookups: register the route, send PtyOpen, wait.
SendPtyOpen(c) ==
  LET s == session[c] IN
  /\ pc[c] = "reserved"
  /\ routes' = routes \cup {s}
  /\ toAgent' = Sent(home[s], OpenFrame(s, c))
  /\ pc' = [pc EXCEPT ![c] = "opening"]
  /\ UNCHANGED <<selected, session, openVars, workspaces, events, linkVars,
                 toHub, agentVars>>

\* The agent's writer task is gone: the send fails and the open is undone.
SendPtyOpenFails(c) ==
  LET s == session[c] IN
  /\ pc[c] = "reserved"
  /\ home[s] \notin wire
  /\ workspaces' = SlotWithout(HomeKey(s), s)
  /\ session' = [session EXCEPT ![c] = NoSid]
  /\ pc' = [pc EXCEPT ![c] = "menu"]
  /\ UNCHANGED <<selected, openVars, routes, events, linkVars, toAgent,
                 toHub, agentVars>>

\* The first event is PtyOpened.
OpenSucceeds(c) ==
  LET s == session[c] IN
  /\ pc[c] = "opening"
  /\ NextIs(s, "opened")
  /\ events' = [events EXCEPT ![s] = Tail(@)]
  /\ pc' = [pc EXCEPT ![c] = "active"]
  /\ UNCHANGED <<selected, session, openVars, workspaces, routes, linkVars,
                 toAgent, toHub, agentVars>>

\* A bug the properties must catch: the wait for the first event has no end
OpenFailsWithoutTimeout(c) ==
  LET s == session[c] IN
  /\ pc[c] = "opening"
  /\ events[s] # <<>> /\ ~ NextIs(s, "opened")
  /\ EndSession(c, home[s], HomeKey(s))
  /\ pc' = [pc EXCEPT ![c] = "menu"]
  /\ UNCHANGED <<selected, openVars, linkVars, toAgent, toHub, agentVars>>

\* The first event is any other, or OPEN_TIMEOUT passes without one.  No
\* PtyClose is sent: the agent may still open the PTY.
OpenFails(c) ==
  LET s == session[c] IN
  /\ pc[c] = "opening"
  /\ ~ NextIs(s, "opened")
  /\ EndSession(c, home[s], HomeKey(s))
  /\ pc' = [pc EXCEPT ![c] = "menu"]
  /\ UNCHANGED <<selected, openVars, linkVars, toAgent, toHub, agentVars>>

\* A bug the properties must catch: only the holder of the slot heeds PtyClosed
SessionClosedIfHolder(c) ==
  LET s == session[c] IN
  /\ pc[c] = "active"
  /\ NextIs(s, "closed")
  /\ workspaces[KeyOf(c)] = s
  /\ EndSession(c, selected[c], KeyOf(c))
  /\ pc' = [pc EXCEPT ![c] = "menu"]
  /\ UNCHANGED <<selected, openVars, linkVars, toAgent, toHub, agentVars>>

\* handle_agent_event: PtyClosed ends the session
SessionClosed(c) ==
  LET s == session[c] IN
  /\ pc[c] = "active"
  /\ NextIs(s, "closed")
  /\ EndSession(c, selected[c], KeyOf(c))
  /\ pc' = [pc EXCEPT ![c] = "menu"]
  /\ UNCHANGED <<selected, openVars, linkVars, toAgent, toHub, agentVars>>

\* handle_agent_event: any other event is forwarded
ForwardEvent(c) ==
  LET s == session[c] IN
  /\ pc[c] = "active"
  /\ events[s] # <<>> /\ ~ NextIs(s, "closed")
  /\ events' = [events EXCEPT ![s] = Tail(@)]
  /\ UNCHANGED <<clientVars, openVars, workspaces, routes, linkVars, toAgent,
                 toHub, agentVars>>

\* The loop ends: Close frame, socket closed or failed, kicked by the admin.
\* It only looks at its socket between handlers, so never while opening.
Leave(c) ==
  /\ pc[c] = "menu"
  /\ pc' = [pc EXCEPT ![c] = "gone"]
  /\ selected' = [selected EXCEPT ![c] = NoConn]
  /\ UNCHANGED <<session, openVars, workspaces, routes, events, linkVars,
                 toAgent, toHub, agentVars>>

\* A bug the properties must catch: whoever holds the slot is closed
LeaveSessionClosingHolder(c) ==
  /\ pc[c] = "active"
  /\ toAgent' = IF workspaces[KeyOf(c)] = NoSid THEN toAgent
                ELSE Sent(selected[c], CloseFrame(workspaces[KeyOf(c)], c))
  /\ pc' = [pc EXCEPT ![c] = "closing"]
  /\ UNCHANGED <<selected, session, openVars, workspaces, routes, events,
                 linkVars, toHub, agentVars>>

\* teardown_active, up to the await on the send
LeaveSession(c) ==
  /\ pc[c] = "active"
  /\ toAgent' = Sent(selected[c], CloseFrame(session[c], c))
  /\ pc' = [pc EXCEPT ![c] = "closing"]
  /\ UNCHANGED <<selected, session, openVars, workspaces, routes, events,
                 linkVars, toHub, agentVars>>

\* teardown_active, the rest
FinishTeardown(c) ==
  /\ pc[c] = "closing"
  /\ EndSession(c, selected[c], KeyOf(c))
  /\ selected' = [selected EXCEPT ![c] = NoConn]
  /\ pc' = [pc EXCEPT ![c] = "gone"]
  /\ UNCHANGED <<openVars, linkVars, toAgent, toHub, agentVars>>

-----------------------------------------------------------------------------
(* Agent connections *)

\* A Hello is accepted only while the name is free (NameTaken otherwise).
AgentRegisters(a) ==
  /\ registry[a] = 0
  /\ epoch[a] < MaxConn
  /\ epoch' = [epoch EXCEPT ![a] = @ + 1]
  /\ registry' = [registry EXCEPT ![a] = epoch[a] + 1]
  /\ wire' = wire \cup {<<a, epoch[a] + 1>>}
  /\ UNCHANGED <<clientVars, openVars, workspaces, routes, events, toAgent,
                 toHub, agentVars>>

\* The link dies, or one side gives up on it after its idle timeout.  Frames
\* already handed to agent tasks still run; what the hub has not received is
\* lost, or read before it notices.
LinkBreaks(k) ==
  /\ k \in wire
  /\ wire' = wire \ {k}
  /\ \E kept \in SUBSET toAgent[k] : toAgent' = [toAgent EXCEPT ![k] = kept]
  /\ UNCHANGED <<clientVars, openVars, workspaces, routes, events, registry,
                 epoch, toHub, agentVars>>

\* AgentRegistry::unregister: free the name and tell every routed session
AgentUnregisters(k) ==
  LET lost == {s \in routes : home[s] = k} IN
  /\ Registered(k)
  /\ k \notin wire
  /\ registry' = [registry EXCEPT ![k[1]] = 0]
  /\ routes' = routes \ lost
  /\ events' = Notified(lost)
  /\ toHub' = [s \in Sids |-> IF home[s] = k THEN <<>> ELSE toHub[s]]
  /\ UNCHANGED <<clientVars, openVars, workspaces, epoch, wire, toAgent, agentVars>>

\* handle_text_frame / handle_binary_frame: route the frame to its session.
\* Frames of different sessions are read in order too, but no two sessions
\* share anything the order could change.
HubReads(s) ==
  /\ toHub[s] # <<>>
  /\ Registered(home[s])
  /\ toHub' = [toHub EXCEPT ![s] = Tail(@)]
  /\ events' = IF s \in routes
               THEN [events EXCEPT ![s] = Pushed(@, Head(toHub[s]))]
               ELSE events
  /\ UNCHANGED <<clientVars, openVars, workspaces, routes, linkVars, toAgent,
                 agentVars>>

-----------------------------------------------------------------------------
(* Agent.  Each frame runs in a task of its own, so in any order. *)

AgentOpens(k, f) ==
  /\ f \in toAgent[k] /\ f.type = "PtyOpen"
  /\ toAgent' = [toAgent EXCEPT ![k] = @ \ {f}]
  /\ ptys' = ptys \cup {f.sid}
  /\ readers' = readers \cup {f.sid}
  /\ toHub' = Replied(k, f.sid, "opened")
  /\ UNCHANGED <<clientVars, openVars, workspaces, routes, events, linkVars>>

\* Unknown tool, no workspace directory, no PTY, tmux does not start, ...
AgentRefuses(k, f) ==
  /\ f \in toAgent[k] /\ f.type = "PtyOpen"
  /\ toAgent' = [toAgent EXCEPT ![k] = @ \ {f}]
  /\ toHub' = Replied(k, f.sid, "error")
  /\ UNCHANGED <<clientVars, openVars, workspaces, routes, events, linkVars,
                 agentVars>>

\* PtyManager::close replies PtyClosed whether or not it knew the session.  It
\* drops its handle of the PTY; the reader thread holds another.
AgentCloses(k, f) ==
  /\ f \in toAgent[k] /\ f.type = "PtyClose"
  /\ toAgent' = [toAgent EXCEPT ![k] = @ \ {f}]
  /\ ptys' = IF home[f.sid][1] = k[1] THEN ptys \ {f.sid} ELSE ptys
  /\ toHub' = Replied(k, f.sid, "closed")
  /\ UNCHANGED <<clientVars, openVars, workspaces, routes, events, linkVars,
                 readers>>

\* The reader thread stops: end of file (the tool exited and tmux detached
\* its clients, the tmux server was killed), or its connection is gone.  Only
\* if the session is still in the table does it say so.
PtyEnds(s) ==
  /\ s \in readers
  /\ readers' = readers \ {s}
  /\ ptys' = ptys \ {s}
  /\ toHub' = IF s \in ptys THEN Replied(home[s], s, "closed") ELSE toHub
  /\ UNCHANGED <<clientVars, openVars, workspaces, routes, events, linkVars,
                 toAgent>>

PtyOutput(s) ==
  /\ s \in readers
  /\ home[s] \in wire
  /\ Len(events[s]) + Len(toHub[s]) < MaxBacklog
  /\ toHub' = Replied(home[s], s, "output")
  /\ UNCHANGED <<clientVars, openVars, workspaces, routes, events, linkVars,
                 toAgent, agentVars>>

\* The agent process dies: its links are already down, its PTYs and tasks go.
AgentCrashes(a) ==
  /\ \A k \in wire : k[1] # a
  /\ ptys' = {s \in ptys : home[s][1] # a}
  /\ readers' = {s \in readers : home[s][1] # a}
  /\ toAgent' = [k \in Conns |-> IF k[1] = a THEN {} ELSE toAgent[k]]
  /\ UNCHANGED <<clientVars, openVars, workspaces, routes, events, linkVars,
                 toHub>>

-----------------------------------------------------------------------------
ClientNext(c) ==
  \/ Connect(c)
  \/ \E a \in Agents : SelectAgent(c, a)
  \/ \E a \in Agents, w \in Workspaces : OpenSession(c, a, w)
  \/ SendPtyOpen(c)
  \/ SendPtyOpenFails(c)
  \/ OpenSucceeds(c)
  \/ OpenFails(c)
  \/ SessionClosed(c)
  \/ ForwardEvent(c)
  \/ Leave(c)
  \/ LeaveSession(c)
  \/ FinishTeardown(c)

AgentTasks(k) ==
  \E f \in toAgent[k] : AgentOpens(k, f) \/ AgentRefuses(k, f) \/ AgentCloses(k, f)

LinkNext(k) ==
  \/ LinkBreaks(k)
  \/ AgentUnregisters(k)
  \/ AgentTasks(k)

Next ==
  \/ \E c \in Clients : ClientNext(c)
  \/ \E k \in Conns : LinkNext(k)
  \/ \E a \in Agents : AgentRegisters(a) \/ AgentCrashes(a)
  \/ \E s \in Sids : HubReads(s) \/ PtyEnds(s) \/ PtyOutput(s)

Spec == Init /\ [][Next]_vars

\* What a connection's handler does without waiting for anyone
HubStep(c) ==
  \/ SendPtyOpen(c) \/ SendPtyOpenFails(c)
  \/ OpenSucceeds(c) \/ OpenFails(c)
  \/ SessionClosed(c) \/ ForwardEvent(c)
  \/ FinishTeardown(c)

\* The hub's tasks run whenever they can: a connection's loop handles what it
\* received (the open waits at most OPEN_TIMEOUT), the link's read loop reads
\* and, once the link is dead, notices it (READ_IDLE_TIMEOUT) and unregisters.
\* The agent's tasks run too.  Nothing is assumed of users, tools and links.
Fairness ==
  /\ \A c \in Clients : WF_vars(HubStep(c))
  /\ \A k \in Conns : WF_vars(AgentUnregisters(k)) /\ WF_vars(AgentTasks(k))
  /\ \A s \in Sids : WF_vars(HubReads(s))

FairSpec == Spec /\ Fairness

-----------------------------------------------------------------------------
(* Properties *)

Owner(s, phases) == \E c \in Clients : session[c] = s /\ pc[c] \in phases

\* A workspace is marked in use only while the session that marked it lives:
\* whichever of the six ways a session ends, and however a take-over falls
\* between its steps, no slot is left behind that would refuse a later reset
\* or delete of the workspace as "in use".
SlotHeld ==
  \A key \in Keys :
    workspaces[key] # NoSid =>
      /\ HomeKey(workspaces[key]) = key
      /\ Owner(workspaces[key], {"reserved", "opening", "active", "closing"})

\* No route outlives its session: a failed, timed-out, closed or abandoned
\* open leaves no channel behind in its connection's table.
RouteOwned == \A s \in routes : Owner(s, {"opening", "active", "closing"})

\* A client in a session that no longer has a route (its agent was
\* unregistered) has the event that ends the session in its queue: it is
\* never left waiting on a channel nobody can write to.
NoDeafSession ==
  \A c \in Clients :
    pc[c] = "active" /\ session[c] \notin routes =>
      \E i \in 1 .. Len(events[session[c]]) : events[session[c]][i] = "closed"

\* A PtyClose on its way to an agent never names the session that holds its
\* workspace, unless its own client is leaving: neither a take-over nor a
\* late teardown can close the PTY of the client that took over.
CloseOnlyStale ==
  \A k \in Conns : \A f \in toAgent[k] :
    f.type = "PtyClose" /\ (\E key \in Keys : workspaces[key] = f.sid)
      => Owner(f.sid, {"closing"})

\* What the proofs add: a session belongs to one client, was handed out before
\* nextSid with its connection and workspace, and its client still has that
\* connection selected; frames only name sessions handed out.
SessionInv ==
  /\ \A c \in Clients : session[c] < nextSid
  /\ \A c, d \in Clients : session[c] = session[d] /\ session[c] # NoSid => c = d
  /\ \A s \in Sids : s < nextSid => home[s] \in Conns /\ ws[s] \in Workspaces
  /\ \A c \in Clients : session[c] # NoSid => selected[c] = home[session[c]]
  /\ \A k \in Conns : \A f \in toAgent[k] : f.sid < nextSid

IInv == TypeOK /\ SessionInv /\ SlotHeld /\ RouteOwned /\ CloseOnlyStale

\* Every open ends in a session or in an error, whatever the agent does with
\* the request: no OpenSession leaves its client waiting.
OpenResolves ==
  \A s \in Sids :
    Owner(s, {"reserved", "opening"}) ~> ~ Owner(s, {"reserved", "opening"})

\* A session whose agent link is lost ends: its client drops back to its
\* menu (or left) and does not stay attached to nothing.
AgentLossEndsSession ==
  \A s \in Sids :
    (Owner(s, {"active"}) /\ home[s] \notin wire) ~> ~ Owner(s, {"active"})

\* A PtyClose on its way to the agent of a session that is open ends that
\* session, whether the agent runs it, the PTY ends first or the link dies.
CloseOrderEndsSession ==
  \A s \in Sids :
    (/\ Owner(s, {"active"})
     /\ \E f \in toAgent[home[s]] : f.type = "PtyClose" /\ f.sid = s)
      ~> ~ Owner(s, {"active"})

\* What a session is to its workspace, from the state of its client
SessionPhase(s) ==
  IF s >= nextSid THEN "unused"
  ELSE IF Owner(s, {"reserved", "opening"}) THEN "opening"
  ELSE IF Owner(s, {"active", "closing"}) THEN "open"
  ELSE "ended"

Lease == INSTANCE SessionLease WITH
           NoKey   <- NoConn,
           phase   <- [s \in Sids |-> SessionPhase(s)],
           leaseOn <- [s \in Sids |-> IF s < nextSid THEN HomeKey(s) ELSE NoConn],
           holder  <- workspaces

\* The table of workspaces in use is a lease: a session gives it up in the very
\* step it ends, an evicted session neither frees nor regains it, and nobody
\* but a fresh session takes it.
ImplementsLease == Lease!LeaseSpec

=============================================================================
