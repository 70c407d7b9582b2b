------------------------- MODULE PtySession_proofs -------------------------
(***************************************************************************)
(* Proofs about PtySession, for any number of clients, agents, workspaces, *)
(* sessions and registrations, and queues of any capacity.                 *)
(***************************************************************************)
EXTENDS PtySession, FiniteSetTheorems, SequenceTheorems, TLAPS

USE ConstantsAssumption DEF Sids, NoSid

-----------------------------------------------------------------------------
(* Types of the helpers *)

LEMMA SentType ==
  ASSUME toAgent \in [Conns -> SUBSET Frame], NEW k, NEW f \in Frame
  PROVE  Sent(k, f) \in [Conns -> SUBSET Frame]
BY DEF Sent

LEMMA FrameType ==
  ASSUME NEW s \in Sids, NEW c \in Clients
  PROVE  OpenFrame(s, c) \in Frame /\ CloseFrame(s, c) \in Frame
BY DEF OpenFrame, CloseFrame, Frame

LEMMA RepliedType ==
  ASSUME toHub \in [Sids -> Seq(Event)], NEW k, NEW s \in Sids, NEW e \in Event
  PROVE  Replied(k, s, e) \in [Sids -> Seq(Event)]
<1>1. Append(toHub[s], e) \in Seq(Event) /\ toHub[s] \in Seq(Event)
  OBVIOUS
<1> QED BY <1>1 DEF Replied

LEMMA PushedType ==
  ASSUME NEW q \in Seq(Event), NEW e \in Event
  PROVE  Pushed(q, e) \in Seq(Event)
BY DEF Pushed

LEMMA EndSessionType ==
  ASSUME TypeOK, NEW c \in Clients, NEW k, NEW key, EndSession(c, k, key)
  PROVE  /\ session' \in [Clients -> Sids \cup {NoSid}]
         /\ session' = [session EXCEPT ![c] = NoSid]
         /\ workspaces' \in [Keys -> Sids \cup {NoSid}]
         /\ routes' \subseteq Sids
         /\ events' \in [Sids -> Seq(Event)]
<1>1. events' \in [Sids -> Seq(Event)]
  <2>1. <<>> \in Seq(Event)
    OBVIOUS
  <2> QED BY <2>1 DEF TypeOK, EndSession
<1>2. workspaces' \in [Keys -> Sids \cup {NoSid}]
  BY DEF TypeOK, EndSession, SlotWithout
<1>3. routes' \subseteq Sids
  BY DEF TypeOK, EndSession, RoutesWithout
<1>4. session' = [session EXCEPT ![c] = NoSid]
  BY DEF EndSession
<1>5. session' \in [Clients -> Sids \cup {NoSid}]
  BY <1>4 DEF TypeOK
<1> QED BY <1>1, <1>2, <1>3, <1>4, <1>5

\* Every variable keeps its type in every step, and a handler has a session
\* exactly while it is past its menu.
LEMMA TypeStep == TypeOK /\ [Next]_vars => TypeOK'
<1> SUFFICES ASSUME TypeOK, [Next]_vars PROVE TypeOK'
  OBVIOUS
<1> USE DEF TypeOK, clientVars, openVars, linkVars, agentVars
<1>1. ASSUME NEW c \in Clients, Connect(c) PROVE TypeOK'
  BY <1>1 DEF Connect
<1>2. ASSUME NEW c \in Clients, NEW a \in Agents, SelectAgent(c, a)
      PROVE TypeOK'
  <2>1. <<a, registry[a]>> \in Conns
    BY <1>2 DEF SelectAgent, Conns
  <2> QED BY <1>2, <2>1 DEF SelectAgent
<1>3. ASSUME NEW c \in Clients, NEW a \in Agents, NEW w \in Workspaces,
             OpenSession(c, a, w)
      PROVE TypeOK'
  <2> DEFINE key == <<a, w>>
             k   == <<a, registry[a]>>
  <2>1. key \in Keys /\ k \in Conns /\ nextSid \in Sids
    BY <1>3 DEF OpenSession, Keys, Conns
  <2>2. toAgent' \in [Conns -> SUBSET Frame]
    BY <1>3, <2>1, SentType, FrameType DEF OpenSession
  <2>3. /\ pc' \in [Clients ->
                 {"menu", "reserved", "opening", "active", "closing", "gone"}]
        /\ selected' \in [Clients -> Conns \cup {NoConn}]
        /\ session' \in [Clients -> Sids \cup {NoSid}]
        /\ \A d \in Clients : session'[d] = NoSid <=> pc'[d] \in {"menu", "gone"}
    BY <1>3, <2>1 DEF OpenSession
  <2>4. nextSid' \in 1 .. MaxSid + 1
    BY <1>3 DEF OpenSession
  <2>5. /\ home' \in [Sids -> Conns \cup {NoConn}]
        /\ ws' \in [Sids -> Workspaces \cup {NoWorkspace}]
        /\ workspaces' \in [Keys -> Sids \cup {NoSid}]
    BY <1>3, <2>1 DEF OpenSession
  <2> QED BY <1>3, <2>2, <2>3, <2>4, <2>5 DEF OpenSession
<1>4. ASSUME NEW c \in Clients, SendPtyOpen(c) PROVE TypeOK'
  <2>1. session[c] \in Sids
    BY <1>4 DEF SendPtyOpen
  <2>2. toAgent' \in [Conns -> SUBSET Frame]
    BY <1>4, <2>1, SentType, FrameType DEF SendPtyOpen
  <2> QED BY <1>4, <2>1, <2>2 DEF SendPtyOpen
<1>5. ASSUME NEW c \in Clients, SendPtyOpenFails(c) PROVE TypeOK'
  BY <1>5 DEF SendPtyOpenFails, SlotWithout
<1>6. ASSUME NEW c \in Clients, OpenSucceeds(c) PROVE TypeOK'
  <2>1. session[c] \in Sids /\ events[session[c]] # <<>>
    BY <1>6 DEF OpenSucceeds, NextIs
  <2>2. Tail(events[session[c]]) \in Seq(Event)
    BY <2>1
  <2>3. events' \in [Sids -> Seq(Event)]
    BY <1>6, <2>2 DEF OpenSucceeds
  <2> QED BY <1>6, <2>3 DEF OpenSucceeds
<1>7. ASSUME NEW c \in Clients, OpenFails(c) PROVE TypeOK'
  <2>1. PICK k, key : EndSession(c, k, key)
    BY <1>7 DEF OpenFails
  <2>2. /\ session' \in [Clients -> Sids \cup {NoSid}]
        /\ session' = [session EXCEPT ![c] = NoSid]
        /\ workspaces' \in [Keys -> Sids \cup {NoSid}]
        /\ routes' \subseteq Sids
        /\ events' \in [Sids -> Seq(Event)]
    BY <2>1, EndSessionType
  <2>3. pc' \in [Clients ->
                 {"menu", "reserved", "opening", "active", "closing", "gone"}]
    BY <1>7 DEF OpenFails
  <2>4. \A d \in Clients : session'[d] = NoSid <=> pc'[d] \in {"menu", "gone"}
    BY <1>7, <2>2 DEF OpenFails
  <2> QED BY <1>7, <2>2, <2>3, <2>4 DEF OpenFails
<1>8. ASSUME NEW c \in Clients, SessionClosed(c) PROVE TypeOK'
  <2>1. PICK k, key : EndSession(c, k, key)
    BY <1>8 DEF SessionClosed
  <2>2. /\ session' \in [Clients -> Sids \cup {NoSid}]
        /\ session' = [session EXCEPT ![c] = NoSid]
        /\ workspaces' \in [Keys -> Sids \cup {NoSid}]
        /\ routes' \subseteq Sids
        /\ events' \in [Sids -> Seq(Event)]
    BY <2>1, EndSessionType
  <2>3. pc' \in [Clients ->
                 {"menu", "reserved", "opening", "active", "closing", "gone"}]
    BY <1>8 DEF SessionClosed
  <2>4. \A d \in Clients : session'[d] = NoSid <=> pc'[d] \in {"menu", "gone"}
    BY <1>8, <2>2 DEF SessionClosed
  <2> QED BY <1>8, <2>2, <2>3, <2>4 DEF SessionClosed
<1>9. ASSUME NEW c \in Clients, ForwardEvent(c) PROVE TypeOK'
  <2>1. session[c] \in Sids /\ events[session[c]] # <<>>
    BY <1>9 DEF ForwardEvent
  <2>2. Tail(events[session[c]]) \in Seq(Event)
    BY <2>1
  <2>3. events' \in [Sids -> Seq(Event)]
    BY <1>9, <2>2 DEF ForwardEvent
  <2> QED BY <1>9, <2>3 DEF ForwardEvent
<1>10. ASSUME NEW c \in Clients, Leave(c) PROVE TypeOK'
  BY <1>10 DEF Leave
<1>11. ASSUME NEW c \in Clients, LeaveSession(c) PROVE TypeOK'
  <2>1. session[c] \in Sids
    BY <1>11 DEF LeaveSession
  <2>2. toAgent' \in [Conns -> SUBSET Frame]
    BY <1>11, <2>1, SentType, FrameType DEF LeaveSession
  <2> QED BY <1>11, <2>2 DEF LeaveSession
<1>12. ASSUME NEW c \in Clients, FinishTeardown(c) PROVE TypeOK'
  <2>1. PICK k, key : EndSession(c, k, key)
    BY <1>12 DEF FinishTeardown
  <2>2. /\ session' \in [Clients -> Sids \cup {NoSid}]
        /\ session' = [session EXCEPT ![c] = NoSid]
        /\ workspaces' \in [Keys -> Sids \cup {NoSid}]
        /\ routes' \subseteq Sids
        /\ events' \in [Sids -> Seq(Event)]
    BY <2>1, EndSessionType
  <2>3. pc' \in [Clients ->
                 {"menu", "reserved", "opening", "active", "closing", "gone"}]
    BY <1>12 DEF FinishTeardown
  <2>4. \A d \in Clients : session'[d] = NoSid <=> pc'[d] \in {"menu", "gone"}
    BY <1>12, <2>2 DEF FinishTeardown
  <2> QED BY <1>12, <2>2, <2>3, <2>4 DEF FinishTeardown
<1>13. ASSUME NEW a \in Agents, AgentRegisters(a) PROVE TypeOK'
  <2>1. epoch[a] + 1 \in 1 .. MaxConn /\ <<a, epoch[a] + 1>> \in Conns
    BY <1>13 DEF AgentRegisters, Conns
  <2>2. wire' \subseteq Conns
    BY <1>13, <2>1 DEF AgentRegisters
  <2>3. epoch' \in [Agents -> 0 .. MaxConn] /\ registry' \in [Agents -> 0 .. MaxConn]
    BY <1>13, <2>1 DEF AgentRegisters
  <2> QED BY <1>13, <2>2, <2>3 DEF AgentRegisters
<1>14. ASSUME NEW k \in Conns, LinkBreaks(k) PROVE TypeOK'
  <2>1. toAgent' \in [Conns -> SUBSET Frame]
    <3>1. PICK kept \in SUBSET toAgent[k] : toAgent' = [toAgent EXCEPT ![k] = kept]
      BY <1>14 DEF LinkBreaks
    <3>2. kept \subseteq Frame
      OBVIOUS
    <3> QED BY <3>1, <3>2
  <2>2. wire' \subseteq Conns
    BY <1>14 DEF LinkBreaks
  <2> QED BY <1>14, <2>1, <2>2 DEF LinkBreaks
<1>15. ASSUME NEW k \in Conns, AgentUnregisters(k) PROVE TypeOK'
  <2>1. events' \in [Sids -> Seq(Event)]
    BY <1>15, PushedType DEF AgentUnregisters, Notified, Event
  <2>2. toHub' \in [Sids -> Seq(Event)]
    <3>1. <<>> \in Seq(Event)
      OBVIOUS
    <3> QED BY <1>15, <3>1 DEF AgentUnregisters
  <2>3. registry' \in [Agents -> 0 .. MaxConn]
    <3>1. 0 \in 0 .. MaxConn
      OBVIOUS
    <3> QED BY <1>15, <3>1 DEF AgentUnregisters
  <2>4. routes' \subseteq Sids
    BY <1>15 DEF AgentUnregisters
  <2> QED BY <1>15, <2>1, <2>2, <2>3, <2>4 DEF AgentUnregisters
<1>16. ASSUME NEW s \in Sids, HubReads(s) PROVE TypeOK'
  <2>1. Head(toHub[s]) \in Event
    BY <1>16 DEF HubReads
  <2>2. events' \in [Sids -> Seq(Event)]
    BY <1>16, <2>1, PushedType DEF HubReads
  <2>3. Tail(toHub[s]) \in Seq(Event)
    BY <1>16 DEF HubReads
  <2>4. toHub' \in [Sids -> Seq(Event)]
    BY <1>16, <2>3 DEF HubReads
  <2> QED BY <1>16, <2>2, <2>4 DEF HubReads
<1>17. ASSUME NEW k \in Conns, NEW f \in toAgent[k], AgentOpens(k, f)
       PROVE TypeOK'
  <2>0. f.sid \in Sids
    BY <1>17 DEF Frame
  <2>1. toHub' \in [Sids -> Seq(Event)]
    BY <1>17, <2>0, RepliedType DEF AgentOpens, Event
  <2> QED BY <1>17, <2>0, <2>1 DEF AgentOpens
<1>18. ASSUME NEW k \in Conns, NEW f \in toAgent[k], AgentRefuses(k, f)
       PROVE TypeOK'
  <2>0. f.sid \in Sids
    BY <1>18 DEF Frame
  <2>1. toHub' \in [Sids -> Seq(Event)]
    BY <1>18, <2>0, RepliedType DEF AgentRefuses, Event
  <2> QED BY <1>18, <2>1 DEF AgentRefuses
<1>19. ASSUME NEW k \in Conns, NEW f \in toAgent[k], AgentCloses(k, f)
       PROVE TypeOK'
  <2>0. f.sid \in Sids
    BY <1>19 DEF Frame
  <2>1. toHub' \in [Sids -> Seq(Event)]
    BY <1>19, <2>0, RepliedType DEF AgentCloses, Event
  <2> QED BY <1>19, <2>1 DEF AgentCloses
<1>20. ASSUME NEW s \in Sids, PtyEnds(s) PROVE TypeOK'
  <2>1. toHub' \in [Sids -> Seq(Event)]
    BY <1>20, RepliedType DEF PtyEnds, Event
  <2> QED BY <1>20, <2>1 DEF PtyEnds
<1>21. ASSUME NEW s \in Sids, PtyOutput(s) PROVE TypeOK'
  <2>1. toHub' \in [Sids -> Seq(Event)]
    BY <1>21, RepliedType DEF PtyOutput, Event
  <2> QED BY <1>21, <2>1 DEF PtyOutput
<1>22. ASSUME NEW a \in Agents, AgentCrashes(a) PROVE TypeOK'
  BY <1>22 DEF AgentCrashes
<1>23. CASE UNCHANGED vars
  BY <1>23 DEF vars
<1> QED
  BY <1>1, <1>2, <1>3, <1>4, <1>5, <1>6, <1>7, <1>8, <1>9, <1>10, <1>11,
     <1>12, <1>13, <1>14, <1>15, <1>16, <1>17, <1>18, <1>19, <1>20, <1>21,
     <1>22, <1>23
  DEF Next, ClientNext, LinkNext, AgentTasks

\* Every reachable state is well typed.
THEOREM TypeCorrect == Spec => []TypeOK
<1>1. Init => TypeOK
  BY DEF Init, TypeOK
<1> QED BY <1>1, TypeStep, PTL DEF Spec

-----------------------------------------------------------------------------
(* The inductive invariant *)

\* A step of a link or an agent touches no client, no session's key and no
\* slot; it only removes routes and frames.
LEMMA LinkStep ==
  ASSUME TypeOK,
         \/ \E k \in Conns : LinkNext(k)
         \/ \E a \in Agents : AgentRegisters(a) \/ AgentCrashes(a)
         \/ \E s \in Sids : HubReads(s) \/ PtyEnds(s) \/ PtyOutput(s)
  PROVE  /\ UNCHANGED <<clientVars, openVars, workspaces>>
         /\ routes' \subseteq routes
         /\ \A k \in Conns : toAgent'[k] \subseteq toAgent[k]
<1> USE DEF TypeOK
<1>1. ASSUME NEW k \in Conns, LinkBreaks(k) PROVE toAgent'[k] \subseteq toAgent[k]
  BY <1>1 DEF LinkBreaks
<1>2. CASE \E k \in Conns : LinkBreaks(k)
  BY <1>1, <1>2 DEF LinkBreaks
<1>3. CASE \E k \in Conns : AgentUnregisters(k)
  BY <1>3 DEF AgentUnregisters
<1>4. CASE \E k \in Conns : AgentTasks(k)
  <2>0. PICK k \in Conns : AgentTasks(k)
    BY <1>4
  <2>1. PICK f \in toAgent[k] :
          AgentOpens(k, f) \/ AgentRefuses(k, f) \/ AgentCloses(k, f)
    BY <2>0 DEF AgentTasks
  <2>2. /\ toAgent' = [toAgent EXCEPT ![k] = @ \ {f}]
        /\ UNCHANGED <<clientVars, openVars, workspaces, routes>>
    BY <2>1 DEF AgentOpens, AgentRefuses, AgentCloses
  <2> QED BY <2>2
<1>5. CASE \E a \in Agents : AgentRegisters(a) \/ AgentCrashes(a)
  BY <1>5 DEF AgentRegisters, AgentCrashes
<1>6. CASE \E s \in Sids : HubReads(s) \/ PtyEnds(s) \/ PtyOutput(s)
  BY <1>6 DEF HubReads, PtyEnds, PtyOutput
<1> QED BY <1>2, <1>3, <1>4, <1>5, <1>6 DEF LinkNext

\* A step of client c leaves the owners of the other sessions alone.
LEMMA OwnerFrame ==
  ASSUME NEW c \in Clients, NEW t \in Sids, NEW phases,
         t # session[c], t # session'[c],
         \A d \in Clients \ {c} : pc'[d] = pc[d] /\ session'[d] = session[d]
  PROVE  Owner(t, phases)' <=> Owner(t, phases)
BY DEF Owner

\* What the end of c's session leaves behind.
LEMMA EndSessionEffect ==
  ASSUME IInv, NEW c \in Clients, session[c] # NoSid,
         EndSession(c, home[session[c]], HomeKey(session[c]))
  PROVE  /\ session' = [session EXCEPT ![c] = NoSid]
         /\ routes' = routes \ {session[c]}
         /\ workspaces' = [k \in Keys |-> IF workspaces[k] = session[c] THEN NoSid
                                                            ELSE workspaces[k]]
<1>1. session' = [session EXCEPT ![c] = NoSid] /\ routes' = routes \ {session[c]}
  BY DEF EndSession, RoutesWithout
<1>2. \A k \in Keys : workspaces[k] = session[c] => k = HomeKey(session[c])
  BY DEF IInv, SlotHeld
<1>3. workspaces' = SlotWithout(HomeKey(session[c]), session[c])
  BY DEF EndSession
<1>4. workspaces \in [Keys -> Sids \cup {NoSid}]
  BY DEF IInv, TypeOK
<1> QED BY <1>1, <1>2, <1>3, <1>4 DEF SlotWithout

-----------------------------------------------------------------------------
\* Steps that end the session of c, and those that do not end any.
Ending(c) ==
  \/ SendPtyOpenFails(c) \/ OpenFails(c) \/ SessionClosed(c)
  \/ FinishTeardown(c)

LEMMA EndingEffect ==
  ASSUME IInv, NEW c \in Clients, Ending(c)
  PROVE  /\ session[c] \in Sids
         /\ pc[c] \in {"reserved", "opening", "active", "closing"}
         /\ session' = [session EXCEPT ![c] = NoSid]
         /\ pc' \in {[pc EXCEPT ![c] = "menu"], [pc EXCEPT ![c] = "gone"]}
         /\ selected' \in {selected, [selected EXCEPT ![c] = NoConn]}
         /\ routes' = routes \ {session[c]}
         /\ workspaces' = [k \in Keys |-> IF workspaces[k] = session[c] THEN NoSid
                                                            ELSE workspaces[k]]
         /\ UNCHANGED <<openVars, toAgent>>
<1>1. /\ session[c] \in Sids
      /\ pc[c] \in {"reserved", "opening", "active", "closing"}
  BY DEF Ending, SendPtyOpenFails, OpenFails, SessionClosed, FinishTeardown,
         IInv, TypeOK
<1>2. selected[c] = home[session[c]]
  BY <1>1 DEF IInv, SessionInv
<1>3. CASE SendPtyOpenFails(c)
  <2>1. \A k \in Keys : workspaces[k] = session[c] => k = HomeKey(session[c])
    BY <1>1 DEF IInv, SlotHeld
  <2>2. session[c] \notin routes
    BY <1>1, <1>3 DEF IInv, RouteOwned, SessionInv, Owner, SendPtyOpenFails
  <2>3. workspaces \in [Keys -> Sids \cup {NoSid}]
    BY DEF IInv, TypeOK
  <2>4. workspaces' = [k \in Keys |-> IF workspaces[k] = session[c] THEN NoSid
                                                       ELSE workspaces[k]]
    BY <1>3, <2>1, <2>3 DEF SendPtyOpenFails, SlotWithout
  <2> QED BY <1>1, <1>3, <2>2, <2>4 DEF SendPtyOpenFails, openVars
<1>4. CASE OpenFails(c)
  BY <1>1, <1>4, EndSessionEffect DEF OpenFails, openVars
<1>5. CASE SessionClosed(c)
  <2>1. EndSession(c, home[session[c]], HomeKey(session[c]))
    BY <1>2, <1>5 DEF SessionClosed, KeyOf, HomeKey
  <2> QED BY <1>1, <1>5, <2>1, EndSessionEffect DEF SessionClosed, openVars
<1>6. CASE FinishTeardown(c)
  <2>1. EndSession(c, home[session[c]], HomeKey(session[c]))
    BY <1>2, <1>6 DEF FinishTeardown, KeyOf, HomeKey
  <2> QED BY <1>1, <1>6, <2>1, EndSessionEffect DEF FinishTeardown, openVars
<1> QED BY <1>3, <1>4, <1>5, <1>6 DEF Ending

\* Steps of a client without a session, which it does not get either.
Idle(c) == Connect(c) \/ Leave(c) \/ \E a \in Agents : SelectAgent(c, a)

LEMMA IdleEffect ==
  ASSUME TypeOK, NEW c \in Clients, Idle(c)
  PROVE  /\ session[c] = NoSid
         /\ UNCHANGED <<session, openVars, workspaces, routes, toAgent>>
         /\ \A d \in Clients \ {c} : pc'[d] = pc[d] /\ selected'[d] = selected[d]
<1>1. CASE Connect(c)
  BY <1>1 DEF Connect, TypeOK
<1>2. CASE Leave(c)
  BY <1>2 DEF Leave, TypeOK
<1>3. ASSUME NEW a \in Agents, SelectAgent(c, a)
      PROVE  /\ session[c] = NoSid
             /\ UNCHANGED <<session, openVars, workspaces, routes, toAgent>>
             /\ \A d \in Clients \ {c} :
                  pc'[d] = pc[d] /\ selected'[d] = selected[d]
  BY <1>3 DEF SelectAgent, TypeOK
<1> QED BY <1>1, <1>2, <1>3 DEF Idle

\* Steps of a client that keep its session.
Keeping(c) ==
  \/ SendPtyOpen(c) \/ OpenSucceeds(c) \/ ForwardEvent(c) \/ LeaveSession(c)

LEMMA KeepingEffect ==
  ASSUME IInv, NEW c \in Clients, Keeping(c)
  PROVE  /\ session[c] \in Sids
         /\ UNCHANGED <<session, selected, openVars, workspaces>>
         /\ \A d \in Clients \ {c} : pc'[d] = pc[d]
         /\ pc[c] \in {"reserved", "opening", "active"}
         /\ pc[c] = "reserved" => pc'[c] = "opening"
         /\ pc[c] = "opening" => pc'[c] = "active"
         /\ pc[c] = "active" => pc'[c] \in {"active", "closing"}
         /\ routes' \subseteq routes \cup {session[c]}
         /\ \A k \in Conns : \A f \in toAgent'[k] \ toAgent[k] :
              f.sid = session[c] /\ (f.type = "PtyClose" => pc'[c] = "closing")
<1> USE DEF IInv, TypeOK
<1>1. CASE SendPtyOpen(c)
  <2>1. pc[c] = "reserved" /\ session[c] \in Sids /\ pc' = [pc EXCEPT ![c] = "opening"]
    BY <1>1 DEF SendPtyOpen
  <2>2. UNCHANGED <<session, selected, openVars, workspaces>>
    BY <1>1 DEF SendPtyOpen
  <2>3. routes' \subseteq routes \cup {session[c]}
    BY <1>1 DEF SendPtyOpen
  <2>4. \A k \in Conns : toAgent'[k] \subseteq toAgent[k] \cup {OpenFrame(session[c], c)}
    BY <1>1 DEF SendPtyOpen, Sent
  <2>5. /\ OpenFrame(session[c], c).sid = session[c]
        /\ OpenFrame(session[c], c).type # "PtyClose"
    BY DEF OpenFrame
  <2> QED BY <2>1, <2>2, <2>3, <2>4, <2>5
<1>2. CASE OpenSucceeds(c)
  BY <1>2 DEF OpenSucceeds
<1>3. CASE ForwardEvent(c)
  BY <1>3 DEF ForwardEvent, clientVars
<1>4. CASE LeaveSession(c)
  BY <1>4 DEF LeaveSession, Sent, CloseFrame
<1> QED BY <1>1, <1>2, <1>3, <1>4 DEF Keeping

\* What an OpenSession changes.
LEMMA OpenEffect ==
  ASSUME IInv, NEW c \in Clients, NEW a \in Agents, NEW w \in Workspaces,
         OpenSession(c, a, w)
  PROVE  /\ nextSid \in Sids /\ nextSid' = nextSid + 1
         /\ session[c] = NoSid /\ session' = [session EXCEPT ![c] = nextSid]
         /\ pc' = [pc EXCEPT ![c] = "reserved"]
         /\ <<a, registry[a]>> \in Conns
         /\ selected' = [selected EXCEPT ![c] = <<a, registry[a]>>]
         /\ home' = [home EXCEPT ![nextSid] = <<a, registry[a]>>]
         /\ ws' = [ws EXCEPT ![nextSid] = w]
         /\ <<a, w>> \in Keys
         /\ workspaces' = [workspaces EXCEPT ![<<a, w>>] = nextSid]
         /\ UNCHANGED routes
         /\ \A k \in Conns : \A f \in toAgent'[k] \ toAgent[k] :
              f.sid = workspaces[<<a, w>>] /\ f.sid \in Sids
<1>1. nextSid \in Sids /\ nextSid' = nextSid + 1 /\ session[c] = NoSid
  BY DEF OpenSession, IInv, TypeOK
<1>2. <<a, registry[a]>> \in Conns /\ <<a, w>> \in Keys
  BY DEF OpenSession, IInv, TypeOK, Conns, Keys
<1>3. \A k \in Conns : \A f \in toAgent'[k] \ toAgent[k] :
        f.sid = workspaces[<<a, w>>] /\ f.sid \in Sids
  <2> DEFINE prev == workspaces[<<a, w>>]
  <2>1. prev \in Sids \cup {NoSid}
    BY <1>2 DEF IInv, TypeOK
  <2>2. CASE prev = NoSid
    BY <2>2 DEF OpenSession
  <2>3. CASE prev # NoSid
    <3>1. \A k \in Conns : toAgent'[k] \subseteq toAgent[k] \cup {CloseFrame(prev, c)}
      BY <2>3 DEF OpenSession, Sent, IInv, TypeOK
    <3>2. CloseFrame(prev, c).sid = prev
      BY DEF CloseFrame
    <3> QED BY <2>1, <2>3, <3>1, <3>2
  <2> QED BY <2>2, <2>3
<1> QED BY <1>1, <1>2, <1>3 DEF OpenSession

LEMMA NextCases ==
  ASSUME Next
  PROVE  \/ \E c \in Clients : Idle(c) \/ Keeping(c) \/ Ending(c)
         \/ \E c \in Clients, a \in Agents, w \in Workspaces : OpenSession(c, a, w)
         \/ \E k \in Conns : LinkNext(k)
         \/ \E a \in Agents : AgentRegisters(a) \/ AgentCrashes(a)
         \/ \E s \in Sids : HubReads(s) \/ PtyEnds(s) \/ PtyOutput(s)
BY DEF Next, ClientNext, Idle, Keeping, Ending

-----------------------------------------------------------------------------
(* Each kind of step preserves the invariant *)

Safety == SessionInv /\ SlotHeld /\ RouteOwned /\ CloseOnlyStale

LEMMA SafetyLink ==
  ASSUME IInv,
         UNCHANGED <<clientVars, openVars, workspaces>>,
         routes' \subseteq routes,
         \A k \in Conns : toAgent'[k] \subseteq toAgent[k]
  PROVE  Safety'
<1> USE DEF IInv, clientVars, openVars
<1>1. \A t, P : Owner(t, P)' <=> Owner(t, P)
  BY DEF Owner
<1>2. SessionInv'
  BY DEF SessionInv
<1>3. SlotHeld'
  BY <1>1 DEF SlotHeld, HomeKey
<1>4. RouteOwned'
  BY <1>1 DEF RouteOwned
<1>5. CloseOnlyStale'
  BY <1>1 DEF CloseOnlyStale
<1> QED BY <1>2, <1>3, <1>4, <1>5 DEF Safety

LEMMA SafetyIdle ==
  ASSUME IInv, NEW c \in Clients, Idle(c)
  PROVE  Safety'
<1> USE DEF IInv
<1>1. /\ session[c] = NoSid
      /\ UNCHANGED <<session, nextSid, home, ws, workspaces, routes, toAgent>>
      /\ \A d \in Clients \ {c} : pc'[d] = pc[d] /\ selected'[d] = selected[d]
  BY IdleEffect DEF openVars
<1>2. \A t \in Sids : \A P : Owner(t, P)' <=> Owner(t, P)
  BY <1>1 DEF Owner
<1>3. SessionInv'
  BY <1>1 DEF SessionInv
<1>4. SlotHeld'
  BY <1>1, <1>2 DEF SlotHeld, HomeKey, TypeOK
<1>5. RouteOwned'
  BY <1>1, <1>2 DEF RouteOwned, TypeOK
<1>6. CloseOnlyStale'
  BY <1>1, <1>2 DEF CloseOnlyStale, TypeOK, Frame
<1> QED BY <1>3, <1>4, <1>5, <1>6 DEF Safety

LEMMA SafetyKeeping ==
  ASSUME IInv, NEW c \in Clients, Keeping(c)
  PROVE  Safety'
<1> USE DEF IInv
<1>1. /\ session[c] \in Sids
      /\ UNCHANGED <<session, selected, nextSid, home, ws, workspaces>>
      /\ \A d \in Clients \ {c} : pc'[d] = pc[d]
      /\ pc[c] \in {"reserved", "opening", "active"}
      /\ pc'[c] \in {"opening", "active", "closing"}
      /\ routes' \subseteq routes \cup {session[c]}
      /\ \A k \in Conns : \A f \in toAgent'[k] \ toAgent[k] :
           f.sid = session[c] /\ (f.type = "PtyClose" => pc'[c] = "closing")
  BY KeepingEffect DEF openVars
<1>2. \A t \in Sids \ {session[c]} : \A P : Owner(t, P)' <=> Owner(t, P)
  BY <1>1 DEF Owner
<1>3. SessionInv'
  BY <1>1 DEF SessionInv
<1>4. SlotHeld'
  <2> DEFINE live == {"reserved", "opening", "active", "closing"}
  <2>1. Owner(session[c], live)'
    BY <1>1 DEF Owner
  <2>2. \A t \in Sids \ {session[c]} : Owner(t, live)' <=> Owner(t, live)
    BY <1>2
  <2> QED BY <1>1, <2>1, <2>2 DEF SlotHeld, HomeKey, TypeOK
<1>5. RouteOwned'
  <2> DEFINE live == {"opening", "active", "closing"}
  <2>1. Owner(session[c], live)'
    BY <1>1 DEF Owner
  <2>2. \A t \in Sids \ {session[c]} : Owner(t, live)' <=> Owner(t, live)
    BY <1>2
  <2>3. routes \subseteq Sids /\ routes' \subseteq Sids
    BY <1>1 DEF TypeOK
  <2> HIDE DEF live
  <2>4. ASSUME NEW s \in routes' PROVE Owner(s, live)'
    <3>1. CASE s = session[c]
      <4> QED BY <2>1, <3>1, <1>1
    <3>2. CASE s # session[c]
      BY <1>1, <2>2, <2>3, <3>2 DEF RouteOwned, live
    <3> QED  BY <3>1, <3>2
  <2> QED  BY <2>4 DEF RouteOwned, live
<1>6. CloseOnlyStale'
  <2> SUFFICES ASSUME NEW k \in Conns, NEW f \in toAgent'[k], f.type = "PtyClose",
                      NEW key \in Keys, workspaces[key] = f.sid
               PROVE  Owner(f.sid, {"closing"})'
    BY <1>1 DEF CloseOnlyStale
  <2>1. CASE f \in toAgent[k]
    <3>1. Owner(f.sid, {"closing"}) /\ f.sid \in Sids
      BY <2>1 DEF CloseOnlyStale, TypeOK, Frame
    <3>2. f.sid # session[c]
      BY <3>1, <1>1 DEF Owner, SessionInv
    <3> QED BY <1>2, <3>1, <3>2
  <2>2. CASE f \notin toAgent[k]
    BY <1>1, <2>2 DEF Owner
  <2> QED BY <2>1, <2>2
<1> QED BY <1>3, <1>4, <1>5, <1>6 DEF Safety

LEMMA SafetyEnding ==
  ASSUME IInv, NEW c \in Clients, Ending(c)
  PROVE  Safety'
<1> USE DEF IInv
<1>1. /\ session[c] \in Sids
      /\ session' = [session EXCEPT ![c] = NoSid]
      /\ \A d \in Clients \ {c} : pc'[d] = pc[d] /\ selected'[d] = selected[d]
      /\ routes' = routes \ {session[c]}
      /\ workspaces' = [k \in Keys |-> IF workspaces[k] = session[c] THEN NoSid
                                                         ELSE workspaces[k]]
      /\ UNCHANGED <<nextSid, home, ws, toAgent>>
  <2>1. /\ pc' \in {[pc EXCEPT ![c] = "menu"], [pc EXCEPT ![c] = "gone"]}
        /\ selected' \in {selected, [selected EXCEPT ![c] = NoConn]}
    BY EndingEffect
  <2>2. \A d \in Clients \ {c} : pc'[d] = pc[d] /\ selected'[d] = selected[d]
    BY <2>1 DEF TypeOK
  <2> QED BY <2>2, EndingEffect DEF openVars
<1>2. \A t \in Sids \ {session[c]} : \A P : Owner(t, P)' <=> Owner(t, P)
  <2>1. session'[c] = NoSid /\ \A d \in Clients \ {c} : session'[d] = session[d]
    BY <1>1 DEF TypeOK
  <2> QED BY <1>1, <2>1 DEF Owner
<1>3. SessionInv'
  BY <1>1 DEF SessionInv, TypeOK
<1>4. SlotHeld'
  BY <1>1, <1>2 DEF SlotHeld, HomeKey, TypeOK
<1>5. RouteOwned'
  BY <1>1, <1>2 DEF RouteOwned, TypeOK
<1>6. CloseOnlyStale'
  BY <1>1, <1>2 DEF CloseOnlyStale, TypeOK, Frame
<1> QED BY <1>3, <1>4, <1>5, <1>6 DEF Safety

LEMMA SafetyOpen ==
  ASSUME IInv, NEW c \in Clients, NEW a \in Agents, NEW w \in Workspaces,
         OpenSession(c, a, w)
  PROVE  Safety'
<1> DEFINE key  == <<a, w>>
           k    == <<a, registry[a]>>
           live == {"reserved", "opening", "active", "closing"}
<1> USE DEF IInv
<1>1. /\ nextSid \in Sids /\ nextSid' = nextSid + 1 /\ key \in Keys /\ k \in Conns
      /\ session[c] = NoSid /\ session' = [session EXCEPT ![c] = nextSid]
      /\ pc' = [pc EXCEPT ![c] = "reserved"]
      /\ selected' = [selected EXCEPT ![c] = k]
      /\ home' = [home EXCEPT ![nextSid] = k]
      /\ ws' = [ws EXCEPT ![nextSid] = w]
      /\ workspaces' = [workspaces EXCEPT ![key] = nextSid]
      /\ UNCHANGED routes
      /\ \A l \in Conns : \A f \in toAgent'[l] \ toAgent[l] :
           f.sid = workspaces[key] /\ f.sid \in Sids
  BY OpenEffect
<1>2. /\ session'[c] = nextSid /\ pc'[c] = "reserved" /\ selected'[c] = k
      /\ \A d \in Clients \ {c} : /\ pc'[d] = pc[d] /\ session'[d] = session[d]
                               /\ selected'[d] = selected[d]
  BY <1>1 DEF TypeOK
<1>3. /\ home'[nextSid] = k /\ ws'[nextSid] = w
      /\ \A t \in Sids \ {nextSid} : home'[t] = home[t] /\ ws'[t] = ws[t]
  BY <1>1 DEF TypeOK
<1>4. /\ workspaces'[key] = nextSid
      /\ \A l \in Keys \ {key} : workspaces'[l] = workspaces[l]
  BY <1>1 DEF TypeOK
<1>5. \A t \in Sids \ {nextSid} : \A P : Owner(t, P)' <=> Owner(t, P)
  BY <1>1, <1>2 DEF Owner
<1>6. \A l \in Keys : workspaces[l] # nextSid
  BY <1>1 DEF SlotHeld, Owner, SessionInv
<1>7. SessionInv'
  <2>1. \A d \in Clients : session'[d] < nextSid'
    BY <1>1, <1>2 DEF SessionInv, TypeOK
  <2>2. \A d, e \in Clients : session'[d] = session'[e] /\ session'[d] # NoSid => d = e
    BY <1>1, <1>2 DEF SessionInv
  <2>3. \A s \in Sids : s < nextSid' => home'[s] \in Conns /\ ws'[s] \in Workspaces
    BY <1>1, <1>3 DEF SessionInv, TypeOK
  <2>4. \A d \in Clients : session'[d] # NoSid => selected'[d] = home'[session'[d]]
    BY <1>1, <1>2, <1>3, SMTT(30) DEF SessionInv, TypeOK
  <2>5. \A l \in Conns : \A f \in toAgent'[l] : f.sid < nextSid'
    <3> SUFFICES ASSUME NEW l \in Conns, NEW f \in toAgent'[l] PROVE f.sid < nextSid'
      OBVIOUS
    <3>1. CASE f \in toAgent[l]
      BY <1>1, <3>1, SMTT(30) DEF SessionInv, TypeOK, Frame
    <3>2. CASE f \notin toAgent[l]
      <4>1. f.sid = workspaces[key] /\ f.sid \in Sids
        BY <1>1, <3>2
      <4>2. PICK d \in Clients : session[d] = f.sid
        BY <1>1, <4>1 DEF SlotHeld, Owner
      <4> QED BY <1>1, <4>1, <4>2 DEF SessionInv, TypeOK
    <3> QED BY <3>1, <3>2
  <2> QED BY <2>1, <2>2, <2>3, <2>4, <2>5 DEF SessionInv
<1>8. SlotHeld'
  <2>1. <<home'[nextSid][1], ws'[nextSid]>> = key
    BY <1>3
  <2>3. ASSUME NEW l \in Keys, l # key, workspaces'[l] # NoSid
        PROVE  /\ <<home'[workspaces'[l]][1], ws'[workspaces'[l]]>> = l
               /\ \E d \in Clients : session'[d] = workspaces'[l] /\ pc'[d] \in live
    <3>1. workspaces'[l] = workspaces[l] /\ workspaces[l] \in Sids \ {nextSid}
      BY <1>4, <1>6, <2>3 DEF TypeOK
    <3>2. HomeKey(workspaces[l]) = l /\ Owner(workspaces[l], live)
      BY <3>1 DEF SlotHeld
    <3>3. <<home'[workspaces[l]][1], ws'[workspaces[l]]>> = l
      BY <1>3, <3>1, <3>2 DEF HomeKey
    <3>4. PICK d \in Clients : session[d] = workspaces[l] /\ pc[d] \in live
      BY <3>2 DEF Owner
    <3>5. session'[d] = workspaces[l] /\ pc'[d] \in live
      BY <1>1, <1>2, <3>1, <3>4
    <3> QED BY <3>1, <3>3, <3>5
  <2>4. \A l \in Keys : workspaces'[l] # NoSid =>
          /\ <<home'[workspaces'[l]][1], ws'[workspaces'[l]]>> = l
          /\ \E d \in Clients : session'[d] = workspaces'[l] /\ pc'[d] \in live
    BY <1>1, <1>2, <1>4, <2>1, <2>3
  <2> QED BY <2>4 DEF SlotHeld, HomeKey, Owner
<1>9. RouteOwned'
  <2>1. nextSid \notin routes
    BY <1>1 DEF RouteOwned, Owner, SessionInv
  <2> QED BY <1>1, <1>5, <2>1 DEF RouteOwned, TypeOK
<1>10. CloseOnlyStale'
  <2> SUFFICES ASSUME NEW l \in Conns, NEW f \in toAgent'[l], f.type = "PtyClose",
                      NEW y \in Keys, workspaces'[y] = f.sid
               PROVE  Owner(f.sid, {"closing"})'
    BY DEF CloseOnlyStale
  <2>1. CASE f \in toAgent[l]
    <3>1. f.sid \in Sids /\ f.sid < nextSid
      BY <2>1 DEF SessionInv, TypeOK, Frame
    <3>2. f.sid # nextSid
      BY <1>1, <3>1
    <3>3. workspaces[y] = f.sid
      BY <1>4, <3>2
    <3> QED BY <1>5, <2>1, <3>1, <3>2, <3>3 DEF CloseOnlyStale
  <2>2. CASE f \notin toAgent[l]
    <3>1. f.sid = workspaces[key] /\ f.sid \in Sids
      BY <1>1, <2>2
    <3>2. HomeKey(f.sid) = key
      BY <1>1, <3>1 DEF SlotHeld
    <3>3. CASE y = key
      BY <1>1, <1>4, <1>6, <3>1, <3>3
    <3>4. CASE y # key
      BY <1>1, <1>4, <3>1, <3>2, <3>4 DEF SlotHeld
    <3> QED BY <3>3, <3>4
  <2> QED BY <2>1, <2>2
<1> QED BY <1>7, <1>8, <1>9, <1>10 DEF Safety

LEMMA InvStep == IInv /\ [Next]_vars => IInv'
<1> SUFFICES ASSUME IInv, [Next]_vars PROVE IInv'
  OBVIOUS
<1>1. TypeOK'
  BY TypeStep DEF IInv
<1>2. Safety'
  <2>1. ASSUME UNCHANGED vars PROVE Safety'
    BY <2>1, SafetyLink DEF vars, IInv, TypeOK
  <2>2. ASSUME Next PROVE Safety'
    <3>1. ASSUME \/ \E k \in Conns : LinkNext(k)
                 \/ \E a \in Agents : AgentRegisters(a) \/ AgentCrashes(a)
                 \/ \E s \in Sids : HubReads(s) \/ PtyEnds(s) \/ PtyOutput(s)
          PROVE  Safety'
      BY <3>1, LinkStep, SafetyLink DEF IInv
    <3> QED BY <2>2, <3>1, NextCases, SafetyIdle, SafetyKeeping, SafetyEnding, SafetyOpen
  <2> QED BY <2>1, <2>2
<1> QED BY <1>1, <1>2 DEF IInv, Safety

LEMMA InitInv == Init => IInv
BY DEF Init, IInv, TypeOK, SessionInv, SlotHeld, RouteOwned, CloseOnlyStale

LEMMA Invariance == Spec => []IInv
BY InitInv, InvStep, PTL DEF Spec

\* No slot outlives the session that marked it.
THEOREM SlotsAreHeld == Spec => []SlotHeld
<1>1. IInv => SlotHeld
  BY DEF IInv
<1> QED BY <1>1, Invariance, PTL

\* No route outlives its session.
THEOREM RoutesAreOwned == Spec => []RouteOwned
<1>1. IInv => RouteOwned
  BY DEF IInv
<1> QED BY <1>1, Invariance, PTL

\* No PtyClose in flight names the session that holds its workspace, unless its
\* own client is leaving.
THEOREM ClosesOnlyStale == Spec => []CloseOnlyStale
<1>1. IInv => CloseOnlyStale
  BY DEF IInv
<1> QED BY <1>1, Invariance, PTL

-----------------------------------------------------------------------------
(* No session is left deaf while its queue has room *)

\* What may still come from the agent about session s, beside output: an answer
\* to its PtyOpen and the end of its reader (Answers), and a PtyClosed for every
\* PtyClose that is on its way or may yet be sent (Orders), by the client that
\* takes the workspace over and by its own when it leaves.
Closes(s) ==
  {f \in Frame : /\ f.type = "PtyClose" /\ f.sid = s
                 /\ \E k \in Conns : k = home[s] /\ f \in toAgent[k]}
OpenPending(s) ==
  \E k \in Conns : \E f \in toAgent[k] : f.type = "PtyOpen" /\ f.sid = s
Fresh(s)     == s >= nextSid \/ Owner(s, {"reserved"})
Answers(s)   == IF Fresh(s) \/ OpenPending(s) THEN 2 ELSE IF s \in readers THEN 1 ELSE 0
Evictable(s) == IF s >= nextSid \/ \E key \in Keys : workspaces[key] = s THEN 1 ELSE 0
MayLeave(s)  == s >= nextSid \/ Owner(s, {"reserved", "opening", "active"})
Leaving(s)   == IF MayLeave(s) THEN 1 ELSE 0
Orders(s)    == Cardinality(Closes(s)) + Evictable(s) + Leaving(s)
Backlog(s)   == Len(events[s]) + Len(toHub[s])
Routed(s)    == s \in routes \/ Fresh(s)

\* One PtyOpen is sent for a session, before it has a reader.
OpenInv ==
  /\ \A s \in Sids : Fresh(s) => ~OpenPending(s)
  /\ \A s \in Sids : Fresh(s) \/ OpenPending(s) => s \notin readers
  /\ \A k, l \in Conns : \A f \in toAgent[k], g \in toAgent[l] :
       f.type = "PtyOpen" /\ g.type = "PtyOpen" /\ f.sid = g.sid => k = l /\ f = g

\* What is queued for a session and what may still come is bounded.
RoomOf(s) ==
  /\ IsFiniteSet(Closes(s)) /\ Orders(s) <= 2
  /\ Routed(s) => Backlog(s) + Answers(s) + Orders(s) <= MaxBacklog + 4

RoomInv == \A s \in Sids : RoomOf(s)

\* A session without a route has its end in its queue, while it opens too.
HeardInv ==
  \A c \in Clients :
    pc[c] \in {"opening", "active"} /\ session[c] \notin routes =>
      \E i \in 1 .. Len(events[session[c]]) : events[session[c]][i] = "closed"

HearInv == IInv /\ OpenInv /\ RoomInv /\ HeardInv

\* A session's channel has room for the frames of one session besides output.
Room == QueueCap > MaxBacklog + 4

LEMMA SubsetCardinality ==
  ASSUME NEW S, NEW T, IsFiniteSet(S), T \subseteq S
  PROVE  IsFiniteSet(T) /\ Cardinality(T) \in Nat /\ Cardinality(S) \in Nat
         /\ Cardinality(T) <= Cardinality(S)
BY FS_Subset, FS_CardinalityType

LEMMA LengthsType ==
  ASSUME NEW q \in Seq(Event), NEW r \in Seq(Event)
  PROVE  Len(q) \in Nat /\ Len(r) \in Nat /\ Len(q) + Len(r) \in Nat
<1>1. PICK m, n : m = Len(q) /\ n = Len(r)
  OBVIOUS
<1>2. m \in Nat /\ n \in Nat
  BY <1>1, LenProperties
<1> QED  BY <1>1, <1>2

LEMMA SumsType ==
  ASSUME NEW S, IsFiniteSet(S), NEW e \in {0, 1}, NEW l \in {0, 1}
  PROVE  Cardinality(S) \in Nat /\ Cardinality(S) + e + l \in Nat
<1>1. PICK n : n = Cardinality(S)
  OBVIOUS
<1>2. n \in Nat
  BY <1>1, FS_CardinalityType
<1> QED  BY <1>1, <1>2

\* The parts of the account are numbers.
LEMMA AccountType ==
  ASSUME TypeOK, NEW s \in Sids, IsFiniteSet(Closes(s))
  PROVE  /\ Cardinality(Closes(s)) \in Nat /\ Evictable(s) \in {0, 1} /\ Leaving(s) \in {0, 1}
         /\ Orders(s) \in Nat /\ Answers(s) \in {0, 1, 2} /\ Backlog(s) \in Nat
<1>1. Evictable(s) \in {0, 1} /\ Leaving(s) \in {0, 1} /\ Answers(s) \in {0, 1, 2}
  BY DEF Evictable, Leaving, Answers
<1>2. Backlog(s) \in Nat
  BY LengthsType DEF Backlog, TypeOK
<1>3. Cardinality(Closes(s)) \in Nat /\ Orders(s) \in Nat
  BY <1>1, SumsType DEF Orders
<1> QED  BY <1>1, <1>2, <1>3

LEMMA AccountTypeNext ==
  ASSUME TypeOK', NEW s \in Sids, IsFiniteSet(Closes(s)')
  PROVE  /\ Cardinality(Closes(s)') \in Nat /\ Evictable(s)' \in {0, 1} /\ Leaving(s)' \in {0, 1}
         /\ Orders(s)' \in Nat /\ Answers(s)' \in {0, 1, 2} /\ Backlog(s)' \in Nat
<1>1. Evictable(s)' \in {0, 1} /\ Leaving(s)' \in {0, 1} /\ Answers(s)' \in {0, 1, 2}
  BY DEF Evictable, Leaving, Answers
<1>2. Backlog(s)' \in Nat
  BY LengthsType DEF Backlog, TypeOK
<1>3. Cardinality(Closes(s)') \in Nat /\ Orders(s)' \in Nat
  BY <1>1, SumsType DEF Orders
<1> QED  BY <1>1, <1>2, <1>3

\* A step in which nothing is added to the account of s.
LEMMA AccountKept ==
  ASSUME TypeOK, TypeOK', NEW s \in Sids, RoomOf(s),
         IsFiniteSet(Closes(s)'), Orders(s)' <= Orders(s),
         Routed(s)' => /\ Routed(s)
                       /\ Backlog(s)' + Answers(s)' <= Backlog(s) + Answers(s)
                             \/ Backlog(s)' + Answers(s)' + Orders(s)' <=
                                  Backlog(s) + Answers(s) + Orders(s)
  PROVE  RoomOf(s)'
<1>1. PICK b, a, o : b = Backlog(s) /\ a = Answers(s) /\ o = Orders(s)
  OBVIOUS
<1>2. PICK b2, a2, o2 : b2 = Backlog(s)' /\ a2 = Answers(s)' /\ o2 = Orders(s)'
  OBVIOUS
<1>3. b \in Nat /\ a \in Nat /\ o \in Nat
  BY <1>1, AccountType DEF RoomOf
<1>4. b2 \in Nat /\ a2 \in Nat /\ o2 \in Nat
  BY <1>2, AccountTypeNext
<1>5. o <= 2 /\ (Routed(s) => b + a + o <= MaxBacklog + 4)
  BY <1>1 DEF RoomOf
<1>6. o2 <= o /\ (Routed(s)' => Routed(s) /\ (b2 + a2 <= b + a \/ b2 + a2 + o2 <= b + a + o))
  BY <1>1, <1>2
<1>7. MaxBacklog + 4 \in Nat
  OBVIOUS
<1>8. PICK m \in Nat : m = MaxBacklog + 4
  BY <1>7
<1>9. o2 <= 2
  BY <1>3, <1>4, <1>5, <1>6
<1>10. Routed(s)' => b2 + a2 + o2 <= m
  BY <1>3, <1>4, <1>5, <1>6, <1>8
<1> QED  BY <1>2, <1>8, <1>9, <1>10 DEF RoomOf

LEMMA GrownByOne ==
  ASSUME NEW S, NEW T, NEW f, IsFiniteSet(S), T \subseteq S \cup {f}
  PROVE  IsFiniteSet(T) /\ Cardinality(T) <= Cardinality(S) + 1
<1>1. PICK U : U = S \cup {f}
  OBVIOUS
<1>5. PICK n : n = Cardinality(S)
  OBVIOUS
<1>6. n \in Nat
  BY <1>5, FS_CardinalityType
<1>7. IsFiniteSet(U) /\ Cardinality(U) = IF f \in S THEN n ELSE n + 1
  BY <1>1, <1>5, FS_AddElement
<1>2. IsFiniteSet(U) /\ Cardinality(U) <= Cardinality(S) + 1
  BY <1>5, <1>6, <1>7
<1>3. IsFiniteSet(T) /\ Cardinality(T) \in Nat /\ Cardinality(U) \in Nat /\ Cardinality(T) <= Cardinality(U)
  BY <1>1, <1>2, SubsetCardinality
<1>4. Cardinality(S) \in Nat
  BY FS_CardinalityType
<1> QED  BY <1>2, <1>3, <1>4

LEMMA ShrunkByOne ==
  ASSUME NEW S, NEW T, NEW f \in S, IsFiniteSet(S), T \subseteq S \ {f}
  PROVE  IsFiniteSet(T) /\ Cardinality(T) + 1 <= Cardinality(S)
<1>1. PICK U : U = S \ {f}
  OBVIOUS
<1>2. IsFiniteSet(U) /\ Cardinality(U) = Cardinality(S) - 1
  BY <1>1, FS_RemoveElement
<1>3. IsFiniteSet(T) /\ Cardinality(T) \in Nat /\ Cardinality(U) \in Nat /\ Cardinality(T) <= Cardinality(U)
  BY <1>1, <1>2, SubsetCardinality
<1>4. Cardinality(S) \in Nat
  BY FS_CardinalityType
<1> QED  BY <1>2, <1>3, <1>4

\* The orders for s do not grow when no frame is added for it and it neither
\* takes a slot nor gets a client.
LEMMA OrdersKept ==
  ASSUME TypeOK, TypeOK', NEW s \in Sids, IsFiniteSet(Closes(s)),
         s >= nextSid' => s >= nextSid, home'[s] = home[s],
         \A key \in Keys : workspaces'[key] = s => workspaces[key] = s,
         MayLeave(s)' => MayLeave(s),
         \A k \in Conns : \A f \in toAgent'[k] \ toAgent[k] :
           ~(f.type = "PtyClose" /\ f.sid = s)
  PROVE  IsFiniteSet(Closes(s)') /\ Orders(s)' <= Orders(s)
<1>1. Closes(s)' \subseteq Closes(s)
  BY DEF Closes
<1>2. PICK S, T : S = Closes(s) /\ T = Closes(s)'
  OBVIOUS
<1>3. IsFiniteSet(T) /\ Cardinality(T) \in Nat /\ Cardinality(S) \in Nat
      /\ Cardinality(T) <= Cardinality(S)
  BY <1>1, <1>2, SubsetCardinality
<1>4. PICK e, l, e2, l2 : e = Evictable(s) /\ l = Leaving(s) /\ e2 = Evictable(s)' /\ l2 = Leaving(s)'
  OBVIOUS
<1>5. e \in {0, 1} /\ e2 \in {0, 1} /\ e2 <= e
  BY <1>4 DEF Evictable
<1>6. l \in {0, 1} /\ l2 \in {0, 1} /\ l2 <= l
  BY <1>4 DEF Leaving
<1>7. Cardinality(T) + e2 + l2 <= Cardinality(S) + e + l
  BY <1>3, <1>5, <1>6
<1> QED  BY <1>2, <1>3, <1>4, <1>7 DEF Orders

LEMMA AnswersKept ==
  ASSUME NEW s \in Sids, Fresh(s)' => Fresh(s),
         OpenPending(s)' => OpenPending(s) \/ Fresh(s), s \in readers' => s \in readers
  PROVE  Answers(s)' <= Answers(s)
BY DEF Answers

\* A step that does not touch s but to shorten what it has.
LEMMA PlainStep ==
  ASSUME TypeOK, TypeOK', NEW s \in Sids, RoomOf(s),
         s >= nextSid' => s >= nextSid, home'[s] = home[s],
         \A key \in Keys : workspaces'[key] = s => workspaces[key] = s,
         MayLeave(s)' => MayLeave(s), Fresh(s)' => Fresh(s),
         \A k \in Conns : \A f \in toAgent'[k] \ toAgent[k] :
           ~(f.type = "PtyClose" /\ f.sid = s) /\ (f.type = "PtyOpen" /\ f.sid = s => Fresh(s)),
         s \in readers' => s \in readers, s \in routes' => Routed(s),
         Routed(s)' => Backlog(s)' <= Backlog(s)
  PROVE  RoomOf(s)'
<1>1. IsFiniteSet(Closes(s)') /\ Orders(s)' <= Orders(s)
  BY OrdersKept DEF RoomOf
<1>2. OpenPending(s)' => OpenPending(s) \/ Fresh(s)
  BY DEF OpenPending
<1>3. Answers(s)' <= Answers(s)
  BY <1>2, AnswersKept
<1>4. Routed(s)' => Routed(s)
  BY DEF Routed
<1>5. ASSUME Routed(s)' PROVE Backlog(s)' + Answers(s)' <= Backlog(s) + Answers(s)
  <2>1. Backlog(s) \in Nat /\ Answers(s) \in {0, 1, 2}
    BY AccountType DEF RoomOf
  <2>2. Backlog(s)' \in Nat /\ Answers(s)' \in {0, 1, 2}
    BY <1>1, AccountTypeNext
  <2>3. PICK b, a, b2, a2 : b = Backlog(s) /\ a = Answers(s) /\ b2 = Backlog(s)' /\ a2 = Answers(s)'
    OBVIOUS
  <2>4. b2 <= b /\ a2 <= a
    BY <1>3, <1>5, <2>3
  <2>5. b2 + a2 <= b + a
    BY <2>1, <2>2, <2>3, <2>4
  <2> QED  BY <2>3, <2>5
<1> QED  BY <1>1, <1>4, <1>5, AccountKept

\* The queues of a session get shorter.
LEMMA ShorterQueue ==
  ASSUME NEW q \in Seq(Event), q # <<>>
  PROVE  Len(Tail(q)) + 1 = Len(q) /\ Tail(q) \in Seq(Event)
BY HeadTailProperties, LenProperties

LEMMA LongerQueue ==
  ASSUME NEW q \in Seq(Event), NEW e \in Event
  PROVE  /\ Len(Append(q, e)) = Len(q) + 1
         /\ Len(Pushed(q, e)) <= Len(q) + 1
<1>1. PICK n : n = Len(q)
  OBVIOUS
<1>2. n \in Nat /\ Len(Append(q, e)) = n + 1
  BY <1>1, AppendProperties, LenProperties
<1>3. Len(Pushed(q, e)) \in {n, n + 1}
  BY <1>1, <1>2 DEF Pushed
<1> QED  BY <1>1, <1>2, <1>3

\* Steps of clients without a session.
LEMMA RoomIdle ==
  ASSUME IInv, RoomInv, TypeOK', NEW c \in Clients, Idle(c)
  PROVE  RoomInv'
<1> SUFFICES ASSUME NEW s \in Sids PROVE RoomOf(s)'
  BY DEF RoomInv
<1>1. TypeOK /\ RoomOf(s)
  BY DEF IInv, RoomInv
<1>2. /\ session[c] = NoSid
      /\ UNCHANGED <<session, openVars, workspaces, routes, toAgent>>
      /\ \A d \in Clients \ {c} : pc'[d] = pc[d] /\ selected'[d] = selected[d]
  BY <1>1, IdleEffect
<1>3. UNCHANGED <<events, toHub, readers>>
  BY DEF Idle, Connect, Leave, SelectAgent, agentVars
<1>4. \A P : Owner(s, P)' <=> Owner(s, P)
  BY <1>2 DEF Owner
<1>5. nextSid' = nextSid /\ home' = home
  BY <1>2 DEF openVars
<1>6. Backlog(s)' = Backlog(s)
  BY <1>3 DEF Backlog
<1>7. Backlog(s)' <= Backlog(s)
  BY <1>1, <1>6, AccountType DEF RoomOf
<1>8. /\ MayLeave(s)' => MayLeave(s)
      /\ Fresh(s)' => Fresh(s)
      /\ s \in routes' => Routed(s)
  BY <1>2, <1>4, <1>5 DEF MayLeave, Fresh, Routed
<1>9. /\ \A k \in Conns : \A f \in toAgent'[k] \ toAgent[k] :
           ~(f.type = "PtyClose" /\ f.sid = s) /\ (f.type = "PtyOpen" /\ f.sid = s => Fresh(s))
      /\ \A key \in Keys : workspaces'[key] = s => workspaces[key] = s
      /\ home'[s] = home[s] /\ (s >= nextSid' => s >= nextSid)
      /\ (s \in readers' => s \in readers)
  BY <1>2, <1>3, <1>5
<1> QED  BY <1>1, <1>5, <1>7, <1>8, <1>9, PlainStep

\* Steps that end a session.
LEMMA RoomEnding ==
  ASSUME IInv, RoomInv, TypeOK', NEW c \in Clients, Ending(c)
  PROVE  RoomInv'
<1> SUFFICES ASSUME NEW s \in Sids PROVE RoomOf(s)'
  BY DEF RoomInv
<1>1. TypeOK /\ RoomOf(s)
  BY DEF IInv, RoomInv
<1>2. /\ session[c] \in Sids
      /\ session' = [session EXCEPT ![c] = NoSid]
      /\ \A d \in Clients \ {c} : pc'[d] = pc[d]
      /\ routes' = routes \ {session[c]}
      /\ workspaces' = [k \in Keys |-> IF workspaces[k] = session[c] THEN NoSid
                                                         ELSE workspaces[k]]
      /\ UNCHANGED <<nextSid, home, ws, toAgent>>
  <2>1. pc' \in {[pc EXCEPT ![c] = "menu"], [pc EXCEPT ![c] = "gone"]}
    BY EndingEffect
  <2>2. \A d \in Clients \ {c} : pc'[d] = pc[d]
    BY <1>1, <2>1 DEF TypeOK
  <2> QED  BY <2>2, EndingEffect DEF openVars
<1>3. session'[c] = NoSid /\ \A d \in Clients \ {c} : session'[d] = session[d]
  BY <1>1, <1>2 DEF TypeOK
<1>4. \A P : Owner(s, P)' => Owner(s, P)
  BY <1>2, <1>3 DEF Owner
<1>5. events' \in {events, [events EXCEPT ![session[c]] = <<>>]} /\ UNCHANGED <<toHub, readers>>
  BY DEF Ending, SendPtyOpenFails, OpenFails, SessionClosed, FinishTeardown, EndSession, agentVars
<1>6. Backlog(s)' <= Backlog(s)
  <2>1. events[s] \in Seq(Event) /\ toHub[s] \in Seq(Event) /\ toHub'[s] = toHub[s]
    BY <1>1, <1>5 DEF TypeOK
  <2>2. events'[s] = events[s] \/ events'[s] = <<>>
    BY <1>1, <1>2, <1>5 DEF TypeOK
  <2>3. Len(events'[s]) = Len(events[s]) \/ Len(events'[s]) = 0
    BY <2>2
  <2>4. Len(events[s]) \in Nat /\ Len(toHub[s]) \in Nat
    BY <2>1, LengthsType
  <2> QED  BY <2>1, <2>3, <2>4 DEF Backlog
<1>7. \A key \in Keys : workspaces'[key] = s => workspaces[key] = s
  BY <1>2
<1>8. /\ MayLeave(s)' => MayLeave(s)
      /\ Fresh(s)' => Fresh(s)
      /\ s \in routes' => Routed(s)
  BY <1>2, <1>4 DEF MayLeave, Fresh, Routed
<1>9. /\ \A k \in Conns : \A f \in toAgent'[k] \ toAgent[k] :
           ~(f.type = "PtyClose" /\ f.sid = s) /\ (f.type = "PtyOpen" /\ f.sid = s => Fresh(s))
      /\ home'[s] = home[s] /\ (s >= nextSid' => s >= nextSid)
      /\ (s \in readers' => s \in readers)
  BY <1>2, <1>5
<1> QED  BY <1>1, <1>6, <1>7, <1>8, <1>9, PlainStep

\* A PtyClose for s is sent by whoever may send none after it.
LEMMA IssuedStep ==
  ASSUME TypeOK, TypeOK', NEW s \in Sids, RoomOf(s), NEW f,
         Closes(s)' \subseteq Closes(s) \cup {f},
         \/ Evictable(s) = 1 /\ Evictable(s)' = 0 /\ Leaving(s)' <= Leaving(s)
         \/ Leaving(s) = 1 /\ Leaving(s)' = 0 /\ Evictable(s)' <= Evictable(s),
         Answers(s)' <= Answers(s), Routed(s)' => Routed(s), Backlog(s)' = Backlog(s)
  PROVE  RoomOf(s)'
<1>1. IsFiniteSet(Closes(s))
  BY DEF RoomOf
<1>2. PICK S, T : S = Closes(s) /\ T = Closes(s)'
  OBVIOUS
<1>3. IsFiniteSet(T) /\ Cardinality(T) <= Cardinality(S) + 1
  BY <1>1, <1>2, GrownByOne
<1>4. Cardinality(T) \in Nat /\ Cardinality(S) \in Nat
  BY <1>1, <1>2, <1>3, FS_CardinalityType
<1>5. PICK e, l, e2, l2 : e = Evictable(s) /\ l = Leaving(s) /\ e2 = Evictable(s)' /\ l2 = Leaving(s)'
  OBVIOUS
<1>6. e \in {0, 1} /\ l \in {0, 1} /\ e2 \in {0, 1} /\ l2 \in {0, 1}
  BY <1>5 DEF Evictable, Leaving
<1>7. Cardinality(T) + e2 + l2 <= Cardinality(S) + e + l
  BY <1>3, <1>4, <1>5, <1>6
<1>8. IsFiniteSet(Closes(s)') /\ Orders(s)' <= Orders(s)
  BY <1>2, <1>3, <1>5, <1>7 DEF Orders
<1>9. Backlog(s)' + Answers(s)' <= Backlog(s) + Answers(s)
  <2>1. Backlog(s) \in Nat /\ Answers(s) \in {0, 1, 2} /\ Answers(s)' \in {0, 1, 2}
    BY <1>1, <1>8, AccountType, AccountTypeNext
  <2>2. PICK b, a, a2 : b = Backlog(s) /\ a = Answers(s) /\ a2 = Answers(s)'
    OBVIOUS
  <2>3. b + a2 <= b + a
    BY <2>1, <2>2
  <2> QED  BY <2>2, <2>3
<1> QED  BY <1>8, <1>9, AccountKept

\* The agent says something about s that it owed it.
LEMMA SpentStep ==
  ASSUME TypeOK, TypeOK', NEW s \in Sids, RoomOf(s),
         IsFiniteSet(Closes(s)'), Backlog(s)' <= Backlog(s) + 1, Routed(s)' => Routed(s),
         \/ Answers(s)' + 1 <= Answers(s) /\ Orders(s)' <= Orders(s)
         \/ Answers(s)' <= Answers(s) /\ Orders(s)' + 1 <= Orders(s)
  PROVE  RoomOf(s)'
<1>1. PICK b, a, o : b = Backlog(s) /\ a = Answers(s) /\ o = Orders(s)
  OBVIOUS
<1>2. PICK b2, a2, o2 : b2 = Backlog(s)' /\ a2 = Answers(s)' /\ o2 = Orders(s)'
  OBVIOUS
<1>3. b \in Nat /\ a \in Nat /\ o \in Nat
  BY <1>1, AccountType DEF RoomOf
<1>4. b2 \in Nat /\ a2 \in Nat /\ o2 \in Nat
  BY <1>2, AccountTypeNext
<1>5. o2 <= o /\ b2 + a2 + o2 <= b + a + o
  BY <1>1, <1>2, <1>3, <1>4
<1> QED  BY <1>1, <1>2, <1>5, AccountKept

\* Steps of a client that keep its session.
LEMMA RoomKeeping ==
  ASSUME IInv, RoomInv, TypeOK', NEW c \in Clients, Keeping(c)
  PROVE  RoomInv'
<1> SUFFICES ASSUME NEW s \in Sids PROVE RoomOf(s)'
  BY DEF RoomInv
<1> DEFINE t == session[c]
<1>1. TypeOK /\ RoomOf(s)
  BY DEF IInv, RoomInv
<1>2. /\ t \in Sids
      /\ UNCHANGED <<session, selected, openVars, workspaces>>
      /\ \A d \in Clients \ {c} : pc'[d] = pc[d]
      /\ pc[c] \in {"reserved", "opening", "active"}
      /\ pc'[c] \in {"opening", "active", "closing"}
      /\ pc[c] = "reserved" => pc'[c] = "opening"
  BY KeepingEffect
<1>3. t < nextSid /\ \A d \in Clients \ {c} : session[d] # t
  BY <1>2 DEF IInv, SessionInv
<1>4. Fresh(s)' => Fresh(s)
  BY <1>2 DEF Fresh, Owner, openVars
<1>5. MayLeave(s)' => MayLeave(s)
  BY <1>2 DEF MayLeave, Owner, openVars
<1>6. UNCHANGED <<toHub, readers, nextSid, home, workspaces>>
  BY <1>2 DEF Keeping, SendPtyOpen, OpenSucceeds, ForwardEvent, LeaveSession, agentVars, openVars
<1>7. events[s] \in Seq(Event) /\ toHub[s] \in Seq(Event) /\ Len(events[s]) \in Nat
      /\ Len(toHub[s]) \in Nat
  BY <1>1, LengthsType DEF TypeOK
<1>8. CASE SendPtyOpen(c)
  <2>1. /\ pc[c] = "reserved" /\ routes' = routes \cup {t} /\ events' = events
        /\ toAgent' = Sent(home[t], OpenFrame(t, c))
    BY <1>8 DEF SendPtyOpen
  <2>2. \A k \in Conns : toAgent'[k] \subseteq toAgent[k] \cup {OpenFrame(t, c)}
    BY <1>1, <2>1 DEF Sent, TypeOK
  <2>3. OpenFrame(t, c).sid = t /\ OpenFrame(t, c).type = "PtyOpen"
    BY DEF OpenFrame
  <2>4. Fresh(t)
    BY <2>1 DEF Fresh, Owner
  <2>5. \A k \in Conns : \A f \in toAgent'[k] \ toAgent[k] :
           ~(f.type = "PtyClose" /\ f.sid = s) /\ (f.type = "PtyOpen" /\ f.sid = s => Fresh(s))
    BY <2>2, <2>3, <2>4
  <2>6. s \in routes' => Routed(s)
    BY <2>1, <2>4 DEF Routed
  <2>7. Backlog(s)' <= Backlog(s)
    BY <1>6, <1>7, <2>1 DEF Backlog
  <2> HIDE DEF t
  <2> QED  BY <1>1, <1>4, <1>5, <1>6, <2>5, <2>6, <2>7, PlainStep
<1>9. CASE OpenSucceeds(c) \/ ForwardEvent(c)
  <2>1. events' = [events EXCEPT ![t] = Tail(@)] /\ events[t] # <<>>
        /\ UNCHANGED <<toAgent, routes>>
    BY <1>9 DEF OpenSucceeds, ForwardEvent, NextIs
  <2>2. ASSUME s = t PROVE Backlog(s)' <= Backlog(s)
    <3>1. events'[s] = Tail(events[s]) /\ events[s] # <<>>
      BY <1>1, <2>1, <2>2 DEF TypeOK
    <3>2. Len(events'[s]) + 1 = Len(events[s])
      BY <1>7, <3>1, ShorterQueue
    <3>3. Len(events'[s]) \in Nat
      BY LengthsType DEF TypeOK
    <3> QED  BY <1>6, <1>7, <3>2, <3>3 DEF Backlog
  <2>3. ASSUME s # t PROVE Backlog(s)' <= Backlog(s)
    <3>1. events'[s] = events[s]
      BY <1>1, <2>1, <2>3 DEF TypeOK
    <3> QED  BY <1>6, <1>7, <3>1 DEF Backlog
  <2>4. Backlog(s)' <= Backlog(s)
    BY <2>2, <2>3
  <2>5. \A k \in Conns : \A f \in toAgent'[k] \ toAgent[k] :
           ~(f.type = "PtyClose" /\ f.sid = s) /\ (f.type = "PtyOpen" /\ f.sid = s => Fresh(s))
    BY <2>1
  <2>6. s \in routes' => Routed(s)
    BY <2>1 DEF Routed
  <2> HIDE DEF t
  <2> QED  BY <1>1, <1>4, <1>5, <1>6, <2>4, <2>5, <2>6, PlainStep
<1>10. CASE LeaveSession(c)
  <2>1. /\ pc[c] = "active" /\ pc' = [pc EXCEPT ![c] = "closing"] /\ UNCHANGED <<routes, events>>
        /\ toAgent' = Sent(selected[c], CloseFrame(t, c))
    BY <1>10 DEF LeaveSession
  <2>2. \A k \in Conns : toAgent'[k] \subseteq toAgent[k] \cup {CloseFrame(t, c)}
    BY <1>1, <2>1 DEF Sent, TypeOK
  <2>3. CloseFrame(t, c).sid = t /\ CloseFrame(t, c).type = "PtyClose"
    BY DEF CloseFrame
  <2>4. Backlog(s)' = Backlog(s) /\ Backlog(s)' <= Backlog(s)
    BY <1>6, <1>7, <2>1 DEF Backlog
  <2>5. s \in routes' => Routed(s)
    BY <2>1 DEF Routed
  <2>6. CASE s = t
    <3>1. Closes(s)' \subseteq Closes(s) \cup {CloseFrame(t, c)}
      BY <1>6, <2>2 DEF Closes
    <3>2. Leaving(s) = 1
      BY <2>1, <2>6 DEF Leaving, MayLeave, Owner
    <3>3. Leaving(s)' = 0
      <4>1. pc'[c] = "closing"
        BY <1>1, <2>1 DEF TypeOK
      <4>2. ~(s >= nextSid')
        BY <1>1, <1>3, <1>6, <2>6 DEF TypeOK
      <4>3. \A d \in Clients : session'[d] = s => d = c
        BY <1>2, <1>3, <2>6
      <4>4. ~ MayLeave(s)'
        BY <4>1, <4>2, <4>3 DEF MayLeave, Owner
      <4> QED  BY <4>4 DEF Leaving
    <3>4. Evictable(s)' <= Evictable(s)
      BY <1>6 DEF Evictable
    <3>5. Answers(s)' <= Answers(s)
      <4>1. OpenPending(s)' => OpenPending(s)
        BY <2>2, <2>3 DEF OpenPending
      <4> QED  BY <1>4, <1>6, <4>1, AnswersKept
    <3>6. Routed(s)' => Routed(s)
      BY <1>4, <2>1 DEF Routed
    <3> HIDE DEF t
    <3> QED  BY <1>1, <2>4, <3>1, <3>2, <3>3, <3>4, <3>5, <3>6, IssuedStep
  <2>7. CASE s # t
    <3>1. \A k \in Conns : \A f \in toAgent'[k] \ toAgent[k] :
           ~(f.type = "PtyClose" /\ f.sid = s) /\ (f.type = "PtyOpen" /\ f.sid = s => Fresh(s))
      BY <2>2, <2>3, <2>7
    <3> HIDE DEF t
    <3> QED  BY <1>1, <1>4, <1>5, <1>6, <2>4, <2>5, <3>1, PlainStep
  <2> QED  BY <2>6, <2>7
<1> QED  BY <1>8, <1>9, <1>10 DEF Keeping

\* An OpenSession hands out the next session and orders the one before closed.
LEMMA RoomOpen ==
  ASSUME IInv, RoomInv, TypeOK', NEW c \in Clients, NEW a \in Agents, NEW w \in Workspaces,
         OpenSession(c, a, w)
  PROVE  RoomInv'
<1> SUFFICES ASSUME NEW s \in Sids PROVE RoomOf(s)'
  BY DEF RoomInv
<1> DEFINE key  == <<a, w>>
           k0   == <<a, registry[a]>>
           prev == workspaces[key]
<1>1. TypeOK /\ RoomOf(s)
  BY DEF IInv, RoomInv
<1>2. /\ nextSid \in Sids /\ nextSid' = nextSid + 1 /\ key \in Keys /\ k0 \in Conns
      /\ session[c] = NoSid /\ session' = [session EXCEPT ![c] = nextSid]
      /\ pc' = [pc EXCEPT ![c] = "reserved"]
      /\ home' = [home EXCEPT ![nextSid] = k0]
      /\ workspaces' = [workspaces EXCEPT ![key] = nextSid]
      /\ UNCHANGED routes
      /\ \A l \in Conns : \A f \in toAgent'[l] \ toAgent[l] : f.sid = prev /\ f.sid \in Sids
  BY OpenEffect
<1>3. UNCHANGED <<events, toHub, readers>>
  BY DEF OpenSession, agentVars
<1>4. /\ \A l \in Keys \ {key} : workspaces'[l] = workspaces[l]
      /\ workspaces'[key] = nextSid
  BY <1>1, <1>2 DEF TypeOK
<1>5. /\ session'[c] = nextSid /\ pc'[c] = "reserved"
      /\ \A d \in Clients \ {c} : pc'[d] = pc[d] /\ session'[d] = session[d]
  BY <1>1, <1>2 DEF TypeOK
<1>6. s # nextSid => home'[s] = home[s] /\ \A P : Owner(s, P)' <=> Owner(s, P)
  <2>1. ASSUME s # nextSid PROVE home'[s] = home[s]
    BY <1>1, <1>2, <2>1 DEF TypeOK
  <2>2. ASSUME s # nextSid, NEW P PROVE Owner(s, P)' <=> Owner(s, P)
    BY <1>2, <1>5, <2>2 DEF Owner
  <2> QED  BY <2>1, <2>2
<1>7. Backlog(s)' = Backlog(s) /\ Backlog(s)' <= Backlog(s)
  <2>1. Backlog(s) \in Nat
    BY <1>1, AccountType DEF RoomOf
  <2>2. Backlog(s)' = Backlog(s)
    BY <1>3 DEF Backlog
  <2> QED  BY <2>1, <2>2
<1>8. nextSid \in Nat /\ (s >= nextSid' => s >= nextSid)
  BY <1>2
<1>9. \A l \in Conns : \A f \in toAgent'[l] \ toAgent[l] : f = CloseFrame(prev, c)
  <2>1. CASE prev = NoSid
    BY <2>1 DEF OpenSession
  <2>2. CASE prev # NoSid
    <3>1. toAgent' = Sent(k0, CloseFrame(prev, c))
      BY <2>2 DEF OpenSession
    <3> QED  BY <1>1, <3>1 DEF Sent, TypeOK
  <2> QED  BY <2>1, <2>2
<1>10. CloseFrame(prev, c).sid = prev /\ CloseFrame(prev, c).type = "PtyClose"
  BY DEF CloseFrame
<1>11. prev # nextSid /\ (prev \in Sids => prev < nextSid)
  <2>1. prev \in Sids \cup {NoSid}
    BY <1>1, <1>2 DEF TypeOK
  <2>2. ASSUME prev \in Sids PROVE prev < nextSid
    <3>1. PICK d \in Clients : session[d] = prev
      BY <1>2, <2>2 DEF IInv, SlotHeld, Owner
    <3> QED  BY <3>1 DEF IInv, SessionInv
  <2> QED  BY <1>2, <2>1, <2>2
<1>12. (s # nextSid => (MayLeave(s)' => MayLeave(s)) /\ (Fresh(s)' => Fresh(s)))
       /\ (Routed(s)' => Routed(s))
  <2>1. CASE s = nextSid
    BY <1>8, <2>1 DEF Routed, Fresh
  <2>2. CASE s # nextSid
    BY <1>2, <1>6, <1>8, <2>2 DEF MayLeave, Fresh, Routed
  <2> QED  BY <2>1, <2>2
<1> HIDE DEF key, k0, prev
<1>13. CASE s = nextSid
  <2>1. \A k \in Conns : \A f \in toAgent'[k] : f.sid # s
    <3> SUFFICES ASSUME NEW k \in Conns, NEW f \in toAgent'[k] PROVE f.sid # s
      OBVIOUS
    <3>1. CASE f \in toAgent[k]
      <4>1. f.sid < nextSid
        BY <3>1 DEF IInv, SessionInv
      <4> QED  BY <1>8, <1>13, <4>1
    <3>2. CASE f \notin toAgent[k]
      BY <1>2, <1>11, <1>13, <3>2
    <3> QED  BY <3>1, <3>2
  <2>2. Closes(s)' = {}
    BY <2>1 DEF Closes
  <2>3. PICK T : T = Closes(s)'
    OBVIOUS
  <2>4. IsFiniteSet(T) /\ Cardinality(T) = 0
    BY <2>2, <2>3, FS_EmptySet
  <2>5. Cardinality(Closes(s)) \in Nat
    BY <1>1, AccountType DEF RoomOf
  <2>6. Evictable(s) = 1 /\ Leaving(s) = 1 /\ Answers(s) = 2
    BY <1>8, <1>13 DEF Evictable, Leaving, MayLeave, Answers, Fresh
  <2>7. Evictable(s)' \in {0, 1} /\ Leaving(s)' \in {0, 1}
    BY DEF Evictable, Leaving
  <2>8. IsFiniteSet(Closes(s)') /\ Orders(s)' <= Orders(s)
    <3>1. PICK n : n = Cardinality(Closes(s))
      OBVIOUS
    <3>2. PICK e2, l2 : e2 = Evictable(s)' /\ l2 = Leaving(s)'
      OBVIOUS
    <3>3. 0 + e2 + l2 <= n + 1 + 1
      BY <2>5, <2>7, <3>1, <3>2
    <3> QED  BY <2>3, <2>4, <2>6, <3>1, <3>2, <3>3 DEF Orders
  <2>9. Backlog(s)' + Answers(s)' <= Backlog(s) + Answers(s)
    <3>1. Answers(s)' \in {0, 1, 2} /\ Backlog(s) \in Nat
      BY <1>1, <2>8, AccountType, AccountTypeNext DEF RoomOf
    <3>2. PICK b, a2 : b = Backlog(s) /\ a2 = Answers(s)'
      OBVIOUS
    <3>3. b + a2 <= b + 2
      BY <3>1, <3>2
    <3> QED  BY <1>7, <2>6, <3>2, <3>3
  <2> QED  BY <1>1, <1>12, <2>8, <2>9, AccountKept
<1>14. CASE s # nextSid /\ s = prev
  <2>1. Closes(s)' \subseteq Closes(s) \cup {CloseFrame(prev, c)}
    BY <1>6, <1>9, <1>14 DEF Closes
  <2>2. Evictable(s) = 1
    BY <1>2, <1>14 DEF Evictable, prev
  <2>3. Evictable(s)' = 0
    <3>1. ~(s >= nextSid')
      BY <1>2, <1>8, <1>11, <1>14
    <3>2. HomeKey(s) = key
      BY <1>2, <1>14 DEF IInv, SlotHeld, prev
    <3>3. \A l \in Keys \ {key} : workspaces[l] # s
      BY <3>2 DEF IInv, SlotHeld
    <3>4. \A l \in Keys : workspaces'[l] # s
      BY <1>4, <1>14, <3>3
    <3> QED  BY <3>1, <3>4 DEF Evictable
  <2>4. Leaving(s)' <= Leaving(s)
    BY <1>12, <1>14 DEF Leaving
  <2>5. Answers(s)' <= Answers(s)
    <3>1. OpenPending(s)' => OpenPending(s)
      BY <1>9, <1>10 DEF OpenPending
    <3> QED  BY <1>3, <1>12, <1>14, <3>1, AnswersKept
  <2> QED  BY <1>1, <1>7, <1>12, <2>1, <2>2, <2>3, <2>4, <2>5, IssuedStep
<1>15. CASE s # nextSid /\ s # prev
  <2>1. \A k \in Conns : \A f \in toAgent'[k] \ toAgent[k] :
           ~(f.type = "PtyClose" /\ f.sid = s) /\ (f.type = "PtyOpen" /\ f.sid = s => Fresh(s))
    BY <1>2, <1>15
  <2>2. \A l \in Keys : workspaces'[l] = s => workspaces[l] = s
    BY <1>4, <1>15
  <2>3. /\ home'[s] = home[s] /\ (s >= nextSid' => s >= nextSid)
        /\ (s \in readers' => s \in readers)
        /\ (s \in routes' => Routed(s))
    BY <1>2, <1>3, <1>6, <1>8, <1>15 DEF Routed
  <2> QED  BY <1>1, <1>7, <1>12, <1>15, <2>1, <2>2, <2>3, PlainStep
<1> QED  BY <1>13, <1>14, <1>15

\* Steps of links and of the hub's readers.
Linking ==
  \/ \E a \in Agents : AgentRegisters(a) \/ AgentCrashes(a)
  \/ \E k \in Conns : LinkBreaks(k) \/ AgentUnregisters(k)
  \/ \E s \in Sids : HubReads(s)

\* Steps of the agent's tasks and reader threads.
Tasking ==
  \/ \E k \in Conns : AgentTasks(k)
  \/ \E s \in Sids : PtyEnds(s) \/ PtyOutput(s)

\* What none of them changes.
LEMMA LinkFrame ==
  ASSUME UNCHANGED <<clientVars, openVars, workspaces>>, NEW s \in Sids
  PROVE  /\ MayLeave(s)' = MayLeave(s) /\ Fresh(s)' = Fresh(s)
         /\ Evictable(s)' = Evictable(s) /\ home'[s] = home[s] /\ nextSid' = nextSid
         /\ \A P : Owner(s, P)' = Owner(s, P)
BY DEF MayLeave, Fresh, Evictable, Owner, clientVars, openVars

LEMMA RoomLink ==
  ASSUME IInv, RoomInv, TypeOK', Linking
  PROVE  RoomInv'
<1> SUFFICES ASSUME NEW s \in Sids PROVE RoomOf(s)'
  BY DEF RoomInv
<1>1. TypeOK /\ RoomOf(s)
  BY DEF IInv, RoomInv
<1>2. /\ UNCHANGED <<clientVars, openVars, workspaces>>
      /\ routes' \subseteq routes
      /\ \A k \in Conns : toAgent'[k] \subseteq toAgent[k]
  BY <1>1, LinkStep DEF Linking, LinkNext
<1>3. /\ MayLeave(s)' = MayLeave(s) /\ Fresh(s)' = Fresh(s) /\ home'[s] = home[s]
      /\ nextSid' = nextSid /\ workspaces' = workspaces
  BY <1>2, LinkFrame
<1>4. readers' \subseteq readers
  BY DEF Linking, AgentRegisters, AgentCrashes, LinkBreaks, AgentUnregisters, HubReads, agentVars
<1>5. events[s] \in Seq(Event) /\ toHub[s] \in Seq(Event) /\ Len(events[s]) \in Nat
      /\ Len(toHub[s]) \in Nat
  BY <1>1, LengthsType DEF TypeOK
<1>6. ASSUME Routed(s)' PROVE Backlog(s)' <= Backlog(s)
  <2>1. CASE UNCHANGED <<events, toHub>>
    BY <1>5, <2>1 DEF Backlog
  <2>2. ASSUME NEW k \in Conns, AgentUnregisters(k) PROVE Backlog(s)' <= Backlog(s)
    <3> DEFINE lost == {x \in routes : home[x] = k}
    <3>1. routes' = routes \ lost /\ events' = Notified(lost)
          /\ toHub' = [x \in Sids |-> IF home[x] = k THEN <<>> ELSE toHub[x]]
      BY <2>2 DEF AgentUnregisters
    <3>2. s \notin lost
      <4>1. s \in routes => ~Fresh(s)
        <5>1. ASSUME s \in routes PROVE ~Fresh(s)
          <6>1. PICK d \in Clients : session[d] = s /\ pc[d] \in {"opening", "active", "closing"}
            BY <5>1 DEF IInv, RouteOwned, Owner
          <6>2. s < nextSid /\ \A e \in Clients : session[e] = s => e = d
            BY <6>1 DEF IInv, SessionInv
          <6>3. ~(s >= nextSid)
            BY <1>1, <6>2 DEF TypeOK
          <6> QED  BY <6>1, <6>2, <6>3 DEF Fresh, Owner
        <5> QED  BY <5>1
      <4> QED  BY <1>3, <1>6, <3>1, <4>1 DEF Routed
    <3>3. events'[s] = events[s]
      BY <3>1, <3>2 DEF Notified
    <3>4. toHub'[s] = toHub[s] \/ toHub'[s] = <<>>
      BY <3>1
    <3>5. Len(toHub'[s]) = Len(toHub[s]) \/ Len(toHub'[s]) = 0
      BY <3>4
    <3> QED  BY <1>5, <3>3, <3>5 DEF Backlog
  <2>3. ASSUME NEW x \in Sids, HubReads(x) PROVE Backlog(s)' <= Backlog(s)
    <3>1. toHub[x] # <<>> /\ toHub' = [toHub EXCEPT ![x] = Tail(@)]
          /\ events' = IF x \in routes THEN [events EXCEPT ![x] = Pushed(@, Head(toHub[x]))]
                                       ELSE events
      BY <2>3 DEF HubReads
    <3>2. CASE x = s
      <4>1. toHub'[s] = Tail(toHub[s]) /\ Head(toHub[s]) \in Event
        BY <1>1, <1>5, <3>1, <3>2, HeadTailProperties DEF TypeOK
      <4>2. events'[s] = events[s] \/ events'[s] = Pushed(events[s], Head(toHub[s]))
        BY <1>1, <3>1, <3>2 DEF TypeOK
      <4>3. Len(toHub'[s]) + 1 = Len(toHub[s])
        BY <1>5, <3>1, <3>2, <4>1, ShorterQueue
      <4>4. Len(Pushed(events[s], Head(toHub[s]))) <= Len(events[s]) + 1
        BY <1>5, <4>1, LongerQueue
      <4>5. Len(events'[s]) <= Len(events[s]) + 1
        BY <1>5, <4>2, <4>4
      <4>6. Len(events'[s]) \in Nat /\ Len(toHub'[s]) \in Nat
        BY LengthsType DEF TypeOK
      <4>7. PICK m, n, m2, n2 : /\ m = Len(events[s]) /\ n = Len(toHub[s])
                                /\ m2 = Len(events'[s]) /\ n2 = Len(toHub'[s])
        OBVIOUS
      <4>8. m2 <= m + 1 /\ n2 + 1 = n
        BY <4>3, <4>5, <4>7, Zenon
      <4>9. m \in Nat /\ n \in Nat /\ m2 \in Nat /\ n2 \in Nat
        BY <1>5, <4>6, <4>7, Zenon
      <4>10. m2 + n2 <= m + n
        BY <4>8, <4>9
      <4> QED  BY <4>7, <4>10 DEF Backlog
    <3>3. CASE x # s
      <4>1. toHub'[s] = toHub[s] /\ events'[s] = events[s]
        BY <1>1, <3>1, <3>3 DEF TypeOK
      <4> QED  BY <1>5, <4>1 DEF Backlog
    <3> QED  BY <3>2, <3>3
  <2> QED  BY <2>1, <2>2, <2>3 DEF Linking, AgentRegisters, AgentCrashes, LinkBreaks
<1>7. /\ \A k \in Conns : \A f \in toAgent'[k] \ toAgent[k] :
           ~(f.type = "PtyClose" /\ f.sid = s) /\ (f.type = "PtyOpen" /\ f.sid = s => Fresh(s))
      /\ s \in readers' => s \in readers
      /\ s \in routes' => Routed(s)
  BY <1>2, <1>4 DEF Routed
<1> QED  BY <1>1, <1>3, <1>6, <1>7, PlainStep

\* What a reply of the agent adds to the frames about a session.
LEMMA RepliedEffect ==
  ASSUME TypeOK, NEW k, NEW x \in Sids, NEW e \in Event, NEW s \in Sids
  PROVE  /\ Len(Replied(k, x, e)[s]) \in {Len(toHub[s]), Len(toHub[s]) + 1}
         /\ s # x \/ k # home[x] => Len(Replied(k, x, e)[s]) = Len(toHub[s])
<1>1. toHub[s] \in Seq(Event) /\ toHub[x] \in Seq(Event)
  BY DEF TypeOK
<1>2. Replied(k, x, e)[s] = IF s = x /\ k \in wire /\ k = home[x]
                            THEN Append(toHub[s], e) ELSE toHub[s]
  BY DEF Replied, TypeOK
<1>3. Len(Append(toHub[s], e)) = Len(toHub[s]) + 1
  BY <1>1, LongerQueue
<1> QED  BY <1>2, <1>3

\* A task of the agent takes its frame f off the wire.
LEMMA RoomTask ==
  ASSUME IInv, OpenInv, RoomInv, TypeOK', NEW k \in Conns, NEW f \in toAgent[k],
         AgentOpens(k, f) \/ AgentRefuses(k, f) \/ AgentCloses(k, f)
  PROVE  RoomInv'
<1> SUFFICES ASSUME NEW s \in Sids PROVE RoomOf(s)'
  BY DEF RoomInv
<1>1. TypeOK /\ RoomOf(s)
  BY DEF IInv, RoomInv
<1>2. /\ UNCHANGED <<clientVars, openVars, workspaces, routes, events>>
      /\ toAgent' = [toAgent EXCEPT ![k] = @ \ {f}]
      /\ f \in Frame /\ f.sid \in Sids
  <2>1. f \in Frame /\ f.sid \in Sids
    BY <1>1 DEF TypeOK, Frame
  <2>2. /\ UNCHANGED <<clientVars, openVars, workspaces, routes, events>>
        /\ toAgent' = [toAgent EXCEPT ![k] = @ \ {f}]
    BY DEF AgentOpens, AgentRefuses, AgentCloses
  <2> QED  BY <2>1, <2>2
<1>3. /\ MayLeave(s)' = MayLeave(s) /\ Fresh(s)' = Fresh(s) /\ Evictable(s)' = Evictable(s)
      /\ home'[s] = home[s] /\ nextSid' = nextSid /\ workspaces' = workspaces
  BY <1>2, LinkFrame
<1>4. \A l \in Conns : toAgent'[l] \subseteq toAgent[l] /\ toAgent'[k] = toAgent[k] \ {f}
  BY <1>1, <1>2 DEF TypeOK
<1>5. \A l \in Conns : \A g \in toAgent'[l] \ toAgent[l] :
           ~(g.type = "PtyClose" /\ g.sid = s) /\ (g.type = "PtyOpen" /\ g.sid = s => Fresh(s))
  BY <1>4
<1>6. s \in routes' => Routed(s)
  BY <1>2 DEF Routed
<1>7. Routed(s)' => Routed(s)
  BY <1>2, <1>3 DEF Routed
<1>8. OpenPending(s)' => OpenPending(s)
  BY <1>4 DEF OpenPending
<1>9. IsFiniteSet(Closes(s)') /\ Orders(s)' <= Orders(s)
  BY <1>1, <1>3, <1>5, OrdersKept DEF RoomOf
<1>10. Backlog(s) \in Nat /\ Answers(s) \in {0, 1, 2} /\ Orders(s) \in Nat
       /\ Len(events[s]) \in Nat /\ Len(toHub[s]) \in Nat
  <2>1. events[s] \in Seq(Event) /\ toHub[s] \in Seq(Event)
    BY <1>1 DEF TypeOK
  <2> QED  BY <1>1, <2>1, AccountType, LengthsType DEF RoomOf
<1>11. PICK e \in Event : toHub' = Replied(k, f.sid, e)
  BY DEF AgentOpens, AgentRefuses, AgentCloses, Event
<1>12. /\ Backlog(s)' = Backlog(s) \/ Backlog(s)' = Backlog(s) + 1
       /\ s # f.sid \/ k # home[s] => Backlog(s)' = Backlog(s)
  <2>1. /\ Len(toHub'[s]) \in {Len(toHub[s]), Len(toHub[s]) + 1}
        /\ s # f.sid \/ k # home[f.sid] => Len(toHub'[s]) = Len(toHub[s])
    BY <1>1, <1>2, <1>11, RepliedEffect
  <2>2. events'[s] = events[s]
    BY <1>2
  <2>3. PICK m, n, n2 : m = Len(events[s]) /\ n = Len(toHub[s]) /\ n2 = Len(toHub'[s])
    OBVIOUS
  <2>4. Backlog(s) = m + n /\ Backlog(s)' = m + n2
    BY <2>2, <2>3 DEF Backlog
  <2>5. n2 \in {n, n + 1} /\ (s # f.sid \/ k # home[s] => n2 = n)
    BY <2>1, <2>3
  <2>6. m \in Nat /\ n \in Nat
    BY <1>10, <2>3
  <2> QED  BY <2>4, <2>5, <2>6
<1>13. Backlog(s)' <= Backlog(s) + 1
  BY <1>10, <1>12
<1>14. f.type = "PtyOpen" => OpenPending(f.sid) /\ ~OpenPending(f.sid)'
  <2> SUFFICES ASSUME f.type = "PtyOpen" PROVE OpenPending(f.sid) /\ ~OpenPending(f.sid)'
    OBVIOUS
  <2>1. OpenPending(f.sid)
    BY DEF OpenPending
  <2>2. ~OpenPending(f.sid)'
    <3> SUFFICES ASSUME NEW l \in Conns, NEW g \in toAgent'[l], g.type = "PtyOpen", g.sid' = f.sid'
                 PROVE  FALSE
      BY <1>2 DEF OpenPending
    <3>1. g \in toAgent[l] /\ g.sid = f.sid
      BY <1>4
    <3>2. l = k /\ g = f
      BY <3>1 DEF OpenInv
    <3> QED  BY <1>4, <3>2
  <2> QED  BY <2>1, <2>2
<1>15. CASE s # f.sid
  <2>1. s \in readers' => s \in readers
    BY <1>15 DEF AgentOpens, AgentRefuses, AgentCloses, agentVars
  <2>2. Backlog(s)' <= Backlog(s)
    BY <1>10, <1>12, <1>15
  <2> QED  BY <1>1, <1>3, <1>5, <1>6, <2>1, <2>2, PlainStep
<1>16. CASE s = f.sid /\ f.type = "PtyOpen"
  <2>1. Answers(s) = 2 /\ ~Fresh(s)
    BY <1>14, <1>16 DEF Answers, OpenInv
  <2>2. ~Fresh(s)' /\ ~OpenPending(s)'
    BY <1>3, <1>14, <1>16, <2>1
  <2>3. Answers(s)' <= 1 /\ Answers(s)' \in Nat
    BY <2>2 DEF Answers
  <2>4. Answers(s)' + 1 <= Answers(s)
    BY <2>1, <2>3
  <2> QED  BY <1>1, <1>7, <1>9, <1>13, <2>4, SpentStep
<1>17. CASE s = f.sid /\ f.type = "PtyClose"
  <2>1. AgentCloses(k, f)
    BY <1>17 DEF AgentOpens, AgentRefuses
  <2>2. readers' = readers
    BY <2>1 DEF AgentCloses
  <2>3. Answers(s)' <= Answers(s)
    BY <1>3, <1>8, <2>2, AnswersKept
  <2>4. CASE k = home[s]
    <3>1. f \in Closes(s)
      BY <1>2, <1>17, <2>4 DEF Closes
    <3>2. Closes(s)' \subseteq Closes(s) \ {f}
      BY <1>3, <1>4, <2>4 DEF Closes
    <3>3. PICK S, T : S = Closes(s) /\ T = Closes(s)'
      OBVIOUS
    <3>4. IsFiniteSet(S) /\ IsFiniteSet(T) /\ Cardinality(T) + 1 <= Cardinality(S)
      BY <1>1, <3>1, <3>2, <3>3, ShrunkByOne DEF RoomOf
    <3>5. PICK m, n : m = Cardinality(S) /\ n = Cardinality(T)
      OBVIOUS
    <3>6. m \in Nat /\ n \in Nat /\ n + 1 <= m
      BY <3>4, <3>5, FS_CardinalityType
    <3>7. Evictable(s)' = Evictable(s) /\ Leaving(s)' = Leaving(s)
      BY <1>3 DEF Leaving
    <3>8. PICK p, q : p = Evictable(s) /\ q = Leaving(s)
      OBVIOUS
    <3>9. p \in {0, 1} /\ q \in {0, 1}
      BY <3>8 DEF Evictable, Leaving
    <3>10. n + p + q + 1 <= m + p + q
      BY <3>6, <3>9
    <3>11. Orders(s)' + 1 <= Orders(s)
      BY <3>3, <3>5, <3>7, <3>8, <3>10 DEF Orders
    <3> QED  BY <1>1, <1>7, <1>9, <1>13, <2>3, <3>11, SpentStep
  <2>5. CASE k # home[s]
    <3>1. Backlog(s)' <= Backlog(s)
      BY <1>10, <1>12, <2>5
    <3> QED  BY <1>1, <1>3, <1>5, <1>6, <2>2, <3>1, PlainStep
  <2> QED  BY <2>4, <2>5
<1> QED  BY <1>15, <1>16, <1>17 DEF AgentOpens, AgentRefuses, AgentCloses

\* A reader thread ends or passes output on.
LEMMA RoomReader ==
  ASSUME IInv, OpenInv, RoomInv, TypeOK', NEW x \in Sids, PtyEnds(x) \/ PtyOutput(x)
  PROVE  RoomInv'
<1> SUFFICES ASSUME NEW s \in Sids PROVE RoomOf(s)'
  BY DEF RoomInv
<1>1. TypeOK /\ RoomOf(s)
  BY DEF IInv, RoomInv
<1>2. /\ UNCHANGED <<clientVars, openVars, workspaces, routes, events, toAgent>>
      /\ x \in readers /\ readers' \subseteq readers
      /\ \E e \in Event : toHub' \in {toHub, Replied(home[x], x, e)}
  <2>1. CASE PtyEnds(x)
    BY <2>1 DEF PtyEnds, Event
  <2>2. CASE PtyOutput(x)
    BY <2>2 DEF PtyOutput, Event, agentVars
  <2> QED  BY <2>1, <2>2
<1>3. /\ MayLeave(s)' = MayLeave(s) /\ Fresh(s)' = Fresh(s) /\ Evictable(s)' = Evictable(s)
      /\ home'[s] = home[s] /\ nextSid' = nextSid /\ workspaces' = workspaces
  BY <1>2, LinkFrame
<1>4. \A l \in Conns : \A g \in toAgent'[l] \ toAgent[l] :
           ~(g.type = "PtyClose" /\ g.sid = s) /\ (g.type = "PtyOpen" /\ g.sid = s => Fresh(s))
  BY <1>2
<1>5. /\ s \in routes' => Routed(s)
      /\ Routed(s)' => Routed(s)
  BY <1>2, <1>3 DEF Routed
<1>6. IsFiniteSet(Closes(s)') /\ Orders(s)' <= Orders(s)
  BY <1>1, <1>3, <1>4, OrdersKept DEF RoomOf
<1>7. Backlog(s) \in Nat /\ Answers(s) \in {0, 1, 2} /\ Orders(s) \in Nat
      /\ Len(events[s]) \in Nat /\ Len(toHub[s]) \in Nat
  <2>1. events[s] \in Seq(Event) /\ toHub[s] \in Seq(Event)
    BY <1>1 DEF TypeOK
  <2> QED  BY <1>1, <2>1, AccountType, LengthsType DEF RoomOf
<1>8. /\ Backlog(s)' = Backlog(s) \/ Backlog(s)' = Backlog(s) + 1
      /\ s # x => Backlog(s)' = Backlog(s)
  <2>1. /\ Len(toHub'[s]) \in {Len(toHub[s]), Len(toHub[s]) + 1}
        /\ s # x => Len(toHub'[s]) = Len(toHub[s])
    BY <1>1, <1>2, RepliedEffect
  <2>2. events'[s] = events[s]
    BY <1>2
  <2>3. PICK m, n, n2 : m = Len(events[s]) /\ n = Len(toHub[s]) /\ n2 = Len(toHub'[s])
    OBVIOUS
  <2>4. Backlog(s) = m + n /\ Backlog(s)' = m + n2
    BY <2>2, <2>3 DEF Backlog
  <2>5. n2 \in {n, n + 1} /\ (s # x => n2 = n)
    BY <2>1, <2>3
  <2>6. m \in Nat /\ n \in Nat
    BY <1>7, <2>3
  <2> QED  BY <2>4, <2>5, <2>6
<1>9. CASE s # x
  <2>1. Backlog(s)' <= Backlog(s)
    BY <1>7, <1>8, <1>9
  <2> QED  BY <1>1, <1>2, <1>3, <1>4, <1>5, <2>1, PlainStep
<1>10. CASE s = x
  <2>1. ~Fresh(s) /\ ~OpenPending(s) /\ Answers(s) = 1
    BY <1>2, <1>10 DEF OpenInv, Answers
  <2>2. ~Fresh(s)' /\ ~OpenPending(s)'
    BY <1>2, <1>3, <2>1 DEF OpenPending
  <2>3. CASE PtyEnds(x)
    <3>1. s \notin readers'
      BY <1>10, <2>3 DEF PtyEnds
    <3>2. Answers(s)' = 0
      BY <2>2, <3>1 DEF Answers
    <3>3. Answers(s)' + 1 <= Answers(s)
      BY <2>1, <3>2
    <3>4. Backlog(s)' <= Backlog(s) + 1
      BY <1>7, <1>8
    <3> QED  BY <1>1, <1>5, <1>6, <3>3, <3>4, SpentStep
  <2>4. CASE PtyOutput(x)
    <3>1. Backlog(s) < MaxBacklog
      BY <1>10, <2>4 DEF PtyOutput, Backlog
    <3>2. Answers(s)' \in {0, 1}
      BY <2>2 DEF Answers
    <3>3. Orders(s) <= 2 /\ Orders(s)' \in Nat
      BY <1>1, <1>6, AccountTypeNext DEF RoomOf
    <3>4. PICK b, b2, a2, o, o2 : /\ b = Backlog(s) /\ b2 = Backlog(s)' /\ a2 = Answers(s)'
                                  /\ o = Orders(s) /\ o2 = Orders(s)'
      OBVIOUS
    <3>5. b \in Nat /\ b2 \in {b, b + 1} /\ a2 \in {0, 1} /\ o \in Nat /\ o2 \in Nat
      BY <1>7, <1>8, <3>2, <3>3, <3>4
    <3>6. b < MaxBacklog /\ o <= 2 /\ o2 <= o
      BY <1>6, <3>1, <3>3, <3>4
    <3>7. o2 <= 2 /\ b2 + a2 + o2 <= MaxBacklog + 4
      BY <3>5, <3>6
    <3> QED  BY <1>6, <3>4, <3>7 DEF RoomOf
  <2> QED  BY <2>3, <2>4
<1> QED  BY <1>9, <1>10

LEMMA RoomStep == IInv /\ OpenInv /\ RoomInv /\ [Next]_vars => RoomInv'
<1> SUFFICES ASSUME IInv, OpenInv, RoomInv, [Next]_vars PROVE RoomInv'
  OBVIOUS
<1>1. TypeOK'
  BY TypeStep DEF IInv
<1>2. CASE UNCHANGED vars
  <2>1. \A s \in Sids : RoomOf(s)' = RoomOf(s)
    BY <1>2 DEF RoomOf, Routed, Fresh, Orders, Answers, Backlog, Closes, Evictable, Leaving,
                MayLeave, OpenPending, Owner, vars, clientVars, openVars, agentVars, linkVars
  <2> QED  BY <2>1 DEF RoomInv
<1>3. CASE Next
  <2>1. CASE \E k \in Conns : AgentTasks(k)
    BY <1>1, <2>1, RoomTask DEF AgentTasks
  <2>2. CASE Linking
    BY <1>1, <2>2, RoomLink
  <2>3. CASE \E s \in Sids : PtyEnds(s) \/ PtyOutput(s)
    BY <1>1, <2>3, RoomReader
  <2>4. CASE \E c \in Clients : Idle(c) \/ Keeping(c) \/ Ending(c)
    BY <1>1, <2>4, RoomIdle, RoomKeeping, RoomEnding
  <2>5. CASE \E c \in Clients, a \in Agents, w \in Workspaces : OpenSession(c, a, w)
    BY <1>1, <2>5, RoomOpen
  <2>6. \/ \E c \in Clients : Idle(c) \/ Keeping(c) \/ Ending(c)
        \/ \E c \in Clients, a \in Agents, w \in Workspaces : OpenSession(c, a, w)
        \/ \E k \in Conns : LinkNext(k)
        \/ \E a \in Agents : AgentRegisters(a) \/ AgentCrashes(a)
        \/ \E s \in Sids : HubReads(s) \/ PtyEnds(s) \/ PtyOutput(s)
    BY <1>3, NextCases
  <2>7. (\E k \in Conns : LinkNext(k)) => Linking \/ \E k \in Conns : AgentTasks(k)
    BY DEF LinkNext, Linking
  <2>8. (\E s \in Sids : HubReads(s) \/ PtyEnds(s) \/ PtyOutput(s)) =>
          Linking \/ \E s \in Sids : PtyEnds(s) \/ PtyOutput(s)
    BY DEF Linking
  <2>9. (\E a \in Agents : AgentRegisters(a) \/ AgentCrashes(a)) => Linking
    BY DEF Linking
  <2> QED  BY <2>1, <2>2, <2>3, <2>4, <2>5, <2>6, <2>7, <2>8, <2>9
<1> QED  BY <1>2, <1>3

\* A PtyOpen is sent once, for a session without one, and run once.
LEMMA OpenStep == IInv /\ OpenInv /\ [Next]_vars => OpenInv'
<1> SUFFICES ASSUME IInv, OpenInv, [Next]_vars PROVE OpenInv'
  OBVIOUS
<1>1. TypeOK /\ TypeOK'
  BY TypeStep DEF IInv
<1>2. ASSUME \A s \in Sids : Fresh(s)' => Fresh(s),
             \A k \in Conns : \A f \in toAgent'[k] : f.type = "PtyOpen" => f \in toAgent[k],
             readers' \subseteq readers
      PROVE  OpenInv'
  <2>1. \A s \in Sids : OpenPending(s)' => OpenPending(s)
    BY <1>2 DEF OpenPending
  <2>2. /\ \A s \in Sids : Fresh(s)' => ~OpenPending(s)'
        /\ \A s \in Sids : Fresh(s)' \/ OpenPending(s)' => s \notin readers'
    BY <1>2, <2>1 DEF OpenInv
  <2>3. \A k, l \in Conns : \A f \in toAgent'[k], g \in toAgent'[l] :
          f.type = "PtyOpen" /\ g.type = "PtyOpen" /\ f.sid = g.sid => k = l /\ f = g
    BY <1>2 DEF OpenInv
  <2> QED  BY <2>2, <2>3 DEF OpenInv
<1>3. CASE UNCHANGED vars
  <2>1. \A s \in Sids : Fresh(s)' = Fresh(s)
    BY <1>3 DEF Fresh, Owner, vars, clientVars, openVars
  <2> QED  BY <1>2, <1>3, <2>1 DEF vars, agentVars
<1>4. ASSUME NEW c \in Clients, Idle(c) PROVE OpenInv'
  <2>1. /\ session[c] = NoSid
        /\ UNCHANGED <<session, openVars, workspaces, routes, toAgent>>
        /\ \A d \in Clients \ {c} : pc'[d] = pc[d]
    BY <1>1, <1>4, IdleEffect
  <2>2. readers' = readers
    BY <1>4 DEF Idle, Connect, Leave, SelectAgent, agentVars
  <2>3. \A s \in Sids : Fresh(s)' => Fresh(s)
    BY <2>1 DEF Fresh, Owner, openVars
  <2> QED  BY <1>2, <2>1, <2>2, <2>3
<1>5. ASSUME NEW c \in Clients, Ending(c) PROVE OpenInv'
  <2>1. /\ session[c] \in Sids
        /\ session' = [session EXCEPT ![c] = NoSid]
        /\ pc' \in {[pc EXCEPT ![c] = "menu"], [pc EXCEPT ![c] = "gone"]}
        /\ UNCHANGED <<openVars, toAgent>>
    BY <1>5, EndingEffect
  <2>2. readers' = readers
    BY <1>5 DEF Ending, SendPtyOpenFails, OpenFails, SessionClosed, FinishTeardown, agentVars
  <2>3. session'[c] = NoSid /\ \A d \in Clients \ {c} : session'[d] = session[d] /\ pc'[d] = pc[d]
    BY <1>1, <2>1 DEF TypeOK
  <2>4. \A s \in Sids : Fresh(s)' => Fresh(s)
    BY <2>1, <2>3 DEF Fresh, Owner, openVars
  <2> QED  BY <1>2, <2>1, <2>2, <2>4
<1>6. ASSUME NEW c \in Clients, Keeping(c) PROVE OpenInv'
  <2> DEFINE t == session[c]
  <2>1. /\ t \in Sids
        /\ UNCHANGED <<session, selected, openVars, workspaces>>
        /\ \A d \in Clients \ {c} : pc'[d] = pc[d]
        /\ pc'[c] \in {"opening", "active", "closing"}
    <3>1. pc[c] \in {"reserved", "opening", "active"}
      BY <1>6, KeepingEffect
    <3> QED  BY <1>6, <3>1, KeepingEffect
  <2>2. \A s \in Sids : Fresh(s)' => Fresh(s)
    BY <2>1 DEF Fresh, Owner, openVars
  <2>3. readers' = readers
    BY <1>6 DEF Keeping, SendPtyOpen, OpenSucceeds, ForwardEvent, LeaveSession, agentVars
  <2>4. CASE SendPtyOpen(c)
    <3>1. pc[c] = "reserved" /\ toAgent' = Sent(home[t], OpenFrame(t, c))
      BY <2>4 DEF SendPtyOpen
    <3>2. \A k \in Conns : \A f \in toAgent'[k] \ toAgent[k] : k = home[t] /\ f = OpenFrame(t, c)
      BY <1>1, <3>1 DEF Sent, TypeOK
    <3>3. OpenFrame(t, c).sid = t
      BY DEF OpenFrame
    <3>4. Fresh(t) /\ ~Fresh(t)'
      <4>1. Fresh(t)
        BY <3>1 DEF Fresh, Owner
      <4>2. t < nextSid /\ \A d \in Clients : session[d] = t => d = c
        BY <2>1 DEF IInv, SessionInv
      <4>3. ~(t >= nextSid')
        BY <1>1, <2>1, <4>2 DEF TypeOK, openVars
      <4> QED  BY <2>1, <4>1, <4>2, <4>3 DEF Fresh, Owner
    <3>5. ~OpenPending(t) /\ t \notin readers
      BY <2>1, <3>4 DEF OpenInv
    <3>6. \A s \in Sids : OpenPending(s)' => OpenPending(s) \/ s = t
      BY <3>2, <3>3 DEF OpenPending
    <3>7. ASSUME NEW s \in Sids
          PROVE  /\ Fresh(s)' => ~OpenPending(s)'
                 /\ Fresh(s)' \/ OpenPending(s)' => s \notin readers'
      <4>1. CASE s = t
        <5>1. s < nextSid' /\ \A d \in Clients : session'[d] = s => pc'[d] # "reserved"
          <6>1. s < nextSid /\ \A d \in Clients : session[d] = s => d = c
            BY <2>1, <4>1 DEF IInv, SessionInv
          <6> QED  BY <2>1, <6>1 DEF openVars
        <5>2. ~Fresh(s)'
          <6>1. s \in Nat /\ nextSid' \in Nat
            BY <1>1 DEF TypeOK
          <6>2. ~(s >= nextSid')
            BY <5>1, <6>1
          <6> QED  BY <5>1, <6>2 DEF Fresh, Owner
        <5>3. s \notin readers'
          BY <2>3, <3>5, <4>1
        <5> QED  BY <5>2, <5>3
      <4>2. CASE s # t
        <5>1. (Fresh(s)' => Fresh(s)) /\ (OpenPending(s)' => OpenPending(s))
          BY <2>2, <3>6, <4>2
        <5>2. (Fresh(s) => ~OpenPending(s)) /\ (Fresh(s) \/ OpenPending(s) => s \notin readers)
          BY DEF OpenInv
        <5> QED  BY <2>3, <5>1, <5>2
      <4> QED  BY <4>1, <4>2
    <3>8. ASSUME NEW k \in Conns, NEW l \in Conns, NEW f \in toAgent'[k], NEW g \in toAgent'[l],
                 f.type = "PtyOpen", g.type = "PtyOpen", f.sid = g.sid
          PROVE  k = l /\ f = g
      <4>1. CASE f \in toAgent[k] /\ g \in toAgent[l]
        BY <3>8, <4>1 DEF OpenInv
      <4>2. CASE f \notin toAgent[k] /\ g \notin toAgent[l]
        BY <3>2, <4>2
      <4>3. CASE f \in toAgent[k] /\ g \notin toAgent[l]
        BY <3>2, <3>3, <3>5, <3>8, <4>3 DEF OpenPending
      <4>4. CASE f \notin toAgent[k] /\ g \in toAgent[l]
        BY <3>2, <3>3, <3>5, <3>8, <4>4 DEF OpenPending
      <4> QED  BY <4>1, <4>2, <4>3, <4>4
    <3> QED  BY <3>7, <3>8 DEF OpenInv
  <2>5. CASE OpenSucceeds(c) \/ ForwardEvent(c)
    <3>1. toAgent' = toAgent
      BY <2>5 DEF OpenSucceeds, ForwardEvent
    <3> QED  BY <1>2, <2>2, <2>3, <3>1
  <2>6. CASE LeaveSession(c)
    <3>1. \A k \in Conns : toAgent'[k] \subseteq toAgent[k] \cup {CloseFrame(t, c)}
      BY <1>1, <2>6 DEF LeaveSession, Sent, TypeOK
    <3>2. CloseFrame(t, c).type # "PtyOpen"
      BY DEF CloseFrame
    <3>3. \A k \in Conns : \A f \in toAgent'[k] : f.type = "PtyOpen" => f \in toAgent[k]
      BY <3>1, <3>2
    <3> QED  BY <1>2, <2>2, <2>3, <3>3
  <2> QED  BY <1>6, <2>4, <2>5, <2>6 DEF Keeping
<1>7. ASSUME NEW c \in Clients, NEW a \in Agents, NEW w \in Workspaces, OpenSession(c, a, w)
      PROVE  OpenInv'
  <2>1. /\ nextSid \in Sids /\ nextSid' = nextSid + 1
        /\ session[c] = NoSid /\ session' = [session EXCEPT ![c] = nextSid]
        /\ pc' = [pc EXCEPT ![c] = "reserved"]
    BY <1>7, OpenEffect
  <2>2. session'[c] = nextSid /\ \A d \in Clients \ {c} : session'[d] = session[d] /\ pc'[d] = pc[d]
    BY <1>1, <2>1 DEF TypeOK
  <2>3. \A s \in Sids : Fresh(s)' => Fresh(s)
    <3> SUFFICES ASSUME NEW s \in Sids, Fresh(s)' PROVE Fresh(s)
      OBVIOUS
    <3>1. CASE s >= nextSid
      BY <3>1 DEF Fresh
    <3>2. CASE ~(s >= nextSid)
      <4>1. ~(s >= nextSid')
        BY <2>1, <3>2
      <4>2. PICK d \in Clients : session'[d] = s /\ pc'[d] \in {"reserved"}
        BY <4>1 DEF Fresh, Owner
      <4>3. d # c
        BY <2>1, <2>2, <3>2, <4>2
      <4> QED  BY <2>2, <4>2, <4>3 DEF Fresh, Owner
    <3> QED  BY <3>1, <3>2
  <2>4. \A k \in Conns : \A f \in toAgent'[k] : f.type = "PtyOpen" => f \in toAgent[k]
    <3> DEFINE prev == workspaces[<<a, w>>]
    <3>1. CASE prev = NoSid
      BY <1>7, <3>1 DEF OpenSession
    <3>2. CASE prev # NoSid
      <4>1. toAgent' = Sent(<<a, registry[a]>>, CloseFrame(prev, c))
        BY <1>7, <3>2 DEF OpenSession
      <4>2. \A k \in Conns : toAgent'[k] \subseteq toAgent[k] \cup {CloseFrame(prev, c)}
        BY <1>1, <4>1 DEF Sent, TypeOK
      <4>3. CloseFrame(prev, c).type # "PtyOpen"
        BY DEF CloseFrame
      <4> QED  BY <4>2, <4>3
    <3> QED  BY <3>1, <3>2
  <2>5. readers' = readers
    BY <1>7 DEF OpenSession, agentVars
  <2> QED  BY <1>2, <2>3, <2>4, <2>5
<1>8. ASSUME NEW k \in Conns, AgentTasks(k) PROVE OpenInv'
  <2>1. PICK f \in toAgent[k] : AgentOpens(k, f) \/ AgentRefuses(k, f) \/ AgentCloses(k, f)
    BY <1>8 DEF AgentTasks
  <2>2. UNCHANGED <<clientVars, openVars>> /\ toAgent' = [toAgent EXCEPT ![k] = @ \ {f}]
        /\ readers' \in {readers, readers \cup {f.sid}}
        /\ (f.type # "PtyOpen" => readers' = readers)
    BY <2>1 DEF AgentOpens, AgentRefuses, AgentCloses, agentVars
  <2>3. \A s \in Sids : Fresh(s)' = Fresh(s)
    BY <2>2 DEF Fresh, Owner, clientVars, openVars
  <2>4. f.sid \in Sids
    BY <1>1 DEF TypeOK, Frame
  <2>5. (\A l \in Conns : toAgent'[l] \subseteq toAgent[l]) /\ f \notin toAgent'[k]
    BY <1>1, <2>2 DEF TypeOK
  <2>6. CASE f.type # "PtyOpen"
    BY <1>2, <2>2, <2>3, <2>5, <2>6
  <2>7. CASE f.type = "PtyOpen"
    <3>1. OpenPending(f.sid)
      BY <2>7 DEF OpenPending
    <3>2. ~Fresh(f.sid)
      BY <2>4, <3>1 DEF OpenInv
    <3>3. \A l \in Conns : \A g \in toAgent'[l] : ~(g.type = "PtyOpen" /\ g.sid = f.sid)
      <4> SUFFICES ASSUME NEW l \in Conns, NEW g \in toAgent'[l], g.type = "PtyOpen", g.sid = f.sid
                   PROVE  FALSE
        OBVIOUS
      <4>1. g \in toAgent[l]
        BY <2>5
      <4>2. l = k /\ g = f
        BY <2>7, <4>1 DEF OpenInv
      <4> QED  BY <2>5, <4>2
    <3>4. \A s \in Sids : OpenPending(s)' => OpenPending(s) /\ s # f.sid
      BY <2>5, <3>3 DEF OpenPending
    <3>5. /\ \A s \in Sids : Fresh(s)' => ~OpenPending(s)'
          /\ \A s \in Sids : Fresh(s)' \/ OpenPending(s)' => s \notin readers'
      BY <2>2, <2>3, <3>2, <3>4 DEF OpenInv
    <3>6. \A l, m \in Conns : \A g \in toAgent'[l], h \in toAgent'[m] :
            g.type = "PtyOpen" /\ h.type = "PtyOpen" /\ g.sid = h.sid => l = m /\ g = h
      BY <2>5 DEF OpenInv
    <3> QED  BY <3>5, <3>6 DEF OpenInv
  <2> QED  BY <2>6, <2>7
<1>9. CASE Linking \/ \E s \in Sids : PtyEnds(s) \/ PtyOutput(s)
  <2>1. UNCHANGED <<clientVars, openVars>> /\ \A k \in Conns : toAgent'[k] \subseteq toAgent[k]
    BY <1>1, <1>9, LinkStep DEF Linking, LinkNext
  <2>2. readers' \subseteq readers
    BY <1>9 DEF Linking, AgentRegisters, AgentCrashes, LinkBreaks, AgentUnregisters, HubReads,
                PtyEnds, PtyOutput, agentVars
  <2>3. \A s \in Sids : Fresh(s)' = Fresh(s)
    BY <2>1 DEF Fresh, Owner, clientVars, openVars
  <2> QED  BY <1>2, <2>1, <2>2, <2>3
<1> QED
  <2>1. CASE Next
    <3>1. \/ \E c \in Clients : Idle(c) \/ Keeping(c) \/ Ending(c)
          \/ \E c \in Clients, a \in Agents, w \in Workspaces : OpenSession(c, a, w)
          \/ \E k \in Conns : LinkNext(k)
          \/ \E a \in Agents : AgentRegisters(a) \/ AgentCrashes(a)
          \/ \E s \in Sids : HubReads(s) \/ PtyEnds(s) \/ PtyOutput(s)
      BY <2>1, NextCases
    <3> QED  BY <3>1, <1>4, <1>5, <1>6, <1>7, <1>8, <1>9 DEF LinkNext, Linking
  <2> QED  BY <1>3, <2>1

\* What is queued for another session does not move.
LEMMA HeardKept ==
  ASSUME NEW c \in Clients, HeardInv, session'[c] = session[c],
         pc'[c] \in {"opening", "active"} => pc[c] \in {"opening", "active"},
         session[c] \in routes /\ pc'[c] \in {"opening", "active"} => session[c] \in routes',
         events'[session[c]] = events[session[c]]
  PROVE  pc'[c] \in {"opening", "active"} /\ session'[c] \notin routes' =>
           \E i \in 1 .. Len(events'[session'[c]]) : events'[session'[c]][i] = "closed"
BY DEF HeardInv

\* A queue that holds "closed" still does behind its first event.
LEMMA ClosedBehind ==
  ASSUME NEW q \in Seq(Event), NEW i \in 1 .. Len(q), q[i] = "closed", Head(q) # "closed"
  PROVE  \E j \in 1 .. Len(Tail(q)) : Tail(q)[j] = "closed"
<1>1. PICK n : n = Len(q)
  OBVIOUS
<1>2. n \in Nat /\ i \in 1 .. n /\ q # <<>>
  BY <1>1, LenProperties, EmptySeq
<1>3. Head(q) = q[1] /\ Len(Tail(q)) = n - 1 /\ \A j \in 1 .. n - 1 : Tail(q)[j] = q[j + 1]
  BY <1>1, <1>2, HeadTailProperties
<1>4. i # 1
  BY <1>3
<1>5. i - 1 \in 1 .. n - 1 /\ (i - 1) + 1 = i
  BY <1>2, <1>4
<1> QED  BY <1>3, <1>5

\* The session of a client without a route has its end queued.
LEMMA HeardStep == Room /\ HearInv /\ [Next]_vars => HeardInv'
<1> SUFFICES ASSUME Room, HearInv, [Next]_vars, NEW d \in Clients,
                    pc'[d] \in {"opening", "active"}, session'[d] \notin routes'
             PROVE  \E i \in 1 .. Len(events'[session'[d]]) : events'[session'[d]][i] = "closed"
  BY DEF HeardInv
<1>1. TypeOK /\ IInv /\ HeardInv /\ RoomInv
  BY DEF HearInv, IInv
<1>2. TypeOK'
  BY <1>1, TypeStep
<1>3. CASE UNCHANGED vars
  BY <1>1, <1>3, HeardKept DEF vars, clientVars
<1>4. ASSUME NEW c \in Clients, Idle(c)
      PROVE  \E i \in 1 .. Len(events'[session'[d]]) : events'[session'[d]][i] = "closed"
  <2>1. /\ session[c] = NoSid
        /\ UNCHANGED <<session, openVars, workspaces, routes, toAgent>>
        /\ \A x \in Clients \ {c} : pc'[x] = pc[x]
    BY <1>1, <1>4, IdleEffect
  <2>2. d # c
    BY <1>2, <2>1 DEF TypeOK
  <2>3. events' = events
    BY <1>4 DEF Idle, Connect, Leave, SelectAgent
  <2> QED  BY <1>1, <2>1, <2>2, <2>3, HeardKept
<1>5. ASSUME NEW c \in Clients, Ending(c)
      PROVE  \E i \in 1 .. Len(events'[session'[d]]) : events'[session'[d]][i] = "closed"
  <2>1. /\ session[c] \in Sids
        /\ session' = [session EXCEPT ![c] = NoSid]
        /\ pc' \in {[pc EXCEPT ![c] = "menu"], [pc EXCEPT ![c] = "gone"]}
        /\ routes' = routes \ {session[c]}
    BY <1>1, <1>5, EndingEffect
  <2>2. pc'[c] \in {"menu", "gone"} /\ \A x \in Clients \ {c} : pc'[x] = pc[x] /\ session'[x] = session[x]
    BY <1>1, <2>1 DEF TypeOK
  <2>3. d # c
    BY <2>2
  <2>4. session[d] # session[c]
    BY <1>1, <2>1, <2>3 DEF IInv, SessionInv
  <2>5. events' \in {events, [events EXCEPT ![session[c]] = <<>>]}
    BY <1>5 DEF Ending, SendPtyOpenFails, OpenFails, SessionClosed, FinishTeardown, EndSession
  <2>6. session[d] \in Sids
    BY <1>1, <2>2, <2>3 DEF TypeOK
  <2>7. events'[session[d]] = events[session[d]]
    BY <1>1, <2>4, <2>5, <2>6 DEF TypeOK
  <2> QED  BY <1>1, <2>1, <2>2, <2>3, <2>4, <2>7, HeardKept
<1>6. ASSUME NEW c \in Clients, Keeping(c)
      PROVE  \E i \in 1 .. Len(events'[session'[d]]) : events'[session'[d]][i] = "closed"
  <2>1. /\ session[c] \in Sids /\ session' = session
        /\ \A x \in Clients \ {c} : pc'[x] = pc[x]
    BY <1>1, <1>6, KeepingEffect
  <2>2. session[d] \in Sids
    <3>1. session'[d] \in Sids
      BY <1>2 DEF TypeOK
    <3> QED  BY <2>1, <3>1
  <2>3. CASE d # c
    <3>1. session[d] # session[c]
      BY <1>1, <2>1, <2>2, <2>3 DEF IInv, SessionInv
    <3>2. routes \subseteq routes'
      BY <1>6 DEF Keeping, SendPtyOpen, OpenSucceeds, ForwardEvent, LeaveSession
    <3>3. events' \in {events, [events EXCEPT ![session[c]] = Tail(@)]}
      BY <1>6 DEF Keeping, SendPtyOpen, OpenSucceeds, ForwardEvent, LeaveSession
    <3>4. events'[session[d]] = events[session[d]]
      BY <1>1, <2>2, <3>1, <3>3 DEF TypeOK
    <3> QED  BY <1>1, <2>1, <2>3, <3>2, <3>4, HeardKept
  <2>4. CASE d = c
    <3>1. ~SendPtyOpen(c)
      BY <2>1, <2>4 DEF SendPtyOpen
    <3>2. ~LeaveSession(c)
      <4>1. LeaveSession(c) => pc'[c] = "closing"
        BY <1>1 DEF LeaveSession, TypeOK
      <4> QED  BY <2>4, <4>1
    <3>3. OpenSucceeds(c) \/ ForwardEvent(c)
      BY <1>6, <3>1, <3>2 DEF Keeping
    <3> DEFINE q == events[session[c]]
    <3>4. /\ pc[c] \in {"opening", "active"} /\ routes' = routes /\ q # <<>>
          /\ Head(q) # "closed" /\ events' = [events EXCEPT ![session[c]] = Tail(@)]
      BY <3>3 DEF OpenSucceeds, ForwardEvent, NextIs
    <3>5. q \in Seq(Event) /\ events'[session[c]] = Tail(q)
      BY <1>1, <2>1, <3>4 DEF TypeOK
    <3>6. PICK i \in 1 .. Len(q) : q[i] = "closed"
      BY <1>1, <2>1, <2>4, <3>4 DEF HeardInv
    <3>7. \E j \in 1 .. Len(Tail(q)) : Tail(q)[j] = "closed"
      BY <3>4, <3>5, <3>6, ClosedBehind
    <3> QED  BY <2>1, <2>4, <3>5, <3>7
  <2> QED  BY <2>3, <2>4
<1>7. ASSUME NEW c \in Clients, NEW a \in Agents, NEW w \in Workspaces, OpenSession(c, a, w)
      PROVE  \E i \in 1 .. Len(events'[session'[d]]) : events'[session'[d]][i] = "closed"
  <2>1. /\ session' = [session EXCEPT ![c] = nextSid]
        /\ pc' = [pc EXCEPT ![c] = "reserved"] /\ routes' = routes
    BY <1>1, <1>7, OpenEffect
  <2>2. pc'[c] = "reserved" /\ \A x \in Clients \ {c} : pc'[x] = pc[x] /\ session'[x] = session[x]
    BY <1>1, <2>1 DEF TypeOK
  <2>3. d # c /\ events' = events
    BY <1>7, <2>2 DEF OpenSession
  <2> QED  BY <1>1, <2>1, <2>2, <2>3, HeardKept
<1>8. CASE \/ \E k \in Conns : AgentTasks(k) \/ LinkBreaks(k)
           \/ \E a \in Agents : AgentRegisters(a) \/ AgentCrashes(a)
           \/ \E s \in Sids : PtyEnds(s) \/ PtyOutput(s)
  <2>1. UNCHANGED <<pc, session, routes, events>>
    BY <1>8 DEF AgentTasks, AgentOpens, AgentRefuses, AgentCloses, LinkBreaks, AgentRegisters,
                AgentCrashes, PtyEnds, PtyOutput, clientVars
  <2> QED  BY <1>1, <2>1, HeardKept
<1>9. ASSUME NEW k \in Conns, AgentUnregisters(k)
      PROVE  \E i \in 1 .. Len(events'[session'[d]]) : events'[session'[d]][i] = "closed"
  <2> DEFINE lost == {x \in routes : home[x] = k}
             t == session[d]
  <2>1. UNCHANGED <<pc, session>> /\ routes' = routes \ lost /\ events' = Notified(lost)
    BY <1>9 DEF AgentUnregisters, clientVars
  <2>2. t \in Sids /\ events[t] \in Seq(Event)
    <3>1. t \in Sids
      BY <1>1, <2>1 DEF TypeOK
    <3> QED  BY <1>1, <3>1 DEF TypeOK
  <2>3. CASE t \notin routes
    <3>1. events'[t] = events[t]
      BY <2>1, <2>2, <2>3 DEF Notified
    <3> QED  BY <1>1, <2>1, <2>3, <3>1, HeardKept
  <2>4. CASE t \in routes
    <3>1. t \in lost
      BY <2>1, <2>4
    <3>2. events'[t] = Pushed(events[t], "closed")
      BY <2>1, <2>2, <3>1 DEF Notified
    <3>3. Len(events[t]) < QueueCap
      <4>1. RoomOf(t) /\ Routed(t)
        BY <1>1, <2>2, <2>4 DEF RoomInv, Routed
      <4>2. /\ Backlog(t) + Answers(t) + Orders(t) <= MaxBacklog + 4
            /\ Answers(t) \in {0, 1, 2} /\ Orders(t) \in Nat
        BY <1>1, <2>2, <4>1, AccountType DEF RoomOf
      <4>3. PICK m, n, x, y : m = Len(events[t]) /\ n = Len(toHub[t]) /\ x = Answers(t) /\ y = Orders(t)
        OBVIOUS
      <4>4. m \in Nat /\ n \in Nat
        <5>1. toHub[t] \in Seq(Event)
          BY <1>1, <2>2 DEF TypeOK
        <5> QED  BY <2>2, <4>3, <5>1, LengthsType
      <4>5. Backlog(t) = m + n
        BY <4>3 DEF Backlog
      <4>6. m + n + x + y <= MaxBacklog + 4
        BY <4>2, <4>3, <4>5
      <4>7. x \in Nat /\ y \in Nat
        BY <4>2, <4>3
      <4>8. m < QueueCap
        BY <4>4, <4>6, <4>7 DEF Room
      <4> QED  BY <4>3, <4>8
    <3>4. events'[t] = Append(events[t], "closed")
      BY <3>2, <3>3 DEF Pushed
    <3>5. PICK q : q = events[t]
      OBVIOUS
    <3>6. q \in Seq(Event) /\ "closed" \in Event
      BY <2>2, <3>5 DEF Event
    <3>7. Len(q) + 1 \in 1 .. Len(Append(q, "closed")) /\ Append(q, "closed")[Len(q) + 1] = "closed"
      <4>1. PICK n : n = Len(q)
        OBVIOUS
      <4>2. n \in Nat /\ Len(Append(q, "closed")) = n + 1 /\ Append(q, "closed")[n + 1] = "closed"
        BY <3>6, <4>1, AppendProperties, LenProperties
      <4>3. n + 1 \in 1 .. n + 1
        BY <4>2
      <4> QED  BY <4>1, <4>2, <4>3
    <3> QED  BY <2>1, <3>4, <3>5, <3>7
  <2> QED  BY <2>3, <2>4
<1>10. ASSUME NEW x \in Sids, HubReads(x)
       PROVE  \E i \in 1 .. Len(events'[session'[d]]) : events'[session'[d]][i] = "closed"
  <2>1. UNCHANGED <<pc, session, routes>>
    BY <1>10 DEF HubReads, clientVars
  <2>2. session[d] \in Sids
    BY <1>1, <2>1 DEF TypeOK
  <2>3. session[d] \notin routes
    BY <2>1
  <2>4. events'[session[d]] = events[session[d]]
    BY <1>1, <1>10, <2>2, <2>3 DEF HubReads, TypeOK
  <2> QED  BY <1>1, <2>1, <2>4, HeardKept
<1> QED
  <2>1. CASE Next
    <3>1. \/ \E c \in Clients : Idle(c) \/ Keeping(c) \/ Ending(c)
          \/ \E c \in Clients, a \in Agents, w \in Workspaces : OpenSession(c, a, w)
          \/ \E k \in Conns : LinkNext(k)
          \/ \E a \in Agents : AgentRegisters(a) \/ AgentCrashes(a)
          \/ \E s \in Sids : HubReads(s) \/ PtyEnds(s) \/ PtyOutput(s)
      BY <2>1, NextCases
    <3> QED  BY <3>1, <1>4, <1>5, <1>6, <1>7, <1>8, <1>9, <1>10 DEF LinkNext
  <2> QED  BY <1>3, <2>1

LEMMA InitHears == Init => HearInv
<1> SUFFICES ASSUME Init PROVE HearInv
  OBVIOUS
<1>1. IInv
  BY InitInv
<1>2. OpenInv
  BY DEF Init, OpenInv, OpenPending
<1>3. HeardInv
  BY DEF Init, HeardInv
<1>4. ASSUME NEW s \in Sids PROVE RoomOf(s)
  <2>1. Closes(s) = {}
    BY DEF Init, Closes
  <2>2. IsFiniteSet(Closes(s)) /\ Cardinality(Closes(s)) = 0
    BY <2>1, FS_EmptySet
  <2>3. Evictable(s) \in {0, 1} /\ Leaving(s) \in {0, 1} /\ Answers(s) \in {0, 1, 2}
    BY DEF Evictable, Leaving, Answers
  <2>4. Backlog(s) = 0
    BY DEF Init, Backlog
  <2>5. PICK e, l, a : e = Evictable(s) /\ l = Leaving(s) /\ a = Answers(s)
    OBVIOUS
  <2>6. 0 + e + l <= 2 /\ 0 + a + (0 + e + l) <= MaxBacklog + 4
    BY <2>3, <2>5
  <2> QED  BY <2>2, <2>4, <2>5, <2>6 DEF RoomOf, Orders
<1> QED  BY <1>1, <1>2, <1>3, <1>4 DEF HearInv, RoomInv

\* Where a session's channel has room for its own frames beside the output its
\* client is behind with, losing the agent always leaves the end of the session
\* in the queue of its client: AgentRegistry::unregister's try_send succeeds.
THEOREM NobodyIsDeaf == Room => (Spec => []NoDeafSession)
<1> SUFFICES ASSUME Room PROVE Spec => []NoDeafSession
  OBVIOUS
<1>1. HearInv /\ [Next]_vars => HearInv'
  BY InvStep, OpenStep, RoomStep, HeardStep DEF HearInv
<1>2. HearInv => NoDeafSession
  BY DEF HearInv, HeardInv, NoDeafSession
<1> QED  BY InitHears, <1>1, <1>2, PTL DEF Spec

-----------------------------------------------------------------------------
(* PtySession implements SessionLease *)

\* The phase of a session that has a client, from the handler of that client.
LEMMA PhaseOfOwner ==
  ASSUME IInv, NEW c \in Clients, session[c] # NoSid
  PROVE  /\ pc[c] \in {"reserved", "opening"} => SessionPhase(session[c]) = "opening"
         /\ pc[c] \in {"active", "closing"} => SessionPhase(session[c]) = "open"
BY DEF IInv, TypeOK, SessionInv, SessionPhase, Owner

\* A step of client c that hands out no session moves no other session's phase.
LEMMA PhaseFrame ==
  ASSUME IInv, NEW c \in Clients, nextSid' = nextSid,
         \A d \in Clients \ {c} : pc'[d] = pc[d] /\ session'[d] = session[d],
         session'[c] \in {session[c], NoSid},
         NEW t \in Sids, t # session[c]
  PROVE  SessionPhase(t)' = SessionPhase(t)
BY DEF SessionPhase, Owner

LEMMA LeaseUnmoved ==
  ASSUME UNCHANGED <<nextSid, home, ws, workspaces>>,
         \A t \in Sids : SessionPhase(t)' = SessionPhase(t)
  PROVE  UNCHANGED Lease!leaseVars
BY DEF Lease!leaseVars, HomeKey

LEMMA LeaseKeeping ==
  ASSUME IInv, IInv', NEW c \in Clients, Keeping(c)
  PROVE  [Lease!LeaseNext]_(Lease!leaseVars)
<1>0. PICK s \in Sids : s = session[c]
  BY KeepingEffect
<1>1. /\ s = session[c] /\ UNCHANGED <<session, nextSid, home, ws, workspaces>>
      /\ \A d \in Clients \ {c} : pc'[d] = pc[d]
      /\ pc[c] \in {"reserved", "opening", "active"}
      /\ pc[c] = "reserved" => pc'[c] = "opening"
      /\ pc[c] = "opening" => pc'[c] = "active"
      /\ pc[c] = "active" => pc'[c] \in {"active", "closing"}
  BY <1>0, KeepingEffect DEF openVars
<1>2. \A t \in Sids \ {s} : SessionPhase(t)' = SessionPhase(t)
  BY <1>1, PhaseFrame
<1>3. /\ pc[c] \in {"reserved", "opening"} => SessionPhase(s) = "opening"
      /\ pc[c] \in {"active", "closing"} => SessionPhase(s) = "open"
  BY <1>1, PhaseOfOwner
<1>4. /\ pc'[c] \in {"reserved", "opening"} => SessionPhase(s)' = "opening"
      /\ pc'[c] \in {"active", "closing"} => SessionPhase(s)' = "open"
  <2>1. s < nextSid /\ s # NoSid
    BY <1>1 DEF IInv, SessionInv
  <2>2. \A d \in Clients \ {c} : session'[d] # s
    BY <1>1, <2>1 DEF IInv, SessionInv
  <2>3. nextSid' \in Nat /\ ~ (s >= nextSid')
    BY <1>1, <2>1 DEF IInv, TypeOK
  <2>4. \A P : Owner(s, P)' <=> pc'[c] \in P
    BY <1>1, <2>2 DEF Owner
  <2> QED BY <2>3, <2>4 DEF SessionPhase
<1>5. CASE pc[c] = "opening"
  <2>1. SessionPhase(s) = "opening" /\ SessionPhase(s)' = "open"
    BY <1>1, <1>3, <1>4, <1>5
  <2>2. [t \in Sids |-> SessionPhase(t)']
          = [[t \in Sids |-> SessionPhase(t)] EXCEPT ![s] = "open"]
    BY <1>1, <1>2, <2>1
  <2>3. Lease!Opened(s)
    BY <1>1, <2>1, <2>2 DEF Lease!Opened, HomeKey
  <2> QED BY <1>1, <2>3 DEF Lease!LeaseNext
<1>6. CASE pc[c] # "opening"
  <2>1. SessionPhase(s)' = SessionPhase(s)
    BY <1>1, <1>3, <1>4, <1>6
  <2> QED BY <1>1, <1>2, <2>1, LeaseUnmoved
<1> QED BY <1>5, <1>6

LEMMA LeaseEnding ==
  ASSUME IInv, NEW c \in Clients, Ending(c)
  PROVE  Lease!LeaseNext
<1>0. PICK s \in Sids : s = session[c]
  BY EndingEffect
<1>1. /\ s = session[c] /\ UNCHANGED <<nextSid, home, ws>>
      /\ pc[c] \in {"reserved", "opening", "active", "closing"}
      /\ session' = [session EXCEPT ![c] = NoSid]
      /\ pc' \in {[pc EXCEPT ![c] = "menu"], [pc EXCEPT ![c] = "gone"]}
      /\ workspaces' = [k \in Keys |-> IF workspaces[k] = s THEN NoSid
                                                         ELSE workspaces[k]]
  BY <1>0, EndingEffect DEF openVars
<1>2. /\ session'[c] = NoSid
      /\ \A d \in Clients \ {c} : pc'[d] = pc[d] /\ session'[d] = session[d]
  BY <1>1 DEF IInv, TypeOK
<1>3. \A t \in Sids \ {s} : SessionPhase(t)' = SessionPhase(t)
  BY <1>1, <1>2, PhaseFrame
<1>4. SessionPhase(s) \in {"opening", "open"}
  BY <1>1, PhaseOfOwner
<1>5. SessionPhase(s)' = "ended"
  <2>1. s < nextSid /\ s # NoSid
    BY <1>1 DEF IInv, SessionInv
  <2>2. \A d \in Clients : session'[d] # s
    BY <1>1, <1>2, <2>1 DEF IInv, SessionInv
  <2>3. nextSid' \in Nat /\ ~ (s >= nextSid')
    BY <1>1, <2>1 DEF IInv, TypeOK
  <2>4. \A P : ~ Owner(s, P)'
    BY <2>2 DEF Owner
  <2> QED BY <2>3, <2>4 DEF SessionPhase
<1>6. [t \in Sids |-> SessionPhase(t)']
        = [[t \in Sids |-> SessionPhase(t)] EXCEPT ![s] = "ended"]
  BY <1>1, <1>3, <1>5
<1>7. Lease!Ended(s)
  BY <1>1, <1>4, <1>6 DEF Lease!Ended, HomeKey
<1> QED BY <1>1, <1>7 DEF Lease!LeaseNext

LEMMA LeaseOpen ==
  ASSUME IInv, NEW c \in Clients, NEW a \in Agents, NEW w \in Workspaces,
         OpenSession(c, a, w)
  PROVE  Lease!LeaseNext
<1> DEFINE key == <<a, w>>
           k   == <<a, registry[a]>>
<1>0. /\ nextSid \in Sids /\ nextSid' = nextSid + 1
      /\ session[c] = NoSid /\ session' = [session EXCEPT ![c] = nextSid]
      /\ pc' = [pc EXCEPT ![c] = "reserved"]
      /\ k \in Conns
      /\ selected' = [selected EXCEPT ![c] = k]
      /\ home' = [home EXCEPT ![nextSid] = k]
      /\ ws' = [ws EXCEPT ![nextSid] = w]
      /\ key \in Keys
      /\ workspaces' = [workspaces EXCEPT ![key] = nextSid]
      /\ UNCHANGED routes
  BY OpenEffect
<1>s. PICK s \in Sids : s = nextSid
  BY <1>0
<1>1. s = nextSid /\ nextSid' = nextSid + 1 /\ key \in Keys
  BY <1>0, <1>s
<1>2. /\ session'[c] = s /\ pc'[c] = "reserved"
      /\ \A d \in Clients \ {c} : pc'[d] = pc[d] /\ session'[d] = session[d]
  BY <1>0, <1>1 DEF IInv, TypeOK
<1>3. /\ home'[s] = <<a, registry[a]>> /\ ws'[s] = w
      /\ \A t \in Sids \ {s} : home'[t] = home[t] /\ ws'[t] = ws[t]
  BY <1>0, <1>1 DEF IInv, TypeOK
<1>4. SessionPhase(s) = "unused"
  BY <1>1 DEF SessionPhase
<1>5. SessionPhase(s)' = "opening"
  <2>1. Owner(s, {"reserved", "opening"})'
    BY <1>2 DEF Owner
  <2>2. ~ (s >= nextSid')
    BY <1>1
  <2> QED BY <2>1, <2>2 DEF SessionPhase
<1>6. \A t \in Sids \ {s} : SessionPhase(t)' = SessionPhase(t)
  <2> SUFFICES ASSUME NEW t \in Sids \ {s} PROVE SessionPhase(t)' = SessionPhase(t)
    OBVIOUS
  <2>1. t >= nextSid' <=> t >= nextSid
    BY <1>1
  <2> QED BY <1>0, <1>1, <1>2, <2>1 DEF SessionPhase, Owner
<1>7. [t \in Sids |-> SessionPhase(t)']
        = [[t \in Sids |-> SessionPhase(t)] EXCEPT ![s] = "opening"]
  BY <1>1, <1>5, <1>6
<1>8. [t \in Sids |-> IF t < nextSid' THEN <<home'[t][1], ws'[t]>> ELSE NoConn]
        = [[t \in Sids |-> IF t < nextSid THEN <<home[t][1], ws[t]>> ELSE NoConn]
             EXCEPT ![s] = key]
  <2>1. s < nextSid' /\ \A t \in Sids \ {s} : t < nextSid' <=> t < nextSid
    BY <1>1
  <2>2. <<home'[s][1], ws'[s]>> = key
    BY <1>3
  <2> QED BY <1>3, <2>1, <2>2
<1>9. Lease!Claim(s, key)
  BY <1>0, <1>1, <1>4, <1>7, <1>8 DEF Lease!Claim, HomeKey
<1> QED BY <1>1, <1>9 DEF Lease!LeaseNext

LEMMA LeaseStep == IInv /\ IInv' /\ [Next]_vars => [Lease!LeaseNext]_(Lease!leaseVars)
<1> SUFFICES ASSUME IInv, IInv', [Next]_vars
             PROVE  [Lease!LeaseNext]_(Lease!leaseVars)
  OBVIOUS
<1>1. ASSUME UNCHANGED <<clientVars, openVars, workspaces>>
      PROVE  UNCHANGED Lease!leaseVars
  <2>1. UNCHANGED <<pc, session, nextSid, home, ws, workspaces>>
    BY <1>1 DEF clientVars, openVars
  <2>2. \A t \in Sids : SessionPhase(t)' = SessionPhase(t)
    BY <2>1 DEF SessionPhase, Owner
  <2> QED BY <2>1, <2>2, LeaseUnmoved
<1>2. ASSUME NEW c \in Clients, Idle(c) PROVE UNCHANGED Lease!leaseVars
  <2>1. /\ session[c] = NoSid
        /\ UNCHANGED <<session, nextSid, home, ws, workspaces>>
        /\ \A d \in Clients \ {c} : pc'[d] = pc[d]
    BY <1>2, IdleEffect DEF IInv, openVars
  <2>2. \A t \in Sids : SessionPhase(t)' = SessionPhase(t)
    BY <2>1, PhaseFrame
  <2> QED BY <2>1, <2>2, LeaseUnmoved
<1>3. CASE UNCHANGED vars
  BY <1>1, <1>3 DEF vars
<1>4. CASE Next
  <2>1. ASSUME \/ \E k \in Conns : LinkNext(k)
               \/ \E a \in Agents : AgentRegisters(a) \/ AgentCrashes(a)
               \/ \E s \in Sids : HubReads(s) \/ PtyEnds(s) \/ PtyOutput(s)
        PROVE  UNCHANGED Lease!leaseVars
    BY <1>1, <2>1, LinkStep DEF IInv
  <2> QED BY <1>2, <1>4, <2>1, NextCases, LeaseKeeping, LeaseEnding, LeaseOpen
<1> QED BY <1>3, <1>4

\* The hub's table of workspaces in use is the lease SessionLease describes.
THEOREM LeaseImplemented == Spec => ImplementsLease
<1>1. Init => Lease!LeaseInit
  BY DEF Init, Lease!LeaseInit, SessionPhase
<1>2. Lease!LeaseInit /\ [][Lease!LeaseNext]_(Lease!leaseVars) => ImplementsLease
  BY PTL DEF ImplementsLease, Lease!LeaseSpec
<1> QED BY <1>1, <1>2, Invariance, LeaseStep, PTL DEF Spec
=============================================================================
