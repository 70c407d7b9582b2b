------------------------ MODULE WorkspaceOps_proofs ------------------------
(* Proofs about WorkspaceOps: type correctness, that a live tool's token is *)
(* the one the next open finds, that requests implement AgentRequest, and   *)
(* that the catalog agrees with the agent's directories once nobody works   *)
(* on a workspace.                                                          *)
EXTENDS WorkspaceOps, TLAPS

USE BoundsAssumption

\* A handler's start and end keep the types of what the hub keeps of it.
LEMMA BeginType ==
  ASSUME TypeOK, NEW c \in Clients, NEW op \in Ops, NEW w \in Workspaces,
         NEW at \in {"looked", "bound", "checked", "dropping"},
         Begin(c, op, w, at)
  PROVE  /\ stage' \in [Clients ->
              {"menu", "looked", "bound", "checked", "dropping", "waiting"}]
         /\ current' \in [Clients -> 0 .. MaxReq]
         /\ nextReq' \in 1 .. MaxReq + 1
         /\ req' \in [1 .. nextReq' - 1 -> Request]
         /\ \A d \in Clients : stage'[d] = "menu" <=> current'[d] = 0
         /\ \A d \in Clients : current'[d] < nextReq'
<1> DEFINE new == [op |-> op, ws |-> w, link |-> link, step |-> "hub",
             outcome |-> "no", answer |-> "no",
             told |-> IF op \in {"drop", "open"} THEN "none" ELSE "pending"]
<1>1. nextReq' = nextReq + 1 /\ nextReq \in 1 .. MaxReq /\ nextReq \in Nat
  BY DEF Begin, TypeOK
<1>2. new \in Request
  BY DEF Request, TypeOK
<1>3. req' = [i \in 1 .. nextReq |-> IF i < nextReq THEN req[i] ELSE new]
  BY DEF Begin
<1>4. \A i \in 1 .. nextReq : i < nextReq => req[i] \in Request
  BY <1>1 DEF TypeOK
<1>5. req' \in [1 .. nextReq -> Request]
  <2> HIDE DEF new
  <2> QED BY <1>2, <1>3, <1>4
<1>6. nextReq' - 1 = nextReq
  BY <1>1
<1>7. current' = [current EXCEPT ![c] = nextReq]
      /\ stage' = [stage EXCEPT ![c] = at]
  BY DEF Begin
<1>8. /\ stage' \in [Clients ->
              {"menu", "looked", "bound", "checked", "dropping", "waiting"}]
      /\ current' \in [Clients -> 0 .. MaxReq]
  BY <1>1, <1>7 DEF TypeOK
<1>9. \A d \in Clients : /\ stage'[d] = "menu" <=> current'[d] = 0
                         /\ current'[d] < nextReq'
  BY <1>1, <1>7 DEF TypeOK
<1> QED BY <1>1, <1>5, <1>6, <1>8, <1>9

LEMMA FinishType ==
  ASSUME TypeOK, NEW c \in Clients, stage[c] # "menu",
         NEW v \in {"none", "pending", "ok", "error", "refused", "unknown"},
         Finish(c, v), UNCHANGED nextReq
  PROVE  /\ stage' \in [Clients ->
              {"menu", "looked", "bound", "checked", "dropping", "waiting"}]
         /\ current' \in [Clients -> 0 .. MaxReq]
         /\ req' \in [1 .. nextReq' - 1 -> Request]
         /\ \A d \in Clients : stage'[d] = "menu" <=> current'[d] = 0
         /\ \A d \in Clients : current'[d] < nextReq'
<1>1. current[c] \in 1 .. nextReq - 1 /\ nextReq \in Nat
  BY DEF TypeOK
<1>2. req' \in [1 .. nextReq - 1 -> Request]
  <2>1. req[current[c]] \in Request
    BY <1>1 DEF TypeOK
  <2>2. [req[current[c]] EXCEPT !.told = v, !.answer = "no"] \in Request
    BY <2>1 DEF Request
  <2> QED BY <1>1, <2>2 DEF Finish, TypeOK
<1>3. current' = [current EXCEPT ![c] = 0] /\ stage' = [stage EXCEPT ![c] = "menu"]
  BY DEF Finish
<1>4. \A d \in Clients : /\ stage'[d] = "menu" <=> current'[d] = 0
                         /\ current'[d] < nextReq'
  BY <1>1, <1>3 DEF TypeOK
<1> QED BY <1>2, <1>3, <1>4 DEF TypeOK

\* The record a handler works on exists.
LEMMA CurrentIsRequest ==
  ASSUME TypeOK, NEW c \in Clients, stage[c] # "menu"
  PROVE  current[c] \in DOMAIN req /\ Current(c) \in Request
BY DEF TypeOK, Current

\* Replacing one request by another keeps their type.
LEMMA UpdateType ==
  ASSUME TypeOK, NEW i \in DOMAIN req, NEW r \in Request,
         req' = [req EXCEPT ![i] = r]
  PROVE  req' \in [1 .. nextReq - 1 -> Request]
BY DEF TypeOK

\* The records an action puts in the place of a request are requests.
LEMMA StepType ==
  ASSUME TypeOK, NEW i \in DOMAIN req
  PROVE  /\ \A s \in {"sent", "killed", "retired", "gone"} :
              [req[i] EXCEPT !.step = s] \in Request
         /\ [req[i] EXCEPT !.step = "sent", !.link = link] \in Request
         /\ \A o \in {"ok", "error"} :
              [req[i] EXCEPT !.step = "done", !.outcome = o] \in Request
         /\ [req[i] EXCEPT !.step = "gone", !.answer = Delivered(i)] \in Request
<1>1. req[i] \in Request /\ link \in 0 .. MaxLink
  BY DEF TypeOK
<1>2. Delivered(i) \in {"no", "ok", "error"}
  BY <1>1 DEF Delivered, Request
<1> QED BY <1>1, <1>2 DEF Request

LEMMA TypeInit == Init => TypeOK
<1> SUFFICES ASSUME Init PROVE TypeOK
  OBVIOUS
<1>1. req \in [1 .. nextReq - 1 -> Request]
  <2>1. DOMAIN req = {} /\ 1 .. nextReq - 1 = {}
    BY DEF Init
  <2>2. req = [i \in 1 .. 0 |-> req[i]]
    BY DEF Init
  <2> QED BY <2>1, <2>2 DEF Init
<1>2. /\ tmux \in [Workspaces -> Nat] /\ tokenOf \in [Workspaces -> Nat]
      /\ saved \in [Workspaces -> Nat] /\ nextToken \in Tokens
  BY DEF Init, NoToken, Tokens
<1>3. nextReq \in 1 .. MaxReq + 1 /\ link \in 0 .. MaxLink
  BY DEF Init
<1>4. /\ bindings \subseteq Workspaces /\ dirs \subseteq Workspaces
      /\ holder \in [Workspaces -> Clients \cup {None}]
      /\ online \in BOOLEAN
      /\ doubt \subseteq Workspaces /\ raced \subseteq Workspaces
  BY DEF Init
<1>5. /\ stage \in [Clients ->
            {"menu", "looked", "bound", "checked", "dropping", "waiting"}]
      /\ current \in [Clients -> 0 .. MaxReq]
      /\ \A c \in Clients : stage[c] = "menu" <=> current[c] = 0
      /\ \A c \in Clients : current[c] < nextReq
  BY DEF Init
<1> QED BY <1>1, <1>2, <1>3, <1>4, <1>5 DEF TypeOK

\* Type correctness is inductive: one case per action.
LEMMA TypeStep == TypeOK /\ [Next]_vars => TypeOK'
<1> SUFFICES ASSUME TypeOK, [Next]_vars PROVE TypeOK'
  OBVIOUS
<1> USE DEF hubVars, linkVars, tokenVars, ghostVars
<1>0. CASE UNCHANGED vars
  BY <1>0 DEF TypeOK, vars
<1>1. ASSUME NEW c \in Clients, NEW w \in Workspaces, CreateWorkspace(c, w)
      PROVE  TypeOK'
  <2>1. Begin(c, "create", w, "bound")
    BY <1>1 DEF CreateWorkspace
  <2> QED BY <1>1, <2>1, BeginType DEF CreateWorkspace, TypeOK, Ops
<1>2. ASSUME NEW c \in Clients, NEW w \in Workspaces,
             NEW op \in {"delete", "reset"}, CheckOp(c, op, w)
      PROVE  TypeOK'
  <2>1. Begin(c, op, w, "checked") /\ op \in Ops
    BY <1>2 DEF CheckOp, Ops
  <2> QED BY <1>2, <2>1, BeginType DEF CheckOp, TypeOK
<1>3. ASSUME NEW c \in Clients, NEW w \in Workspaces,
             CheckOfflineDelete(c, w)
      PROVE  TypeOK'
  <2>1. Begin(c, "drop", w, "dropping")
    BY <1>3 DEF CheckOfflineDelete
  <2> QED BY <1>3, <2>1, BeginType DEF CheckOfflineDelete, TypeOK, Ops
<1>18. ASSUME NEW c \in Clients, NEW w \in Workspaces, AdminDelete(c, w)
       PROVE  TypeOK'
  <2>1. \/ Begin(c, "delete", w, "checked")
        \/ Begin(c, "drop", w, "dropping")
    BY <1>18 DEF AdminDelete
  <2> QED BY <1>18, <2>1, BeginType DEF AdminDelete, TypeOK, Ops
<1>4. ASSUME NEW c \in Clients, NEW w \in Workspaces, LookForOpen(c, w)
      PROVE  TypeOK'
  <2>1. Begin(c, "open", w, "looked")
    BY <1>4 DEF LookForOpen
  <2> QED BY <1>4, <2>1, BeginType DEF LookForOpen, TypeOK, Ops
<1>5. ASSUME NEW c \in Clients, NEW w \in Workspaces, LeaveSession(c, w)
      PROVE  TypeOK'
  BY <1>5 DEF LeaveSession, TypeOK
<1>6. ASSUME NEW c \in Clients, DropBinding(c)
      PROVE  TypeOK'
  <2>1. stage[c] # "menu" /\ Finish(c, "none") /\ UNCHANGED nextReq
    BY <1>6 DEF DropBinding
  <2>2. Current(c).ws \in Workspaces
    BY <2>1, CurrentIsRequest DEF Request
  <2> QED BY <1>6, <2>1, <2>2, FinishType DEF DropBinding, TypeOK
<1>7. ASSUME NEW c \in Clients, SendRequest(c)
      PROVE  TypeOK'
  <2>1. stage[c] # "menu" /\ current[c] \in DOMAIN req
    BY <1>7, CurrentIsRequest DEF SendRequest
  <2>2. req' \in [1 .. nextReq - 1 -> Request]
    BY <1>7, <2>1, StepType, UpdateType DEF SendRequest
  <2> QED BY <1>7, <2>1, <2>2 DEF SendRequest, TypeOK
<1>8. ASSUME NEW c \in Clients, SendFails(c)
      PROVE  TypeOK'
  <2>1. stage[c] # "menu" /\ Finish(c, "refused") /\ UNCHANGED nextReq
    BY <1>8 DEF SendFails
  <2>2. bindings' \subseteq Workspaces
    BY <1>8 DEF SendFails, RolledBack, TypeOK
  <2> QED BY <1>8, <2>1, <2>2, FinishType DEF SendFails, TypeOK
<1>9. ASSUME NEW c \in Clients, Answered(c)
      PROVE  TypeOK'
  <2>1. /\ stage[c] # "menu" /\ UNCHANGED nextReq
        /\ Finish(c, Current(c).answer)
    BY <1>9 DEF Answered
  <2>2. Current(c).answer \in {"ok", "error"}
    BY <1>9, <2>1, CurrentIsRequest DEF Answered, Request
  <2>3. bindings' \subseteq Workspaces
    BY <1>9 DEF Answered, RolledBack, TypeOK
  <2> QED BY <1>9, <2>1, <2>2, <2>3, FinishType DEF Answered, TypeOK
<1>10. ASSUME NEW c \in Clients, GivenUp(c)
       PROVE  TypeOK'
  <2>1. stage[c] # "menu" /\ Finish(c, "unknown") /\ UNCHANGED nextReq
    BY <1>10 DEF GivenUp
  <2>2. bindings' \subseteq Workspaces
    BY <1>10 DEF GivenUp, RolledBack, TypeOK
  <2>3. doubt' \subseteq Workspaces
    BY <1>10, <2>1, CurrentIsRequest DEF GivenUp, TypeOK, Request
  <2> QED BY <1>10, <2>1, <2>2, <2>3, FinishType DEF GivenUp, TypeOK
<1>11. ASSUME NEW c \in Clients, OpenSession(c)
       PROVE  TypeOK'
  <2>1. stage[c] # "menu" /\ current[c] \in DOMAIN req
    BY <1>11, CurrentIsRequest DEF OpenSession
  <2>2. req' \in [1 .. nextReq - 1 -> Request]
    BY <1>11, <2>1, StepType, UpdateType DEF OpenSession
  <2>3. /\ stage' \in [Clients ->
              {"menu", "looked", "bound", "checked", "dropping", "waiting"}]
        /\ current' \in [Clients -> 0 .. MaxReq]
        /\ \A d \in Clients : stage'[d] = "menu" <=> current'[d] = 0
        /\ \A d \in Clients : current'[d] < nextReq'
    BY <1>11 DEF OpenSession, TypeOK
  <2>4. holder' \in [Workspaces -> Clients \cup {None}]
    BY <1>11 DEF OpenSession, TypeOK
  <2> QED BY <1>11, <2>2, <2>3, <2>4 DEF OpenSession, TypeOK
<1>12. ASSUME NEW c \in Clients, OpenRefused(c)
       PROVE  TypeOK'
  <2>1. stage[c] # "menu" /\ Finish(c, "none") /\ UNCHANGED nextReq
    BY <1>12 DEF OpenRefused
  <2> QED BY <1>12, <2>1, FinishType DEF OpenRefused, TypeOK
<1>13. CASE LinkBreaks
  <2>1. PICK lost \in SUBSET {i \in DOMAIN req : req[i].step = "sent"} :
          req' = [i \in DOMAIN req |-> IF i \in lost
                    THEN [req[i] EXCEPT !.step = "gone"] ELSE req[i]]
    BY <1>13 DEF LinkBreaks
  <2>2. req' \in [1 .. nextReq - 1 -> Request]
    BY <2>1, StepType DEF TypeOK
  <2> QED BY <1>13, <2>2 DEF LinkBreaks, TypeOK
<1>14. CASE AgentCrashes
  <2>1. req' \in [1 .. nextReq - 1 -> Request]
    BY <1>14, StepType DEF AgentCrashes, TypeOK
  <2>2. tokenOf' \in [Workspaces -> Nat]
    BY <1>14 DEF AgentCrashes, NoToken
  <2> QED BY <1>14, <2>1, <2>2 DEF AgentCrashes, TypeOK
<1>15. CASE AgentHello
  BY <1>15 DEF AgentHello, TypeOK
<1>16. ASSUME NEW w \in Workspaces, ToolEnds(w)
       PROVE  TypeOK'
  BY <1>16 DEF ToolEnds, TypeOK, NoToken
<1>17. ASSUME NEW i \in DOMAIN req, AgentStep(i)
       PROVE  TypeOK'
  <2>0. req[i] \in Request /\ req[i].ws \in Workspaces /\ NoToken \in Nat
    BY DEF TypeOK, Request, NoToken
  <2>1. CASE AgentCreates(i)
    <3>1. req' \in [1 .. nextReq - 1 -> Request]
      BY <2>1, StepType, UpdateType DEF AgentCreates, Done
    <3> QED BY <2>0, <2>1, <3>1 DEF AgentCreates, TypeOK
  <2>2. CASE AgentFindsNone(i)
    <3>1. req' \in [1 .. nextReq - 1 -> Request]
      BY <2>2, StepType, UpdateType DEF AgentFindsNone, Done
    <3> QED BY <2>2, <3>1 DEF AgentFindsNone, TypeOK
  <2>3. CASE AgentKills(i)
    <3>1. req' \in [1 .. nextReq - 1 -> Request]
      BY <2>3, StepType, UpdateType DEF AgentKills
    <3> QED BY <2>0, <2>3, <3>1 DEF AgentKills, TypeOK
  <2>4. CASE AgentRetires(i)
    <3>1. req' \in [1 .. nextReq - 1 -> Request]
      BY <2>4, StepType, UpdateType DEF AgentRetires, Done
    <3>2. tokenOf' \in [Workspaces -> Nat]
      BY <2>0, <2>4 DEF AgentRetires, TypeOK
    <3> QED BY <2>4, <3>1, <3>2 DEF AgentRetires, TypeOK
  <2>5. CASE AgentRemoves(i)
    <3>1. req' \in [1 .. nextReq - 1 -> Request]
      BY <2>5, StepType, UpdateType DEF AgentRemoves, Done
    <3> QED BY <2>0, <2>5, <3>1 DEF AgentRemoves, TypeOK
  <2>6. CASE AgentReplies(i)
    <3>1. req' \in [1 .. nextReq - 1 -> Request]
      BY <2>6, StepType, UpdateType DEF AgentReplies
    <3> QED BY <2>6, <3>1 DEF AgentReplies, TypeOK
  <2>7. CASE AgentOpens(i)
    <3>1. req' \in [1 .. nextReq - 1 -> Request]
      BY <2>7, StepType, UpdateType DEF AgentOpens
    <3>2. Remembered(req[i].ws) \in Nat /\ nextToken \in Nat
      BY <2>0 DEF Remembered, TypeOK, Tokens
    <3>3. PICK tok \in Nat :
            /\ tokenOf' = [tokenOf EXCEPT ![req[i].ws] = tok]
            /\ saved' = [saved EXCEPT ![req[i].ws] = tok]
            /\ tmux' = [tmux EXCEPT ![req[i].ws] = IF @ = NoToken THEN tok ELSE @]
      BY <2>7, <3>2 DEF AgentOpens
    <3>4. /\ tokenOf' \in [Workspaces -> Nat] /\ saved' \in [Workspaces -> Nat]
          /\ tmux' \in [Workspaces -> Nat]
      BY <3>3 DEF TypeOK
    <3>5. nextToken' \in Tokens
      BY <2>7 DEF AgentOpens, TypeOK, Tokens, NoToken
    <3> QED BY <2>0, <2>7, <3>1, <3>4, <3>5 DEF AgentOpens, TypeOK
  <2> QED BY <1>17, <2>1, <2>2, <2>3, <2>4, <2>5, <2>6, <2>7 DEF AgentStep
<1> QED
  BY <1>0, <1>1, <1>2, <1>3, <1>4, <1>5, <1>6, <1>7, <1>8, <1>9, <1>10, <1>11,
     <1>12, <1>13, <1>14, <1>15, <1>16, <1>17, <1>18
  DEF Next, HubStep, ClientStep

\* Every behaviour is type correct.
THEOREM TypeCorrect == Spec => []TypeOK
<1>1. Init => TypeOK
  BY TypeInit
<1>2. TypeOK /\ [Next]_vars => TypeOK'
  BY TypeStep
<1> QED BY <1>1, <1>2, PTL DEF Spec

-----------------------------------------------------------------------------
(* Tokens *)

LEMMA TokenStep == TypeOK /\ TokenInv /\ [Next]_vars => TokenInv'
<1> SUFFICES ASSUME TypeOK, TokenInv, [Next]_vars,
                    NEW w \in Workspaces, w \notin raced'
             PROVE  /\ tokenOf'[w] # NoToken => saved'[w] = tokenOf'[w]
                    /\ tmux'[w] # NoToken => saved'[w] = tmux'[w]
  BY DEF TokenInv
<1> DEFINE Tools == <<tmux, tokenOf, saved, raced>>
<1>0. ASSUME UNCHANGED Tools
      PROVE  /\ tokenOf'[w] # NoToken => saved'[w] = tokenOf'[w]
             /\ tmux'[w] # NoToken => saved'[w] = tmux'[w]
  BY <1>0 DEF TokenInv
<1>1. CASE UNCHANGED vars
  BY <1>0, <1>1 DEF vars, tokenVars, ghostVars
<1>2. ASSUME NEW c \in Clients, HubStep(c) \/ ClientStep(c)
      PROVE  UNCHANGED Tools
  BY <1>2 DEF HubStep, ClientStep, SendRequest, SendFails, Answered, GivenUp,
     DropBinding, OpenSession, OpenRefused, CreateWorkspace,
     CheckOfflineDelete, AdminDelete, CheckOp, LookForOpen, LeaveSession,
     tokenVars,
     ghostVars
<1>3. CASE LinkBreaks \/ AgentHello
  BY <1>0, <1>3 DEF LinkBreaks, AgentHello, tokenVars, ghostVars
<1>4. CASE AgentCrashes
  BY <1>4 DEF AgentCrashes, TokenInv, ghostVars
<1>5. ASSUME NEW v \in Workspaces, ToolEnds(v)
      PROVE  /\ tokenOf'[w] # NoToken => saved'[w] = tokenOf'[w]
             /\ tmux'[w] # NoToken => saved'[w] = tmux'[w]
  BY <1>5 DEF ToolEnds, TokenInv, TypeOK, ghostVars
<1>6. ASSUME NEW i \in DOMAIN req, AgentStep(i)
      PROVE  /\ tokenOf'[w] # NoToken => saved'[w] = tokenOf'[w]
             /\ tmux'[w] # NoToken => saved'[w] = tmux'[w]
  <2>0. req[i].ws \in Workspaces
    BY DEF TypeOK, Request
  <2>1. CASE AgentCreates(i) \/ AgentFindsNone(i) \/ AgentReplies(i)
    BY <1>0, <2>1 DEF AgentCreates, AgentFindsNone, AgentReplies, tokenVars,
       ghostVars
  <2>2. CASE AgentKills(i)
    BY <2>0, <2>2 DEF AgentKills, TokenInv, TypeOK, ghostVars
  <2>3. CASE AgentRetires(i)
    BY <2>0, <2>3 DEF AgentRetires, TokenInv, TypeOK
  <2>4. CASE AgentRemoves(i)
    \* Removing the directory while the token is known puts w in raced'.
    BY <2>0, <2>4 DEF AgentRemoves, TokenInv, TypeOK
  <2>5. CASE AgentOpens(i)
    <3>1. w \notin raced
      BY <2>5 DEF AgentOpens
    <3>2. CASE w # req[i].ws
      BY <2>0, <2>5, <3>1, <3>2 DEF AgentOpens, TokenInv, TypeOK
    <3>3. CASE w = req[i].ws
      <4>1. PICK tok :
              /\ tok = IF Remembered(w) # NoToken THEN Remembered(w)
                                                  ELSE nextToken
              /\ tokenOf' = [tokenOf EXCEPT ![w] = tok]
              /\ saved' = [saved EXCEPT ![w] = tok]
              /\ tmux' = [tmux EXCEPT ![w] = IF @ = NoToken THEN tok ELSE @]
        BY <2>5, <3>3 DEF AgentOpens
      <4>2. tokenOf'[w] = tok /\ saved'[w] = tok
            /\ tmux'[w] = IF tmux[w] = NoToken THEN tok ELSE tmux[w]
        BY <4>1 DEF TypeOK
      <4>3. tmux[w] # NoToken => tok = tmux[w]
        BY <3>1, <4>1 DEF TokenInv, Remembered
      <4> QED BY <4>2, <4>3
    <3> QED BY <3>2, <3>3
  <2> QED BY <1>6, <2>1, <2>2, <2>3, <2>4, <2>5 DEF AgentStep
<1> QED BY <1>0, <1>1, <1>2, <1>3, <1>4, <1>5, <1>6 DEF Next

\* The tool alive in a workspace's tmux holds the token the next open finds,
\* whatever requests, opens, restarts and lost links happened, unless its
\* directory was removed under it.
THEOREM LiveToolStaysReachable == Spec => []LiveToolReachable
<1>1. Init => TokenInv
  BY DEF Init, TokenInv
<1>2. TypeOK /\ TokenInv /\ [Next]_vars => TokenInv'
  BY TokenStep
<1>3. TokenInv => LiveToolReachable
  BY DEF TokenInv, LiveToolReachable, Remembered
<1>4. Spec => []TypeOK
  BY TypeCorrect
<1> QED BY <1>1, <1>2, <1>3, <1>4, PTL DEF Spec

-----------------------------------------------------------------------------
(* Requests *)

\* A handler's start adds a fresh request.
LEMMA BeginRequests ==
  ASSUME TypeOK, RequestInv, NEW c \in Clients, NEW op \in Ops,
         NEW w \in Workspaces,
         NEW at \in {"looked", "bound", "checked", "dropping"},
         Begin(c, op, w, at),
         at \in {"bound", "checked"} => op \notin {"drop", "open"},
         at = "dropping" => op = "drop", at = "looked" => op = "open"
  PROVE  RequestInv'
<1>1. nextReq \in Nat \ {0} /\ DOMAIN req = 1 .. nextReq - 1
  BY DEF TypeOK
<1>2. /\ DOMAIN req' = 1 .. nextReq
      /\ \A i \in 1 .. nextReq - 1 : req'[i] = req[i]
  BY <1>1 DEF Begin
<1>3. /\ req'[nextReq].step = "hub" /\ req'[nextReq].op = op
      /\ req'[nextReq].outcome = "no" /\ req'[nextReq].answer = "no"
      /\ req'[nextReq].told = IF op \in {"drop", "open"} THEN "none"
                              ELSE "pending"
  <2>1. req'[nextReq] =
          [op |-> op, ws |-> w, link |-> link, step |-> "hub",
           outcome |-> "no", answer |-> "no",
           told |-> IF op \in {"drop", "open"} THEN "none" ELSE "pending"]
    BY <1>1 DEF Begin
  <2> QED BY <2>1
<1>4. \A i \in DOMAIN req' : RequestOK(req'[i])
  <2>1. RequestOK(req'[nextReq])
    BY <1>3 DEF RequestOK
  <2>2. \A i \in 1 .. nextReq - 1 : RequestOK(req'[i])
    BY <1>1, <1>2 DEF RequestInv
  <2> QED BY <1>1, <1>2, <2>1, <2>2
<1>5. /\ \A d \in Clients : d # c => stage'[d] = stage[d] /\ current'[d] = current[d]
      /\ stage'[c] = at /\ current'[c] = nextReq
  BY DEF Begin, TypeOK
<1>6. ASSUME NEW d \in Clients
      PROVE  HandlerOK(d)'
  <2>1. CASE d = c
    BY <1>3, <1>5, <2>1 DEF HandlerOK, Current
  <2>2. CASE d # c /\ stage[d] # "menu"
    <3>1. current[d] \in 1 .. nextReq - 1
      BY <1>1, <2>2, CurrentIsRequest
    <3> QED BY <1>2, <1>5, <2>2, <3>1 DEF HandlerOK, Current, RequestInv
  <2>3. CASE d # c /\ stage[d] = "menu"
    BY <1>5, <2>3 DEF HandlerOK
  <2> QED BY <2>1, <2>2, <2>3
<1>7. ASSUME NEW d \in Clients, NEW e \in Clients, d # e, current'[d] # 0
      PROVE  current'[d] # current'[e]
  <2>1. \A f \in Clients : current[f] \in Nat /\ current[f] < nextReq
    BY DEF TypeOK
  <2> QED BY <1>1, <1>5, <1>7, <2>1 DEF RequestInv
<1> QED BY <1>4, <1>6, <1>7 DEF RequestInv

\* A handler's end leaves its request to whatever the agent still does.
LEMMA FinishRequests ==
  ASSUME TypeOK, RequestInv, NEW c \in Clients, stage[c] # "menu",
         NEW v \in {"none", "pending", "ok", "error", "refused", "unknown"},
         Finish(c, v),
         RequestOK([Current(c) EXCEPT !.told = v, !.answer = "no"])
  PROVE  RequestInv'
<1> DEFINE i == current[c]
<1>1. i \in DOMAIN req /\ req[i] \in Request /\ i # 0
  BY CurrentIsRequest DEF TypeOK, Current
<1>2. /\ DOMAIN req' = DOMAIN req
      /\ req'[i] = [Current(c) EXCEPT !.told = v, !.answer = "no"]
      /\ \A j \in DOMAIN req : j # i => req'[j] = req[j]
  BY <1>1 DEF Finish, TypeOK, Current
<1>3. \A j \in DOMAIN req' : RequestOK(req'[j])
  BY <1>2 DEF RequestInv
<1>4. /\ \A d \in Clients : d # c => stage'[d] = stage[d] /\ current'[d] = current[d]
      /\ stage'[c] = "menu" /\ current'[c] = 0
  BY DEF Finish, TypeOK
<1>5. ASSUME NEW d \in Clients
      PROVE  HandlerOK(d)'
  <2>1. CASE d = c \/ stage[d] = "menu"
    BY <1>4, <2>1 DEF HandlerOK
  <2>2. CASE d # c /\ stage[d] # "menu"
    <3>1. current[d] \in DOMAIN req /\ current[d] # i
      BY <1>1, <2>2, CurrentIsRequest DEF RequestInv
    <3> QED BY <1>2, <1>4, <2>2, <3>1 DEF HandlerOK, Current, RequestInv
  <2> QED BY <2>1, <2>2
<1>6. ASSUME NEW d \in Clients, NEW e \in Clients, d # e, current'[d] # 0
      PROVE  current'[d] # current'[e]
  BY <1>4, <1>6 DEF RequestInv
<1> QED BY <1>3, <1>5, <1>6 DEF RequestInv

\* The agent works on a request the hub has sent, and tells nobody itself.
LEMMA AgentRequests ==
  ASSUME TypeOK, RequestInv, NEW i \in DOMAIN req, NEW r,
         req' = [req EXCEPT ![i] = r], RequestOK(r),
         r.op = req[i].op, r.told = req[i].told, req[i].step # "hub",
         UNCHANGED <<stage, current>>
  PROVE  RequestInv'
<1>1. /\ DOMAIN req' = DOMAIN req /\ req'[i] = r
      /\ \A j \in DOMAIN req : j # i => req'[j] = req[j]
  BY DEF TypeOK
<1>2. \A j \in DOMAIN req' : RequestOK(req'[j])
  BY <1>1 DEF RequestInv
<1>3. ASSUME NEW d \in Clients
      PROVE  HandlerOK(d)'
  <2>1. CASE stage[d] = "menu"
    BY <2>1 DEF HandlerOK
  <2>2. CASE stage[d] # "menu"
    <3>1. current[d] \in DOMAIN req
      BY <2>2, CurrentIsRequest
    <3>2. /\ req'[current[d]].told = req[current[d]].told
          /\ req'[current[d]].op = req[current[d]].op
          /\ req[current[d]].step = "hub" => req'[current[d]].step = "hub"
      BY <1>1, <3>1
    <3> QED BY <3>2 DEF HandlerOK, Current, RequestInv
  <2> QED BY <2>1, <2>2
<1> QED BY <1>2, <1>3 DEF RequestInv

LEMMA RequestStep == TypeOK /\ RequestInv /\ [Next]_vars => RequestInv'
<1> SUFFICES ASSUME TypeOK, RequestInv, [Next]_vars PROVE RequestInv'
  OBVIOUS
<1>0. ASSUME UNCHANGED <<stage, current, req>>
      PROVE  RequestInv'
  BY <1>0 DEF RequestInv, HandlerOK, Current
<1>1. CASE UNCHANGED vars
  BY <1>0, <1>1 DEF vars, hubVars
<1>2. ASSUME NEW c \in Clients, NEW w \in Workspaces,
             \/ CreateWorkspace(c, w) \/ CheckOfflineDelete(c, w)
             \/ AdminDelete(c, w)
             \/ \E op \in {"delete", "reset"} : CheckOp(c, op, w)
             \/ LookForOpen(c, w)
      PROVE  RequestInv'
  <2>1. CASE CreateWorkspace(c, w)
    BY <2>1, BeginRequests DEF CreateWorkspace, Ops
  <2>2. CASE CheckOfflineDelete(c, w)
    BY <2>2, BeginRequests DEF CheckOfflineDelete, Ops
  <2>3. ASSUME NEW op \in {"delete", "reset"}, CheckOp(c, op, w)
        PROVE  RequestInv'
    BY <2>3, BeginRequests DEF CheckOp, Ops
  <2>4. CASE LookForOpen(c, w)
    BY <2>4, BeginRequests DEF LookForOpen, Ops
  <2>5. CASE AdminDelete(c, w)
    <3>1. \/ Begin(c, "delete", w, "checked")
          \/ Begin(c, "drop", w, "dropping")
      BY <2>5 DEF AdminDelete
    <3> QED BY <3>1, BeginRequests DEF Ops
  <2> QED BY <1>2, <2>1, <2>2, <2>3, <2>4, <2>5
<1>3. ASSUME NEW c \in Clients, NEW w \in Workspaces, LeaveSession(c, w)
      PROVE  RequestInv'
  BY <1>0, <1>3 DEF LeaveSession
<1>4. ASSUME NEW c \in Clients, HubStep(c)
      PROVE  RequestInv'
  <2>0. /\ stage[c] # "menu" /\ HandlerOK(c)
        /\ current[c] \in DOMAIN req /\ Current(c) \in Request
        /\ Current(c) = req[current[c]] /\ RequestOK(Current(c))
    <3>1. stage[c] # "menu"
      BY <1>4 DEF HubStep, SendRequest, SendFails, Answered, GivenUp,
         DropBinding, OpenSession, OpenRefused
    <3> QED BY <3>1, CurrentIsRequest DEF RequestInv, Current
  <2>1. CASE SendFails(c)
    <3>1. RequestOK([Current(c) EXCEPT !.told = "refused", !.answer = "no"])
      BY <2>0, <2>1 DEF SendFails, HandlerOK, RequestOK, Request
    <3> QED BY <2>0, <2>1, <3>1, FinishRequests DEF SendFails
  <2>2. CASE Answered(c)
    <3>1. /\ Current(c).told = "pending" /\ Current(c).step = "gone"
          /\ Current(c).answer \in {"ok", "error"}
      BY <2>0, <2>2 DEF Answered, HandlerOK, RequestOK, Request
    <3>2. RequestOK([Current(c) EXCEPT !.told = Current(c).answer,
                                       !.answer = "no"])
      BY <2>0, <3>1 DEF RequestOK, Request
    <3> QED BY <2>0, <2>2, <3>1, <3>2, FinishRequests DEF Answered
  <2>3. CASE GivenUp(c)
    <3>1. RequestOK([Current(c) EXCEPT !.told = "unknown", !.answer = "no"])
      BY <2>0, <2>3 DEF GivenUp, HandlerOK, RequestOK, Request
    <3> QED BY <2>0, <2>3, <3>1, FinishRequests DEF GivenUp
  <2>4. CASE DropBinding(c)
    <3>1. RequestOK([Current(c) EXCEPT !.told = "none", !.answer = "no"])
      BY <2>0, <2>4 DEF DropBinding, HandlerOK, RequestOK, Request
    <3> QED BY <2>0, <2>4, <3>1, FinishRequests DEF DropBinding
  <2>5. CASE OpenRefused(c)
    <3>1. RequestOK([Current(c) EXCEPT !.told = "none", !.answer = "no"])
      BY <2>0, <2>5 DEF OpenRefused, HandlerOK, RequestOK, Request
    <3> QED BY <2>0, <2>5, <3>1, FinishRequests DEF OpenRefused
  <2>6. CASE SendRequest(c)
    <3> DEFINE i == current[c]
               r == [req[i] EXCEPT !.step = "sent"]
    <3>1. RequestOK(r) /\ i # 0
      BY <2>0, <2>6 DEF SendRequest, HandlerOK, RequestOK, Request, TypeOK
    <3>2. req' = [req EXCEPT ![i] = r] /\ stage' = [stage EXCEPT ![c] = "waiting"]
          /\ UNCHANGED current
      BY <2>6 DEF SendRequest
    <3>3. /\ DOMAIN req' = DOMAIN req /\ req'[i] = r
          /\ \A j \in DOMAIN req : j # i => req'[j] = req[j]
      BY <2>0, <3>2
    <3>4. \A j \in DOMAIN req' : RequestOK(req'[j])
      BY <3>1, <3>3 DEF RequestInv
    <3>5. r.told = "pending"
      BY <2>0, <2>6 DEF SendRequest, HandlerOK, Request
    <3>6. ASSUME NEW d \in Clients
          PROVE  HandlerOK(d)'
      <4>1. CASE d = c
        BY <3>2, <3>3, <3>5, <4>1 DEF HandlerOK, Current, TypeOK
      <4>2. CASE d # c /\ stage[d] # "menu"
        <5>1. current[d] \in DOMAIN req /\ current[d] # i
          BY <3>1, <4>2, CurrentIsRequest DEF RequestInv
        <5> QED BY <3>2, <3>3, <4>2, <5>1 DEF HandlerOK, Current, RequestInv, TypeOK
      <4>3. CASE d # c /\ stage[d] = "menu"
        BY <3>2, <4>3 DEF HandlerOK, TypeOK
      <4> QED BY <4>1, <4>2, <4>3
    <3> QED BY <3>2, <3>4, <3>6 DEF RequestInv
  <2>7. CASE OpenSession(c)
    <3> DEFINE i == current[c]
               r == [req[i] EXCEPT !.step = "sent", !.link = link]
    <3>1. RequestOK(r) /\ i # 0
      BY <2>0, <2>7 DEF OpenSession, HandlerOK, RequestOK, Request, TypeOK
    <3>2. req' = [req EXCEPT ![i] = r] /\ stage' = [stage EXCEPT ![c] = "menu"]
          /\ current' = [current EXCEPT ![c] = 0]
      BY <2>7 DEF OpenSession
    <3>3. /\ DOMAIN req' = DOMAIN req /\ req'[i] = r
          /\ \A j \in DOMAIN req : j # i => req'[j] = req[j]
      BY <2>0, <3>2
    <3>4. \A j \in DOMAIN req' : RequestOK(req'[j])
      BY <3>1, <3>3 DEF RequestInv
    <3>5. /\ \A d \in Clients :
                d # c => stage'[d] = stage[d] /\ current'[d] = current[d]
          /\ stage'[c] = "menu" /\ current'[c] = 0
      BY <3>2 DEF TypeOK
    <3>6. ASSUME NEW d \in Clients
          PROVE  HandlerOK(d)'
      <4>1. CASE d = c \/ stage[d] = "menu"
        BY <3>5, <4>1 DEF HandlerOK
      <4>2. CASE d # c /\ stage[d] # "menu"
        <5>1. current[d] \in DOMAIN req /\ current[d] # i
          BY <3>1, <4>2, CurrentIsRequest DEF RequestInv
        <5> QED BY <3>3, <3>5, <4>2, <5>1 DEF HandlerOK, Current, RequestInv
      <4> QED BY <4>1, <4>2
    <3>7. \A d, e \in Clients :
            d # e /\ current'[d] # 0 => current'[d] # current'[e]
      BY <3>5 DEF RequestInv
    <3> QED BY <3>4, <3>6, <3>7 DEF RequestInv
  <2> QED BY <1>4, <2>1, <2>2, <2>3, <2>4, <2>5, <2>6, <2>7 DEF HubStep
<1>5. CASE LinkBreaks \/ AgentCrashes
  <2>1. /\ UNCHANGED <<stage, current>> /\ DOMAIN req' = DOMAIN req
        /\ \A i \in DOMAIN req :
             \/ req'[i] = req[i]
             \/ req[i].step # "hub" /\ req'[i] = [req[i] EXCEPT !.step = "gone"]
    BY <1>5 DEF LinkBreaks, AgentCrashes
  <2>2. ASSUME NEW i \in DOMAIN req
        PROVE  /\ RequestOK(req'[i])
               /\ req'[i].told = req[i].told /\ req'[i].op = req[i].op
               /\ req[i].step = "hub" => req'[i].step = "hub"
    <3>1. RequestOK(req[i]) /\ req[i] \in Request
      BY DEF RequestInv, TypeOK
    <3> QED BY <2>1, <3>1 DEF RequestOK, Request
  <2>3. ASSUME NEW d \in Clients
        PROVE  HandlerOK(d)'
    <3>1. CASE stage[d] = "menu"
      BY <2>1, <3>1 DEF HandlerOK
    <3>2. CASE stage[d] # "menu"
      <4>1. current[d] \in DOMAIN req
        BY <3>2, CurrentIsRequest
      <4> QED BY <2>1, <2>2, <4>1 DEF HandlerOK, Current, RequestInv
    <3> QED BY <3>1, <3>2
  <2> QED BY <2>1, <2>2, <2>3 DEF RequestInv
<1>6. CASE AgentHello
  BY <1>0, <1>6 DEF AgentHello
<1>7. ASSUME NEW w \in Workspaces, ToolEnds(w)
      PROVE  RequestInv'
  BY <1>0, <1>7 DEF ToolEnds, hubVars
<1>8. ASSUME NEW i \in DOMAIN req, AgentStep(i)
      PROVE  RequestInv'
  <2>0. RequestOK(req[i]) /\ req[i] \in Request
    BY DEF RequestInv, TypeOK
  <2>1. ASSUME NEW o \in {"ok", "error"}, Done(i, o),
               req[i].step \in {"sent", "killed", "retired"},
               req[i].op \in {"create", "delete", "reset"},
               UNCHANGED <<stage, current>>
        PROVE  RequestInv'
    <3> DEFINE r == [req[i] EXCEPT !.step = "done", !.outcome = o]
    <3>1. RequestOK(r) /\ r.op = req[i].op /\ r.told = req[i].told
      BY <2>0, <2>1 DEF RequestOK, Request
    <3>2. req' = [req EXCEPT ![i] = r]
      BY <2>1 DEF Done
    <3> HIDE DEF r
    <3> QED BY <2>1, <3>1, <3>2, AgentRequests
  <2>2. ASSUME NEW s \in {"killed", "retired", "gone"},
               req' = [req EXCEPT ![i] = [@ EXCEPT !.step = s]],
               req[i].step \in {"sent", "killed"},
               req[i].op # "drop", UNCHANGED <<stage, current>>
        PROVE  RequestInv'
    <3> DEFINE r == [req[i] EXCEPT !.step = s]
    <3>1. RequestOK(r) /\ r.op = req[i].op /\ r.told = req[i].told
      BY <2>0, <2>2 DEF RequestOK, Request
    <3>2. req' = [req EXCEPT ![i] = r]
      BY <2>2
    <3> HIDE DEF r
    <3> QED BY <2>2, <3>1, <3>2, AgentRequests
  <2>3. CASE AgentReplies(i)
    <3> DEFINE r == [req[i] EXCEPT !.step = "gone", !.answer = Delivered(i)]
    <3>1. RequestOK(r) /\ r.op = req[i].op /\ r.told = req[i].told
      BY <2>0, <2>3 DEF AgentReplies, RequestOK, Request, Delivered
    <3>2. req' = [req EXCEPT ![i] = r] /\ req[i].step # "hub"
          /\ UNCHANGED <<stage, current>>
      BY <2>3 DEF AgentReplies
    <3> HIDE DEF r
    <3> QED BY <3>1, <3>2, AgentRequests
  <2>4. CASE AgentCreates(i)
    BY <2>1, <2>4 DEF AgentCreates, At
  <2>5. CASE AgentFindsNone(i)
    BY <2>1, <2>5 DEF AgentFindsNone, At
  <2>6. CASE AgentKills(i)
    BY <2>2, <2>6 DEF AgentKills, At
  <2>7. CASE AgentRetires(i)
    BY <2>1, <2>2, <2>7 DEF AgentRetires, At
  <2>8. CASE AgentRemoves(i)
    BY <2>1, <2>8 DEF AgentRemoves, At
  <2>9. CASE AgentOpens(i)
    BY <2>2, <2>9 DEF AgentOpens, At
  <2> QED
    BY <1>8, <2>3, <2>4, <2>5, <2>6, <2>7, <2>8, <2>9 DEF AgentStep
<1> QED
  BY <1>1, <1>2, <1>3, <1>4, <1>5, <1>6, <1>7, <1>8 DEF Next, ClientStep

\* What AgentRequest sees of an action that replaces one request.
LEMMA UpdateSeen ==
  ASSUME TypeOK, NEW i \in DOMAIN req, NEW r, req' = [req EXCEPT ![i] = r],
         UNCHANGED nextReq
  PROVE  /\ i \in Ids
         /\ Effects[i] = req[i].outcome /\ Verdicts[i] = req[i].told
         /\ Effects' = [Effects EXCEPT ![i] = r.outcome]
         /\ Verdicts' = [Verdicts EXCEPT ![i] = r.told]
<1>1. i \in Ids /\ i < nextReq /\ nextReq \in Nat
  BY DEF TypeOK, Ids
<1>2. req'[i] = r /\ \A j \in Ids : j # i /\ j < nextReq => req'[j] = req[j]
  BY <1>1 DEF TypeOK, Ids
<1>3. ASSUME NEW j \in Ids
      PROVE  Effects'[j] = IF j = i THEN r.outcome ELSE Effects[j]
  <2>1. Effects'[j] = IF j < nextReq THEN req'[j].outcome ELSE "no"
    BY DEF Effects
  <2>2. Effects[j] = IF j < nextReq THEN req[j].outcome ELSE "no"
    BY DEF Effects
  <2>3. CASE j = i
    BY <1>1, <1>2, <2>1, <2>3
  <2>4. CASE j # i
    BY <1>2, <2>1, <2>2, <2>4
  <2> QED BY <2>3, <2>4
<1>4. ASSUME NEW j \in Ids
      PROVE  Verdicts'[j] = IF j = i THEN r.told ELSE Verdicts[j]
  <2>1. Verdicts'[j] = IF j < nextReq THEN req'[j].told ELSE "none"
    BY DEF Verdicts
  <2>2. Verdicts[j] = IF j < nextReq THEN req[j].told ELSE "none"
    BY DEF Verdicts
  <2>3. CASE j = i
    BY <1>1, <1>2, <2>1, <2>3
  <2>4. CASE j # i
    BY <1>2, <2>1, <2>2, <2>4
  <2> QED BY <2>3, <2>4
<1>5. Effects[i] = req[i].outcome /\ Verdicts[i] = req[i].told
  BY <1>1 DEF Effects, Verdicts
<1>6. Effects' = [Effects EXCEPT ![i] = r.outcome]
  BY <1>3 DEF Effects
<1>7. Verdicts' = [Verdicts EXCEPT ![i] = r.told]
  BY <1>4 DEF Verdicts
<1> QED BY <1>1, <1>5, <1>6, <1>7

LEMMA UpdateUnseen ==
  ASSUME TypeOK, NEW i \in DOMAIN req, NEW r, req' = [req EXCEPT ![i] = r],
         UNCHANGED nextReq, r.outcome = req[i].outcome, r.told = req[i].told
  PROVE  UNCHANGED Service!requestVars
<1>1. Effects' = Effects /\ Verdicts' = Verdicts
  BY UpdateSeen DEF Effects, Verdicts
<1> QED BY <1>1 DEF Service!requestVars

\* Starting a handler asks, unless it opens or only drops a row.
LEMMA BeginSeen ==
  ASSUME TypeOK, NEW c \in Clients, NEW op \in Ops, NEW w \in Workspaces,
         NEW at \in {"looked", "bound", "checked", "dropping"},
         Begin(c, op, w, at)
  PROVE  [Service!RequestNext]_(Service!requestVars)
<1>1. nextReq \in Ids /\ nextReq \in Nat /\ nextReq' = nextReq + 1
  BY DEF Begin, TypeOK, Ids
<1>2. /\ \A j \in Ids : j < nextReq => req'[j] = req[j]
      /\ req'[nextReq].outcome = "no"
      /\ req'[nextReq].told = IF op \in {"drop", "open"} THEN "none"
                              ELSE "pending"
  <2>1. req'[nextReq] =
          [op |-> op, ws |-> w, link |-> link, step |-> "hub",
           outcome |-> "no", answer |-> "no",
           told |-> IF op \in {"drop", "open"} THEN "none" ELSE "pending"]
    BY <1>1 DEF Begin, Ids
  <2>2. \A j \in Ids : j < nextReq => req'[j] = req[j]
    BY <1>1 DEF Begin, Ids
  <2> QED BY <2>1, <2>2
<1>3. /\ Effects[nextReq] = "no" /\ Verdicts[nextReq] = "none"
      /\ Effects'[nextReq] = "no"
      /\ Verdicts'[nextReq] = IF op \in {"drop", "open"} THEN "none"
                              ELSE "pending"
      /\ \A j \in Ids : j # nextReq =>
           Effects'[j] = Effects[j] /\ Verdicts'[j] = Verdicts[j]
  BY <1>1, <1>2 DEF Effects, Verdicts, Ids
<1>4. Effects' = Effects
  BY <1>3 DEF Effects
<1>5. CASE op \in {"drop", "open"}
  <2>1. Verdicts' = Verdicts
    BY <1>3, <1>5 DEF Verdicts
  <2> QED BY <1>4, <2>1 DEF Service!requestVars
<1>6. CASE op \notin {"drop", "open"}
  <2>1. Verdicts' = [Verdicts EXCEPT ![nextReq] = "pending"]
    BY <1>3, <1>6 DEF Verdicts
  <2>2. Service!Ask(nextReq)
    BY <1>3, <1>4, <2>1 DEF Service!Ask
  <2> QED BY <1>1, <2>2 DEF Service!RequestNext
<1> QED BY <1>5, <1>6

\* Every step of the hub and the agent is a step of AgentRequest or none.
LEMMA StepSeen ==
  TypeOK /\ RequestInv /\ [Next]_vars
    => [Service!RequestNext]_(Service!requestVars)
<1> SUFFICES ASSUME TypeOK, RequestInv, [Next]_vars
             PROVE  [Service!RequestNext]_(Service!requestVars)
  OBVIOUS
<1>0. ASSUME UNCHANGED <<req, nextReq>>
      PROVE  UNCHANGED Service!requestVars
  BY <1>0 DEF Service!requestVars, Effects, Verdicts
<1>1. CASE UNCHANGED vars
  BY <1>0, <1>1 DEF vars, hubVars
<1>2. ASSUME NEW c \in Clients, ClientStep(c)
      PROVE  [Service!RequestNext]_(Service!requestVars)
  <2>1. PICK w \in Workspaces :
          \/ CreateWorkspace(c, w) \/ CheckOfflineDelete(c, w)
          \/ AdminDelete(c, w)
          \/ (\E op \in {"delete", "reset"} : CheckOp(c, op, w))
          \/ LookForOpen(c, w) \/ LeaveSession(c, w)
    BY <1>2 DEF ClientStep
  <2>2. CASE CreateWorkspace(c, w)
    BY <2>2, BeginSeen DEF CreateWorkspace, Ops
  <2>3. CASE CheckOfflineDelete(c, w)
    BY <2>3, BeginSeen DEF CheckOfflineDelete, Ops
  <2>4. ASSUME NEW op \in {"delete", "reset"}, CheckOp(c, op, w)
        PROVE  [Service!RequestNext]_(Service!requestVars)
    BY <2>4, BeginSeen DEF CheckOp, Ops
  <2>5. CASE LookForOpen(c, w)
    BY <2>5, BeginSeen DEF LookForOpen, Ops
  <2>6. CASE LeaveSession(c, w)
    BY <1>0, <2>6 DEF LeaveSession
  <2>7. CASE AdminDelete(c, w)
    <3>1. \/ Begin(c, "delete", w, "checked")
          \/ Begin(c, "drop", w, "dropping")
      BY <2>7 DEF AdminDelete
    <3> QED BY <3>1, BeginSeen DEF Ops
  <2> QED BY <2>1, <2>2, <2>3, <2>4, <2>5, <2>6, <2>7
<1>3. ASSUME NEW c \in Clients, HubStep(c)
      PROVE  [Service!RequestNext]_(Service!requestVars)
  <2> DEFINE i == current[c]
  <2>0. /\ i \in DOMAIN req /\ Current(c) = req[i]
        /\ req[i] \in Request /\ RequestOK(req[i]) /\ HandlerOK(c)
    <3>1. stage[c] # "menu"
      BY <1>3 DEF HubStep, SendRequest, SendFails, Answered, GivenUp,
         DropBinding, OpenSession, OpenRefused
    <3> QED BY <3>1, CurrentIsRequest DEF RequestInv, Current
  <2>1. ASSUME NEW v \in {"none", "ok", "error", "refused", "unknown"},
               Finish(c, v), UNCHANGED nextReq
        PROVE  /\ i \in Ids /\ Effects' = Effects
               /\ Effects[i] = req[i].outcome /\ Verdicts[i] = req[i].told
               /\ Verdicts' = [Verdicts EXCEPT ![i] = v]
    <3> DEFINE r == [req[i] EXCEPT !.told = v, !.answer = "no"]
    <3>1. r.told = v /\ r.outcome = req[i].outcome
      BY <2>0 DEF Request
    <3>2. req' = [req EXCEPT ![i] = r]
      BY <2>1 DEF Finish
    <3> HIDE DEF r
    <3>3. /\ i \in Ids /\ Effects[i] = req[i].outcome
          /\ Verdicts[i] = req[i].told
          /\ Effects' = [Effects EXCEPT ![i] = r.outcome]
          /\ Verdicts' = [Verdicts EXCEPT ![i] = r.told]
      BY <2>0, <2>1, <3>2, UpdateSeen
    <3> QED BY <3>1, <3>3 DEF Effects
  <2>2. CASE SendFails(c)
    <3>1. req[i].outcome = "no" /\ req[i].told = "pending"
      BY <2>0, <2>2 DEF SendFails, HandlerOK, RequestOK
    <3>2. Service!Refuse(i) /\ i \in Ids
      BY <2>1, <2>2, <3>1 DEF SendFails, Service!Refuse
    <3> QED BY <3>2 DEF Service!RequestNext
  <2>3. CASE Answered(c)
    <3>1. /\ req[i].answer \in {"ok", "error"} /\ req[i].told = "pending"
          /\ req[i].outcome = req[i].answer
      BY <2>0, <2>3 DEF Answered, HandlerOK, RequestOK, Request
    <3>2. Service!Answer(i) /\ i \in Ids
      BY <2>0, <2>1, <2>3, <3>1 DEF Answered, Service!Answer
    <3> QED BY <3>2 DEF Service!RequestNext
  <2>4. CASE GivenUp(c)
    <3>1. req[i].told = "pending"
      BY <2>0, <2>4 DEF GivenUp, HandlerOK
    <3>2. Service!GiveUp(i) /\ i \in Ids
      BY <2>1, <2>4, <3>1 DEF GivenUp, Service!GiveUp
    <3> QED BY <3>2 DEF Service!RequestNext
  <2>5. CASE DropBinding(c) \/ OpenRefused(c)
    <3>1. req[i].told = "none"
      BY <2>0, <2>5 DEF DropBinding, OpenRefused, HandlerOK, RequestOK
    <3>2. Effects' = Effects /\ Verdicts' = Verdicts
      BY <2>1, <2>5, <3>1 DEF DropBinding, OpenRefused, Verdicts
    <3> QED BY <3>2 DEF Service!requestVars
  <2>6. CASE SendRequest(c)
    <3> DEFINE r == [req[i] EXCEPT !.step = "sent"]
    <3>1. r.told = req[i].told /\ r.outcome = req[i].outcome
      BY <2>0 DEF Request
    <3>2. req' = [req EXCEPT ![i] = r] /\ UNCHANGED nextReq
      BY <2>6 DEF SendRequest
    <3> HIDE DEF r
    <3> QED BY <2>0, <3>1, <3>2, UpdateUnseen
  <2>7. CASE OpenSession(c)
    <3> DEFINE r == [req[i] EXCEPT !.step = "sent", !.link = link]
    <3>1. r.told = req[i].told /\ r.outcome = req[i].outcome
      BY <2>0 DEF Request
    <3>2. req' = [req EXCEPT ![i] = r] /\ UNCHANGED nextReq
      BY <2>7 DEF OpenSession
    <3> HIDE DEF r
    <3> QED BY <2>0, <3>1, <3>2, UpdateUnseen
  <2> QED BY <1>3, <2>2, <2>3, <2>4, <2>5, <2>6, <2>7 DEF HubStep
<1>4. CASE LinkBreaks \/ AgentCrashes
  <2>1. /\ UNCHANGED nextReq /\ DOMAIN req' = DOMAIN req
        /\ \A i \in DOMAIN req : \/ req'[i] = req[i]
                                 \/ req'[i] = [req[i] EXCEPT !.step = "gone"]
    BY <1>4 DEF LinkBreaks, AgentCrashes
  <2>2. ASSUME NEW i \in DOMAIN req
        PROVE  req'[i].outcome = req[i].outcome /\ req'[i].told = req[i].told
    <3>1. req[i] \in Request
      BY DEF TypeOK
    <3>2. \A r \in Request : /\ [r EXCEPT !.step = "gone"].outcome = r.outcome
                             /\ [r EXCEPT !.step = "gone"].told = r.told
      BY DEF Request
    <3> QED BY <2>1, <3>1, <3>2
  <2>3. \A i \in Ids : i < nextReq => i \in DOMAIN req
    BY DEF TypeOK, Ids
  <2>4. Effects' = Effects /\ Verdicts' = Verdicts
    BY <2>1, <2>2, <2>3 DEF Effects, Verdicts
  <2> QED BY <2>4 DEF Service!requestVars
<1>5. CASE AgentHello
  BY <1>0, <1>5 DEF AgentHello
<1>6. ASSUME NEW w \in Workspaces, ToolEnds(w)
      PROVE  UNCHANGED Service!requestVars
  BY <1>0, <1>6 DEF ToolEnds, hubVars
<1>7. ASSUME NEW i \in DOMAIN req, AgentStep(i)
      PROVE  [Service!RequestNext]_(Service!requestVars)
  <2>0. RequestOK(req[i]) /\ req[i] \in Request
    BY DEF RequestInv, TypeOK
  <2>1. ASSUME NEW o \in {"ok", "error"}, Done(i, o),
               req[i].step \in {"sent", "killed", "retired"},
               req[i].op # "open", UNCHANGED nextReq
        PROVE  [Service!RequestNext]_(Service!requestVars)
    <3> DEFINE r == [req[i] EXCEPT !.step = "done", !.outcome = o]
    <3>1. r.told = req[i].told /\ r.outcome = o
      BY <2>0 DEF Request
    <3>2. req' = [req EXCEPT ![i] = r]
      BY <2>1 DEF Done
    <3> HIDE DEF r
    <3>3. req[i].outcome = "no" /\ req[i].told \in {"pending", "unknown"}
      BY <2>0, <2>1 DEF RequestOK
    <3>4. /\ i \in Ids /\ Effects[i] = "no"
          /\ Verdicts[i] \in {"pending", "unknown"}
          /\ Effects' = [Effects EXCEPT ![i] = o]
          /\ Verdicts' = [Verdicts EXCEPT ![i] = Verdicts[i]]
      <4>1. /\ i \in Ids
            /\ Effects[i] = req[i].outcome /\ Verdicts[i] = req[i].told
            /\ Effects' = [Effects EXCEPT ![i] = r.outcome]
            /\ Verdicts' = [Verdicts EXCEPT ![i] = r.told]
        BY <2>1, <3>2, UpdateSeen
      <4> QED BY <3>1, <3>3, <4>1
    <3>5. Service!Execute(i)
      BY <3>4 DEF Service!Execute, Verdicts
    <3> QED BY <3>4, <3>5 DEF Service!RequestNext
  <2>2. ASSUME NEW s \in {"killed", "retired", "gone"},
               req' = [req EXCEPT ![i] = [@ EXCEPT !.step = s]],
               UNCHANGED nextReq
        PROVE  UNCHANGED Service!requestVars
    <3> DEFINE r == [req[i] EXCEPT !.step = s]
    <3>1. r.told = req[i].told /\ r.outcome = req[i].outcome
      BY <2>0 DEF Request
    <3>2. req' = [req EXCEPT ![i] = r]
      BY <2>2
    <3> HIDE DEF r
    <3> QED BY <2>2, <3>1, <3>2, UpdateUnseen
  <2>3. CASE AgentReplies(i)
    <3> DEFINE r == [req[i] EXCEPT !.step = "gone", !.answer = Delivered(i)]
    <3>1. r.told = req[i].told /\ r.outcome = req[i].outcome
      BY <2>0 DEF Request
    <3>2. req' = [req EXCEPT ![i] = r] /\ UNCHANGED nextReq
      BY <2>3 DEF AgentReplies
    <3> HIDE DEF r
    <3> QED BY <3>1, <3>2, UpdateUnseen
  <2>4. CASE AgentCreates(i)
    BY <2>1, <2>4 DEF AgentCreates, At
  <2>5. CASE AgentFindsNone(i)
    BY <2>1, <2>5 DEF AgentFindsNone, At
  <2>6. CASE AgentKills(i)
    BY <2>2, <2>6 DEF AgentKills
  <2>7. CASE AgentRetires(i)
    BY <2>1, <2>2, <2>7 DEF AgentRetires, At
  <2>8. CASE AgentRemoves(i)
    BY <2>1, <2>8 DEF AgentRemoves, At
  <2>9. CASE AgentOpens(i)
    BY <2>2, <2>9 DEF AgentOpens
  <2> QED
    BY <1>7, <2>3, <2>4, <2>5, <2>6, <2>7, <2>8, <2>9 DEF AgentStep
<1> QED
  BY <1>1, <1>2, <1>3, <1>4, <1>5, <1>6, <1>7 DEF Next

\* Requests are carried out at most once and answered truthfully or not at
\* all: the hub and the agent implement AgentRequest.
THEOREM RequestImplemented == Spec => ImplementsRequest
<1>1. Init => Service!RequestInit
  <2> SUFFICES ASSUME Init PROVE Service!RequestInit
    OBVIOUS
  <2>1. \A i \in Ids : ~ i < nextReq
    BY DEF Init, Ids
  <2>2. Effects = [i \in Ids |-> "no"] /\ Verdicts = [i \in Ids |-> "none"]
    BY <2>1 DEF Effects, Verdicts
  <2> QED BY <2>2 DEF Service!RequestInit
<1>2. Init => RequestInv
  <2> SUFFICES ASSUME Init PROVE RequestInv
    OBVIOUS
  <2>1. DOMAIN req = {}
    BY DEF Init
  <2> QED BY <2>1 DEF Init, RequestInv, HandlerOK
<1>3. TypeOK /\ RequestInv /\ [Next]_vars => RequestInv'
  BY RequestStep
<1>4. TypeOK /\ RequestInv /\ [Next]_vars
        => [Service!RequestNext]_(Service!requestVars)
  BY StepSeen
<1>5. Spec => []TypeOK
  BY TypeCorrect
<1> QED
  BY <1>1, <1>2, <1>3, <1>4, <1>5, PTL
  DEF Spec, ImplementsRequest, Service!RequestSpec

-----------------------------------------------------------------------------
(* The catalog and the directories.                                         *)

\* A request whose answer still has to set the catalog right: a create that
\* has a row without a directory, or a delete that has done the reverse.
Owes(r) ==
  /\ r.told = "pending"
  /\ \/ r.op = "create" /\ r.outcome = "no"
     \/ r.op = "delete" /\ r.outcome = "ok"

Owed(w) == {i \in DOMAIN req : req[i].ws = w /\ Owes(req[i])}

\* A workspace has at most one such request.  While it has one it has a row and
\* no directory; otherwise row and directory agree, as far as the agent has
\* reported its directories.
Agrees(w) ==
  /\ \A i, j \in Owed(w) : i = j
  /\ Owed(w) # {} => w \in bindings /\ w \notin dirs
  /\ Owed(w) = {} =>
       /\ w \in bindings => w \in dirs
       /\ link > 0 /\ w \in dirs => w \in bindings

\* What is asked has somebody who waits for it; what nobody waits for any more
\* left a doubt, and so does a create that found its directory there.
Accounted(i) ==
  /\ req[i].told = "pending" => link > 0 /\ \E c \in Clients : current[c] = i
  /\ req[i].told = "unknown" /\ req[i].op # "reset" => req[i].ws \in doubt
  /\ req[i].op = "create" /\ req[i].outcome = "error" => req[i].ws \in doubt

LedgerInv ==
  /\ online => link > 0
  /\ \A i \in DOMAIN req : Accounted(i)
  /\ \A w \in Workspaces \ doubt : Agrees(w)

-----------------------------------------------------------------------------
(* What the steps do to the requests that are owed                          *)

\* A request that is replaced by another of its workspace
LEMMA OwedAfterUpdate ==
  ASSUME NEW i \in DOMAIN req, NEW r, req' = [req EXCEPT ![i] = r],
         r.ws = req[i].ws
  PROVE  /\ DOMAIN req' = DOMAIN req /\ req'[i] = r
         /\ \A j \in DOMAIN req \ {i} : req'[j] = req[j]
         /\ \A w : Owed(w)' = IF w # req[i].ws THEN Owed(w)
                              ELSE IF Owes(r) THEN Owed(w) \cup {i}
                              ELSE Owed(w) \ {i}
<1>1. /\ DOMAIN req' = DOMAIN req /\ req'[i] = r
      /\ \A j \in DOMAIN req \ {i} : req'[j] = req[j]
  OBVIOUS
<1>2. ASSUME NEW w, w # req[i].ws PROVE Owed(w)' = Owed(w)
  BY <1>1, <1>2 DEF Owed, Owes
<1>3. ASSUME NEW w, w = req[i].ws, Owes(r) PROVE Owed(w)' = Owed(w) \cup {i}
  BY <1>1, <1>3 DEF Owed, Owes
<1>4. ASSUME NEW w, w = req[i].ws, ~ Owes(r) PROVE Owed(w)' = Owed(w) \ {i}
  BY <1>1, <1>4 DEF Owed, Owes
<1> QED BY <1>1, <1>2, <1>3, <1>4

Alike(r, t) == r.ws = t.ws /\ r.op = t.op /\ r.told = t.told /\ r.outcome = t.outcome

\* Steps that neither answer a request nor decide one, and touch no row
LEMMA LedgerKept ==
  ASSUME LedgerInv, UNCHANGED <<bindings, link>>, online' => online \/ link' > 0,
         DOMAIN req' = DOMAIN req, \A i \in DOMAIN req : Alike(req'[i], req[i]),
         \A i \in DOMAIN req : req[i].told = "pending" =>
           \A c \in Clients : current[c] = i => current'[c] = i,
         doubt \subseteq doubt',
         \A w \in Workspaces \ doubt' : w \in dirs' <=> w \in dirs
  PROVE  LedgerInv'
<1>1. \A w : Owed(w)' = Owed(w)
  BY DEF Owed, Owes, Alike
<1>2. ASSUME NEW i \in DOMAIN req' PROVE Accounted(i)'
  <2>1. Accounted(i) /\ Alike(req'[i], req[i])
    BY DEF LedgerInv
  <2>2. req[i].told = "pending" => \E c \in Clients : current'[c] = i
    BY <2>1 DEF Accounted
  <2> QED BY <2>1, <2>2 DEF Accounted, Alike
<1>3. ASSUME NEW w \in Workspaces \ doubt' PROVE Agrees(w)'
  <2>1. Agrees(w) /\ (w \in dirs' <=> w \in dirs)
    BY DEF LedgerInv
  <2> QED BY <1>1, <2>1 DEF Agrees
<1> QED BY <1>2, <1>3 DEF LedgerInv

\* A handler starts: only a create owes anything, the directory of its row.
LEMMA LedgerBegins ==
  ASSUME TypeOK, LedgerInv, NEW c \in Clients, NEW op \in Ops, NEW w \in Workspaces, NEW at,
         Begin(c, op, w, at), op \notin {"drop", "open"} => online,
         IF op = "create" THEN w \notin bindings /\ bindings' = bindings \cup {w}
                          ELSE bindings' = bindings,
         UNCHANGED <<online, link, dirs, doubt>>
  PROVE  LedgerInv'
<1> DEFINE n == nextReq
<1>1. /\ n \in Nat /\ DOMAIN req = 1 .. n - 1 /\ DOMAIN req' = 1 .. n
      /\ n \notin DOMAIN req /\ DOMAIN req' = DOMAIN req \cup {n}
      /\ \A i \in DOMAIN req : req'[i] = req[i]
      /\ current' = [current EXCEPT ![c] = n]
      /\ stage[c] = "menu" /\ current[c] = 0
  BY DEF Begin, TypeOK
<1>2. /\ req'[n].ws = w /\ req'[n].op = op /\ req'[n].outcome = "no"
      /\ req'[n].told = IF op \in {"drop", "open"} THEN "none" ELSE "pending"
  <2>1. req'[n] = [op |-> op, ws |-> w, link |-> link, step |-> "hub",
                   outcome |-> "no", answer |-> "no",
                   told |-> IF op \in {"drop", "open"} THEN "none" ELSE "pending"]
    BY <1>1 DEF Begin
  <2> QED BY <2>1
<1> HIDE DEF n
<1>3. Owes(req'[n]) <=> op = "create"
  BY <1>2 DEF Owes
<1>4. /\ \A v : v # w => Owed(v)' = Owed(v)
      /\ Owed(w)' = IF op = "create" THEN Owed(w) \cup {n} ELSE Owed(w)
  BY <1>1, <1>2, <1>3 DEF Owed
<1>5. ASSUME NEW i \in DOMAIN req' PROVE Accounted(i)'
  <2>1. CASE i = n
    <3>1. current'[c] = n
      BY <1>1 DEF TypeOK
    <3>2. req'[n].told = "pending" => link' > 0
      BY <1>2 DEF LedgerInv
    <3> QED BY <1>2, <2>1, <3>1, <3>2 DEF Accounted
  <2>2. CASE i \in DOMAIN req
    <3>1. Accounted(i) /\ req'[i] = req[i] /\ i # 0
      BY <1>1, <2>2 DEF LedgerInv
    <3>2. \A d \in Clients : current[d] = i => current'[d] = i
      BY <1>1, <3>1 DEF TypeOK
    <3> QED BY <3>1, <3>2 DEF Accounted
  <2> QED BY <1>1, <2>1, <2>2
<1>6. ASSUME NEW v \in Workspaces \ doubt' PROVE Agrees(v)'
  <2>1. Agrees(v)
    BY DEF LedgerInv
  <2>2. CASE v # w \/ op # "create"
    BY <1>4, <2>1, <2>2 DEF Agrees
  <2>3. CASE v = w /\ op = "create"
    <3>1. w \notin bindings /\ w \in bindings' /\ link > 0
      BY <2>3 DEF LedgerInv
    <3>2. Owed(w) = {} /\ w \notin dirs
      BY <2>1, <2>3, <3>1 DEF Agrees
    <3>3. Owed(w)' = {n}
      BY <1>4, <2>3, <3>2
    <3> QED BY <2>3, <3>1, <3>2, <3>3 DEF Agrees
  <2> QED BY <2>2, <2>3
<1> QED BY <1>5, <1>6 DEF LedgerInv

\* A handler answers its client.
LEMMA LedgerFinishes ==
  ASSUME TypeOK, LedgerInv, NEW c \in Clients, stage[c] # "menu",
         NEW v \in {"none", "ok", "error", "refused", "unknown"}, Finish(c, v),
         UNCHANGED <<online, link, dirs>>, doubt \subseteq doubt',
         v = "unknown" /\ Current(c).op # "reset" => Current(c).ws \in doubt',
         \A w \in Workspaces : w # Current(c).ws => (w \in bindings' <=> w \in bindings),
         Current(c).ws \notin doubt' =>
           IF Owes(Current(c)) THEN Current(c).ws \notin bindings'
           ELSE Current(c).ws \in bindings' <=> Current(c).ws \in bindings
  PROVE  LedgerInv'
<1>0. PICK i \in DOMAIN req : i = current[c]
  BY CurrentIsRequest
<1>1. Current(c) = req[i] /\ req[i] \in Request
  BY <1>0, CurrentIsRequest DEF Current
<1>2. PICK r : r = [req[i] EXCEPT !.told = v, !.answer = "no"]
  OBVIOUS
<1>3. /\ r.ws = req[i].ws /\ r.op = req[i].op /\ r.outcome = req[i].outcome /\ r.told = v
      /\ ~ Owes(r)
  BY <1>1, <1>2 DEF Request, Owes
<1>7. req' = [req EXCEPT ![i] = r] /\ current' = [current EXCEPT ![c] = 0]
  BY <1>0, <1>2 DEF Finish
<1>4. /\ DOMAIN req' = DOMAIN req /\ req'[i] = r
      /\ \A j \in DOMAIN req \ {i} : req'[j] = req[j]
      /\ \A w : Owed(w)' = IF w # req[i].ws THEN Owed(w) ELSE Owed(w) \ {i}
  BY <1>3, <1>7, OwedAfterUpdate
<1>5. ASSUME NEW j \in DOMAIN req' PROVE Accounted(j)'
  <2>1. Accounted(j)
    BY <1>4 DEF LedgerInv
  <2>2. CASE j = i
    BY <1>1, <1>3, <1>4, <2>1, <2>2 DEF Accounted
  <2>3. CASE j # i
    <3>1. req'[j] = req[j]
      BY <1>4, <2>3
    <3>2. \A d \in Clients : current[d] = j => current'[d] = j
      BY <1>0, <1>7, <2>3 DEF TypeOK
    <3> QED BY <2>1, <3>1, <3>2 DEF Accounted
  <2> QED BY <2>2, <2>3
<1>6. ASSUME NEW w \in Workspaces \ doubt' PROVE Agrees(w)'
  <2>1. Agrees(w)
    BY DEF LedgerInv
  <2>2. CASE w # req[i].ws
    <3>1. Owed(w)' = Owed(w) /\ (w \in bindings' <=> w \in bindings)
      BY <1>1, <1>4, <2>2
    <3> QED BY <2>1, <3>1 DEF Agrees
  <2>3. CASE w = req[i].ws /\ Owes(req[i])
    <3>1. i \in Owed(w)
      BY <2>3 DEF Owed
    <3>2. Owed(w) = {i} /\ w \notin dirs
      BY <2>1, <3>1 DEF Agrees
    <3>3. Owed(w)' = {}
      BY <1>4, <2>3, <3>2
    <3>4. w \notin bindings'
      BY <1>1, <2>3
    <3> QED BY <3>2, <3>3, <3>4 DEF Agrees
  <2>4. CASE w = req[i].ws /\ ~ Owes(req[i])
    <3>1. i \notin Owed(w)
      BY <2>4 DEF Owed
    <3>2. Owed(w)' = Owed(w)
      BY <1>4, <2>4, <3>1
    <3>3. w \in bindings' <=> w \in bindings
      BY <1>1, <2>4
    <3> QED BY <2>1, <3>2, <3>3 DEF Agrees
  <2> QED BY <2>2, <2>3, <2>4
<1> QED BY <1>5, <1>6 DEF LedgerInv

\* The agent decides a request.
LEMMA LedgerDecides ==
  ASSUME TypeOK, LedgerInv, NEW i \in DOMAIN req, NEW r, NEW w, w = req[i].ws,
         req' = [req EXCEPT ![i] = r],
         r.ws = w, r.op = req[i].op, r.told = req[i].told,
         r.op = "create" /\ r.outcome = "error" => w \in doubt,
         UNCHANGED <<bindings, online, link, current, doubt>>,
         \A v : v # w => (v \in dirs' <=> v \in dirs),
         w \notin doubt =>
           LET after == IF Owes(r) THEN Owed(w) \cup {i} ELSE Owed(w) \ {i}
           IN  /\ \A j, k \in after : j = k
               /\ after # {} => w \in bindings /\ w \notin dirs'
               /\ after = {} => /\ w \in bindings => w \in dirs'
                                /\ link > 0 /\ w \in dirs' => w \in bindings
  PROVE  LedgerInv'
<1>1. /\ DOMAIN req' = DOMAIN req /\ req'[i] = r
      /\ \A j \in DOMAIN req \ {i} : req'[j] = req[j]
      /\ \A v : Owed(v)' = IF v # req[i].ws THEN Owed(v)
                           ELSE IF Owes(r) THEN Owed(v) \cup {i}
                           ELSE Owed(v) \ {i}
  BY OwedAfterUpdate
<1>2. ASSUME NEW j \in DOMAIN req' PROVE Accounted(j)'
  <2>1. Accounted(j)
    BY <1>1 DEF LedgerInv
  <2>2. CASE j = i
    BY <1>1, <2>1, <2>2 DEF Accounted
  <2>3. CASE j # i
    <3>1. req'[j] = req[j]
      BY <1>1, <2>3
    <3> QED BY <2>1, <3>1 DEF Accounted
  <2> QED BY <2>2, <2>3
<1>3. ASSUME NEW v \in Workspaces \ doubt' PROVE Agrees(v)'
  <2>1. Agrees(v)
    BY DEF LedgerInv
  <2>2. CASE v # w
    <3>1. Owed(v)' = Owed(v) /\ (v \in dirs' <=> v \in dirs)
      BY <1>1, <2>2
    <3> QED BY <2>1, <3>1 DEF Agrees
  <2>3. CASE v = w
    <3>1. Owed(v)' = IF Owes(r) THEN Owed(w) \cup {i} ELSE Owed(w) \ {i}
      BY <1>1, <2>3
    <3> QED BY <2>3, <3>1 DEF Agrees
  <2> QED BY <2>2, <2>3
<1> QED BY <1>2, <1>3 DEF LedgerInv


\* What the agent's answer is about, before the agent has gone about it
LEMMA UndecidedRequest ==
  ASSUME TypeOK, RequestInv, LedgerInv, NEW i \in DOMAIN req,
         req[i].step \in {"sent", "killed", "retired"},
         req[i].op \in {"create", "delete", "reset"}
  PROVE  /\ req[i] \in Request /\ req[i].outcome = "no"
         /\ req[i].told \in {"pending", "unknown"}
         /\ req[i].ws \notin doubt /\ req[i].op # "reset" =>
              req[i].told = "pending" /\ link > 0 /\ Agrees(req[i].ws)
<1>1. req[i] \in Request /\ RequestOK(req[i]) /\ Accounted(i)
  BY DEF TypeOK, RequestInv, LedgerInv
<1>2. req[i].outcome = "no" /\ req[i].told \in {"pending", "unknown"}
  BY <1>1 DEF RequestOK
<1>3. req[i].ws \in Workspaces
  BY <1>1 DEF Request
<1> QED BY <1>1, <1>2, <1>3 DEF Accounted, LedgerInv

\* The clients and the hub: a handler that ends leaves the catalog right or a
\* doubt.
LEMMA LedgerHub ==
  ASSUME TypeOK, RequestInv, LedgerInv, NEW c \in Clients, HubStep(c)
  PROVE  LedgerInv'
<1> USE DEF linkVars, tokenVars, ghostVars
<1>0. stage[c] # "menu"
  BY DEF HubStep, SendRequest, SendFails, Answered, GivenUp, DropBinding,
     OpenSession, OpenRefused
<1>1. PICK i \in DOMAIN req : i = current[c]
  BY <1>0, CurrentIsRequest
<1>2. /\ Current(c) = req[i] /\ req[i] \in Request /\ RequestOK(req[i])
      /\ HandlerOK(c) /\ Accounted(i)
  BY <1>1 DEF Current, TypeOK, RequestInv, LedgerInv
<1>3. CASE SendRequest(c)
  <2>1. PICK r : r = [req[i] EXCEPT !.step = "sent"]
    OBVIOUS
  <2>2. Alike(r, req[i])
    BY <1>2, <2>1 DEF Alike, Request
  <2>3. req' = [req EXCEPT ![i] = r]
    BY <1>1, <1>3, <2>1 DEF SendRequest
  <2>4. DOMAIN req' = DOMAIN req /\ \A j \in DOMAIN req : Alike(req'[j], req[j])
    BY <2>2, <2>3 DEF Alike
  <2> QED BY <1>3, <2>4, LedgerKept DEF SendRequest
<1>4. CASE OpenSession(c)
  <2>1. PICK r : r = [req[i] EXCEPT !.step = "sent", !.link = link]
    OBVIOUS
  <2>2. Alike(r, req[i])
    BY <1>2, <2>1 DEF Alike, Request
  <2>3. req' = [req EXCEPT ![i] = r] /\ current' = [current EXCEPT ![c] = 0]
    BY <1>1, <1>4, <2>1 DEF OpenSession
  <2>4. DOMAIN req' = DOMAIN req /\ \A j \in DOMAIN req : Alike(req'[j], req[j])
    BY <2>2, <2>3 DEF Alike
  <2>5. req[i].told = "none"
    BY <1>2, <1>4 DEF OpenSession, HandlerOK, RequestOK
  <2>6. \A j \in DOMAIN req : req[j].told = "pending" =>
          \A d \in Clients : current[d] = j => current'[d] = j
    BY <1>1, <2>3, <2>5 DEF TypeOK
  <2> QED BY <1>4, <2>4, <2>6, LedgerKept DEF OpenSession
<1>5. CASE SendFails(c)
  <2>1. /\ Finish(c, "refused") /\ UNCHANGED <<online, link, dirs, doubt>>
        /\ bindings' = RolledBack(req[i])
    BY <1>2, <1>5 DEF SendFails
  <2>2. req[i].told = "pending" /\ req[i].outcome = "no"
    BY <1>2, <1>5 DEF SendFails, HandlerOK, RequestOK
  <2>3. Owes(req[i]) <=> req[i].op = "create"
    BY <2>2 DEF Owes
  <2>4. /\ \A w \in Workspaces : w # req[i].ws => (w \in bindings' <=> w \in bindings)
        /\ IF Owes(req[i]) THEN req[i].ws \notin bindings'
           ELSE req[i].ws \in bindings' <=> req[i].ws \in bindings
    BY <2>1, <2>3 DEF RolledBack
  <2> QED BY <1>0, <1>2, <2>1, <2>4, LedgerFinishes
<1>6. CASE Answered(c)
  <2>1. PICK v \in {"ok", "error"} : v = req[i].answer
    BY <1>2, <1>6 DEF Answered, Request
  <2>2. /\ Finish(c, v) /\ UNCHANGED <<online, link, dirs, doubt>>
        /\ bindings' = CASE req[i].op = "create" /\ v = "error" -> RolledBack(req[i])
                         [] req[i].op = "delete" /\ v = "ok" -> bindings \ {req[i].ws}
                         [] OTHER -> bindings
    BY <1>2, <1>6, <2>1 DEF Answered
  <2>3. req[i].told = "pending" /\ req[i].outcome = v
    BY <1>2, <2>1 DEF RequestOK
  <2>4. Owes(req[i]) <=> req[i].op = "delete" /\ v = "ok"
    BY <2>3 DEF Owes
  <2>5. req[i].op = "create" /\ v = "error" => req[i].ws \in doubt
    BY <1>2, <2>3 DEF Accounted
  <2>6. /\ \A w \in Workspaces : w # req[i].ws => (w \in bindings' <=> w \in bindings)
        /\ req[i].ws \notin doubt =>
             IF Owes(req[i]) THEN req[i].ws \notin bindings'
             ELSE req[i].ws \in bindings' <=> req[i].ws \in bindings
    BY <2>2, <2>4, <2>5 DEF RolledBack
  <2> QED BY <1>0, <1>2, <2>2, <2>6, LedgerFinishes
<1>7. CASE GivenUp(c)
  <2>1. /\ Finish(c, "unknown") /\ UNCHANGED <<online, link, dirs>>
        /\ bindings' = RolledBack(req[i])
        /\ doubt' = IF req[i].op = "reset" THEN doubt ELSE doubt \cup {req[i].ws}
    BY <1>2, <1>7 DEF GivenUp
  <2>2. \A w \in Workspaces : w # req[i].ws => (w \in bindings' <=> w \in bindings)
    BY <2>1 DEF RolledBack
  <2>3. req[i].op = "reset" => bindings' = bindings /\ ~ Owes(req[i])
    BY <2>1 DEF RolledBack, Owes
  <2>4. /\ doubt \subseteq doubt'
        /\ req[i].op # "reset" => req[i].ws \in doubt'
    BY <2>1
  <2> QED BY <1>0, <1>2, <2>1, <2>2, <2>3, <2>4, LedgerFinishes
<1>8. CASE DropBinding(c)
  <2>1. /\ Finish(c, "none") /\ UNCHANGED <<online, link, dirs>>
        /\ bindings' = bindings \ {req[i].ws} /\ doubt' = doubt \cup {req[i].ws}
    BY <1>2, <1>8 DEF DropBinding
  <2> QED BY <1>0, <1>2, <2>1, LedgerFinishes
<1>9. CASE OpenRefused(c)
  <2>1. Finish(c, "none") /\ UNCHANGED <<bindings, online, link, dirs, doubt>>
    BY <1>9 DEF OpenRefused
  <2>2. ~ Owes(req[i])
    BY <1>2, <1>9 DEF OpenRefused, HandlerOK, Owes
  <2> QED BY <1>0, <1>2, <2>1, <2>2, LedgerFinishes
<1> QED BY <1>3, <1>4, <1>5, <1>6, <1>7, <1>8, <1>9 DEF HubStep

\* What a client or an administrator asks for starts a handler.
LEMMA LedgerClient ==
  ASSUME TypeOK, LedgerInv, NEW c \in Clients, ClientStep(c)
  PROVE  LedgerInv'
<1> USE DEF linkVars, tokenVars, ghostVars, Ops
<1>1. ASSUME NEW w \in Workspaces, CreateWorkspace(c, w) PROVE LedgerInv'
  BY <1>1, LedgerBegins DEF CreateWorkspace
<1>2. ASSUME NEW w \in Workspaces, NEW op \in {"delete", "reset"}, CheckOp(c, op, w)
      PROVE  LedgerInv'
  BY <1>2, LedgerBegins DEF CheckOp
<1>3. ASSUME NEW w \in Workspaces, CheckOfflineDelete(c, w) PROVE LedgerInv'
  BY <1>3, LedgerBegins DEF CheckOfflineDelete
<1>4. ASSUME NEW w \in Workspaces, AdminDelete(c, w) PROVE LedgerInv'
  <2>1. CASE online
    BY <1>4, <2>1, LedgerBegins DEF AdminDelete
  <2>2. CASE ~ online
    BY <1>4, <2>2, LedgerBegins DEF AdminDelete
  <2> QED BY <2>1, <2>2
<1>5. ASSUME NEW w \in Workspaces, LookForOpen(c, w) PROVE LedgerInv'
  BY <1>5, LedgerBegins DEF LookForOpen
<1>6. ASSUME NEW w \in Workspaces, LeaveSession(c, w) PROVE LedgerInv'
  BY <1>6, LedgerKept DEF LeaveSession, Alike
<1> QED BY <1>1, <1>2, <1>3, <1>4, <1>5, <1>6 DEF ClientStep

\* The agent: what it decides of a request nobody doubts is what is owed.
LEMMA LedgerAgent ==
  ASSUME TypeOK, RequestInv, LedgerInv, NEW i \in DOMAIN req, AgentStep(i)
  PROVE  LedgerInv'
<1> USE DEF linkVars, tokenVars, ghostVars
<1>0. req[i] \in Request
  BY DEF TypeOK
<1>1. PICK w : w = req[i].ws
  OBVIOUS
<1>2. ASSUME NEW r, Alike(r, req[i]), req' = [req EXCEPT ![i] = r],
             UNCHANGED <<bindings, online, link, current>>, doubt \subseteq doubt',
             \A v \in Workspaces \ doubt' : v \in dirs' <=> v \in dirs
      PROVE  LedgerInv'
  <2>1. DOMAIN req' = DOMAIN req /\ \A j \in DOMAIN req : Alike(req'[j], req[j])
    BY <1>2 DEF Alike
  <2> QED BY <1>2, <2>1, LedgerKept
<1>3. ASSUME NEW o \in {"ok", "error"}, Done(i, o)
      PROVE  \E r : /\ req' = [req EXCEPT ![i] = r]
                    /\ r.ws = w /\ r.op = req[i].op /\ r.told = req[i].told
                    /\ r.outcome = o
  <2>1. PICK r : r = [req[i] EXCEPT !.step = "done", !.outcome = o]
    OBVIOUS
  <2>2. r.ws = w /\ r.op = req[i].op /\ r.told = req[i].told /\ r.outcome = o
    BY <1>0, <1>1, <2>1 DEF Request
  <2>3. req' = [req EXCEPT ![i] = r]
    BY <1>3, <2>1 DEF Done
  <2> QED BY <2>2, <2>3
<1>4. ASSUME NEW s \in {"killed", "retired", "gone"},
             req' = [req EXCEPT ![i] = [@ EXCEPT !.step = s]]
      PROVE  \E r : req' = [req EXCEPT ![i] = r] /\ Alike(r, req[i])
  <2>1. PICK r : r = [req[i] EXCEPT !.step = s]
    OBVIOUS
  <2>2. Alike(r, req[i])
    BY <1>0, <2>1 DEF Alike, Request
  <2> QED BY <1>4, <2>1, <2>2
<1>5. ASSUME At(i, {"create", "delete", "reset"}, req[i].step),
             req[i].step \in {"sent", "killed", "retired"}
      PROVE  /\ req[i].outcome = "no" /\ req[i].told \in {"pending", "unknown"}
             /\ w \notin doubt /\ req[i].op # "reset" =>
                  req[i].told = "pending" /\ link > 0 /\ Agrees(w)
  BY <1>1, <1>5, UndecidedRequest DEF At
<1>6. CASE AgentCreates(i)
  <2>1. PICK o \in {"ok", "error"} :
          /\ o = IF w \in dirs THEN "error" ELSE "ok"
          /\ Done(i, o)
    BY <1>1, <1>6 DEF AgentCreates
  <2>2. PICK r : /\ req' = [req EXCEPT ![i] = r]
                 /\ r.ws = w /\ r.op = req[i].op /\ r.told = req[i].told
                 /\ r.outcome = o
    BY <1>3, <2>1
  <2>3. /\ req[i].op = "create" /\ dirs' = dirs \cup {w}
        /\ UNCHANGED <<bindings, online, link, current, doubt>>
    BY <1>1, <1>6 DEF AgentCreates, At
  <2>4. ~ Owes(r)
    BY <2>2, <2>3, <2>1 DEF Owes
  <2>5. w \notin doubt => Owed(w) = {i} /\ w \in bindings /\ w \notin dirs
    <3>1. req[i].outcome = "no" /\ (w \notin doubt => req[i].told = "pending" /\ Agrees(w))
      BY <1>5, <1>6, <2>3 DEF AgentCreates, At
    <3>2. w \notin doubt => i \in Owed(w)
      BY <1>1, <2>3, <3>1 DEF Owed, Owes
    <3> QED BY <3>1, <3>2 DEF Agrees
  <2>6. r.op = "create" /\ r.outcome = "error" => w \in doubt
    BY <2>1, <2>2, <2>5
  <2>7. w \notin doubt => Owed(w) \ {i} = {} /\ w \in bindings /\ w \in dirs'
    BY <2>3, <2>5
  <2>8. \A v : v # w => (v \in dirs' <=> v \in dirs)
    BY <2>3
  <2> QED BY <1>1, <2>2, <2>3, <2>4, <2>6, <2>7, <2>8, LedgerDecides
<1>7. ASSUME NEW o \in {"ok", "error"}, Done(i, o), req[i].op \in {"delete", "reset"},
             req[i].op = "delete" => o = "error",
             req[i].outcome = "no",
             UNCHANGED <<bindings, online, link, current, doubt, dirs>>,
             w \notin doubt => Agrees(w)
      PROVE  LedgerInv'
  <2>1. PICK r : /\ req' = [req EXCEPT ![i] = r]
                 /\ r.ws = w /\ r.op = req[i].op /\ r.told = req[i].told
                 /\ r.outcome = o
    BY <1>3, <1>7
  <2>2. ~ Owes(r) /\ i \notin Owed(w)
    BY <1>7, <2>1 DEF Owes, Owed
  <2>3. Owed(w) \ {i} = Owed(w)
    BY <2>2
  <2>4. w \notin doubt =>
          /\ \A j, k \in Owed(w) \ {i} : j = k
          /\ Owed(w) \ {i} # {} => w \in bindings /\ w \notin dirs'
          /\ Owed(w) \ {i} = {} => /\ w \in bindings => w \in dirs'
                                   /\ link > 0 /\ w \in dirs' => w \in bindings
    BY <1>7, <2>3 DEF Agrees
  <2>5. /\ UNCHANGED <<bindings, online, link, current, doubt>>
        /\ \A v : v # w => (v \in dirs' <=> v \in dirs)
    BY <1>7
  <2>6. r.op = "create" /\ r.outcome = "error" => w \in doubt
    BY <1>7, <2>1
  <2>7. w \notin doubt =>
          LET after == IF Owes(r) THEN Owed(w) \cup {i} ELSE Owed(w) \ {i}
          IN  /\ \A j, k \in after : j = k
              /\ after # {} => w \in bindings /\ w \notin dirs'
              /\ after = {} => /\ w \in bindings => w \in dirs'
                               /\ link > 0 /\ w \in dirs' => w \in bindings
    BY <2>2, <2>4
  <2> QED BY <1>1, <2>1, <2>5, <2>6, <2>7, LedgerDecides
<1>8. w \notin doubt => Agrees(w)
  BY <1>0, <1>1 DEF Request, LedgerInv
<1>9. CASE AgentFindsNone(i)
  <2>1. /\ Done(i, "error") /\ req[i].op \in {"delete", "reset"}
        /\ req[i].step = "sent"
        /\ UNCHANGED <<bindings, online, link, current, doubt, dirs>>
    BY <1>9 DEF AgentFindsNone, At
  <2>2. req[i].outcome = "no"
    BY <1>5, <2>1 DEF At
  <2> QED BY <1>7, <1>8, <2>1, <2>2
<1>10. CASE AgentKills(i)
  <2>1. PICK r : req' = [req EXCEPT ![i] = r] /\ Alike(r, req[i])
    BY <1>4, <1>10 DEF AgentKills
  <2> QED BY <1>2, <1>10, <2>1 DEF AgentKills
<1>11. CASE AgentRetires(i)
  <2>1. /\ req[i].op \in {"delete", "reset"} /\ req[i].step = "killed"
        /\ UNCHANGED <<bindings, online, link, current, doubt, dirs>>
    BY <1>11 DEF AgentRetires, At
  <2>2. CASE req[i].op = "reset" /\ Done(i, "ok")
    <3>1. req[i].outcome = "no"
      BY <1>5, <2>1 DEF At
    <3> QED BY <1>7, <1>8, <2>1, <2>2, <3>1
  <2>3. CASE req' = [req EXCEPT ![i] = [@ EXCEPT !.step = "retired"]]
    <3>1. PICK r : req' = [req EXCEPT ![i] = r] /\ Alike(r, req[i])
      BY <1>4, <2>3
    <3> QED BY <1>2, <2>1, <3>1
  <2> QED BY <1>11, <2>2, <2>3 DEF AgentRetires
<1>12. CASE AgentReplies(i)
  <2>1. PICK r : r = [req[i] EXCEPT !.step = "gone", !.answer = Delivered(i)]
    OBVIOUS
  <2>2. Alike(r, req[i])
    BY <1>0, <2>1 DEF Alike, Request
  <2>3. req' = [req EXCEPT ![i] = r]
    BY <1>12, <2>1 DEF AgentReplies
  <2> QED BY <1>2, <1>12, <2>2, <2>3 DEF AgentReplies
<1>13. CASE AgentOpens(i)
  <2>1. PICK r : req' = [req EXCEPT ![i] = r] /\ Alike(r, req[i])
    BY <1>4, <1>13 DEF AgentOpens
  <2>2. /\ dirs' = dirs \cup {w}
        /\ doubt' = IF w \in dirs THEN doubt ELSE doubt \cup {w}
        /\ UNCHANGED <<bindings, online, link, current>>
    BY <1>1, <1>13 DEF AgentOpens
  <2>3. doubt \subseteq doubt' /\ \A v \in Workspaces \ doubt' : v \in dirs' <=> v \in dirs
    BY <2>2
  <2> QED BY <1>2, <2>1, <2>2, <2>3
<1>14. CASE AgentRemoves(i)
  <2>1. PICK o \in {"ok", "error"} :
          /\ o = IF w \in dirs THEN "ok" ELSE "error"
          /\ Done(i, o)
    BY <1>1, <1>14 DEF AgentRemoves
  <2>2. PICK r : /\ req' = [req EXCEPT ![i] = r]
                 /\ r.ws = w /\ r.op = req[i].op /\ r.told = req[i].told
                 /\ r.outcome = o
    BY <1>3, <2>1
  <2>3. /\ req[i].op = "delete" /\ req[i].step = "retired" /\ dirs' = dirs \ {w}
        /\ UNCHANGED <<bindings, online, link, current, doubt>>
    BY <1>1, <1>14 DEF AgentRemoves, At
  <2>4. /\ req[i].outcome = "no" /\ i \notin Owed(w)
        /\ w \notin doubt => req[i].told = "pending" /\ link > 0
    BY <1>5, <2>3 DEF At, Owed, Owes
  <2>5. \A v : v # w => (v \in dirs' <=> v \in dirs)
    BY <2>3
  <2>6. CASE w \in dirs
    <3>1. w \notin doubt => Owed(w) = {} /\ w \in bindings /\ w \notin dirs' /\ Owes(r)
      BY <1>8, <2>1, <2>2, <2>3, <2>4, <2>6 DEF Agrees, Owes
    <3>2. w \notin doubt => Owed(w) \cup {i} = {i}
      BY <3>1
    <3> QED BY <1>1, <2>2, <2>3, <2>5, <3>1, <3>2, LedgerDecides
  <2>7. CASE w \notin dirs
    <3>1. UNCHANGED dirs
      BY <2>3, <2>7
    <3> QED BY <1>7, <1>8, <2>1, <2>3, <2>4, <2>7, <3>1
  <2> QED BY <2>6, <2>7
<1> QED
  BY <1>6, <1>9, <1>10, <1>11, <1>12, <1>13, <1>14 DEF AgentStep

\* The ledger is inductive.
LEMMA LedgerStep == TypeOK /\ RequestInv /\ LedgerInv /\ [Next]_vars => LedgerInv'
<1> SUFFICES ASSUME TypeOK, RequestInv, LedgerInv, [Next]_vars PROVE LedgerInv'
  OBVIOUS
<1> USE DEF hubVars, linkVars, tokenVars, ghostVars
<1>1. CASE UNCHANGED vars
  BY <1>1 DEF vars, LedgerInv, Accounted, Agrees, Owed, Owes
<1>2. CASE LinkBreaks \/ AgentCrashes
  <2>1. /\ DOMAIN req' = DOMAIN req
        /\ \A i \in DOMAIN req : \/ req'[i] = req[i]
                                 \/ req'[i] = [req[i] EXCEPT !.step = "gone"]
        /\ UNCHANGED <<bindings, link, dirs, current, doubt>> /\ ~ online'
    BY <1>2 DEF LinkBreaks, AgentCrashes
  <2>2. ASSUME NEW i \in DOMAIN req PROVE Alike(req'[i], req[i])
    <3>1. req[i] \in Request
      BY DEF TypeOK
    <3>2. Alike([req[i] EXCEPT !.step = "gone"], req[i])
      BY <3>1 DEF Alike, Request
    <3> QED BY <2>1, <3>2 DEF Alike
  <2> QED BY <2>1, <2>2, LedgerKept
<1>3. CASE AgentHello
  <2>1. /\ UNCHANGED <<req, dirs, current, doubt>>
        /\ bindings' = bindings \cup dirs /\ link' > 0
    BY <1>3 DEF AgentHello, TypeOK
  <2>2. \A w : Owed(w)' = Owed(w)
    BY <2>1 DEF Owed, Owes
  <2>3. \A i \in DOMAIN req : Accounted(i)'
    BY <2>1 DEF LedgerInv, Accounted
  <2>4. \A w \in Workspaces \ doubt : Agrees(w)'
    BY <2>1, <2>2 DEF LedgerInv, Agrees
  <2> QED BY <2>1, <2>3, <2>4 DEF LedgerInv
<1>4. ASSUME NEW w \in Workspaces, ToolEnds(w) PROVE LedgerInv'
  BY <1>4, LedgerKept DEF ToolEnds, Alike
<1> QED
  BY <1>1, <1>2, <1>3, <1>4, LedgerHub, LedgerClient, LedgerAgent DEF Next

\* Whoever owes is at work, so a settled workspace has row and directory or
\* neither.
LEMMA LedgerSettles == TypeOK /\ LedgerInv => CatalogAgrees
<1> SUFFICES ASSUME TypeOK, LedgerInv, NEW w \in Workspaces \ doubt,
                    Settled(w), link > 0
             PROVE  w \in bindings <=> w \in dirs
  BY DEF CatalogAgrees
<1>1. Owed(w) = {}
  <2> SUFFICES ASSUME NEW i \in Owed(w) PROVE FALSE
    OBVIOUS
  <2>1. i \in DOMAIN req /\ req[i].ws = w /\ req[i].told = "pending"
    BY DEF Owed, Owes
  <2>2. PICK c \in Clients : current[c] = i
    BY <2>1 DEF LedgerInv, Accounted
  <2>3. stage[c] # "menu"
    BY <2>1, <2>2 DEF TypeOK
  <2> QED BY <2>1, <2>2, <2>3 DEF Settled, Current
<1> QED BY <1>1 DEF LedgerInv, Agrees

\* The catalog is true of every workspace that nobody works on and nobody has
\* left in doubt.
THEOREM CatalogIsTrue == Spec => []CatalogAgrees
<1>1. Init => RequestInv /\ LedgerInv
  <2> SUFFICES ASSUME Init PROVE RequestInv /\ LedgerInv
    OBVIOUS
  <2>1. DOMAIN req = {}
    BY DEF Init
  <2>2. \A w : Owed(w) = {}
    BY <2>1 DEF Owed
  <2> QED BY <2>1, <2>2 DEF Init, RequestInv, HandlerOK, LedgerInv, Agrees
<1>2. TypeOK /\ RequestInv /\ [Next]_vars => RequestInv'
  BY RequestStep
<1>3. TypeOK /\ RequestInv /\ LedgerInv /\ [Next]_vars => LedgerInv'
  BY LedgerStep
<1>4. TypeOK /\ LedgerInv => CatalogAgrees
  BY LedgerSettles
<1>5. Spec => []TypeOK
  BY TypeCorrect
<1> QED BY <1>1, <1>2, <1>3, <1>4, <1>5, PTL DEF Spec
=============================================================================
