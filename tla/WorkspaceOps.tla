---------------------------- MODULE WorkspaceOps ----------------------------
(***************************************************************************)
(* A workspace's life: the hub's catalog of workspaces (table workspaces   *)
(* of hub/db.rs), the directories on the agent, and the requests that      *)
(* create, delete and reset them (hub/pty_session.rs, agent/pty.rs), with  *)
(* the sessions that may be opened meanwhile and the tool a session leaves *)
(* running in tmux.                                                        *)
(*                                                                         *)
(* One account and one agent: they are part of every key and never change. *)
(* A request carries an id no other has (Uuid::new_v4): a counter.  So do  *)
(* MCP tokens.                                                             *)
(***************************************************************************)
EXTENDS Naturals

CONSTANTS
  Clients, Workspaces, None,
  MaxReq,    \* bound: requests and opens in a behaviour
  MaxLink    \* bound: connections of the agent

Ids     == 1 .. MaxReq
NoToken == 0
Tokens  == Nat \ {NoToken}

ASSUME BoundsAssumption ==
  MaxReq \in Nat \ {0} /\ MaxLink \in Nat \ {0} /\ None \notin Clients

VARIABLES
  \* hub
  bindings,   \* the catalog: workspaces with a row in table workspaces
  holder,     \* AppState.workspaces: workspace -> the client in it
  stage,      \* client -> where the handler of its current request stands
  current,    \* client -> id of that request
  nextReq,
  req,        \* id -> the request: its way to the agent and back
  \* the agent's connection
  online,     \* the registry has a connection of the agent
  link,       \* number of its latest connection
  \* agent
  dirs,       \* workspaces with a directory under workspace_root
  tmux,       \* workspace -> token of the tool in its tmux server
  tokenOf,    \* PtyManager.workspace_tokens
  saved,      \* workspace -> token in its .cloudcode/mcp-remote.json
  nextToken,
  \* history
  doubt,      \* workspaces touched by an event the catalog cannot follow
  raced       \* workspaces removed by a delete that an open had overtaken

hubVars   == <<bindings, holder, stage, current, nextReq, req>>
linkVars  == <<online, link>>
tokenVars == <<tmux, tokenOf, saved, nextToken>>
ghostVars == <<doubt, raced>>
vars == <<hubVars, linkVars, dirs, tokenVars, ghostVars>>

Ops == {"create", "delete", "reset", "drop", "open"}
Request == [op : Ops, ws : Workspaces, link : 0 .. MaxLink,
            step : {"hub", "sent", "killed", "retired", "done", "gone"},
            outcome : {"no", "ok", "error"},
            answer : {"no", "ok", "error"},
            told : {"none", "pending", "ok", "error", "refused", "unknown"}]

TypeOK ==
  /\ bindings \subseteq Workspaces /\ dirs \subseteq Workspaces
  /\ holder \in [Workspaces -> Clients \cup {None}]
  /\ stage \in [Clients ->
       {"menu", "looked", "bound", "checked", "dropping", "waiting"}]
  /\ current \in [Clients -> 0 .. MaxReq]
  /\ nextReq \in 1 .. MaxReq + 1
  /\ req \in [1 .. nextReq - 1 -> Request]
  /\ online \in BOOLEAN /\ link \in 0 .. MaxLink
  /\ tmux \in [Workspaces -> Nat]
  /\ tokenOf \in [Workspaces -> Nat]
  /\ saved \in [Workspaces -> Nat]
  /\ nextToken \in Tokens
  /\ doubt \subseteq Workspaces /\ raced \subseteq Workspaces
  /\ \A c \in Clients : stage[c] = "menu" <=> current[c] = 0
  /\ \A c \in Clients : current[c] < nextReq

\* An agent that has workspaces on disk and is about to say Hello to a hub
\* that knows nothing of them, or of the same ones.
Init ==
  /\ dirs \in SUBSET Workspaces
  /\ bindings \in {{}, dirs}
  /\ holder = [w \in Workspaces |-> None]
  /\ stage = [c \in Clients |-> "menu"]
  /\ current = [c \in Clients |-> 0]
  /\ nextReq = 1 /\ req = <<>>
  /\ online = FALSE /\ link = 0
  /\ tmux = [w \in Workspaces |-> NoToken]
  /\ tokenOf = [w \in Workspaces |-> NoToken]
  /\ saved = [w \in Workspaces |-> NoToken]
  /\ nextToken = 1
  /\ doubt = {} /\ raced = {}

-----------------------------------------------------------------------------
(* Hub: the handlers of CreateWorkspace, DeleteWorkspace, ResetWorkspace    *)

Current(c) == req[current[c]]

\* A handler starts: c's loop is in it until Finish
Begin(c, op, w, at) ==
  /\ stage[c] = "menu"
  /\ nextReq <= MaxReq
  /\ nextReq' = nextReq + 1
  /\ current' = [current EXCEPT ![c] = nextReq]
  /\ stage' = [stage EXCEPT ![c] = at]
  /\ req' = [i \in 1 .. nextReq |->
       IF i < nextReq THEN req[i]
       ELSE [op |-> op, ws |-> w, link |-> link, step |-> "hub",
             outcome |-> "no", answer |-> "no",
             told |-> IF op \in {"drop", "open"} THEN "none" ELSE "pending"]]

\* ... and answers its client; the oneshot it waited on is gone
Finish(c, verdict) ==
  /\ stage' = [stage EXCEPT ![c] = "menu"]
  /\ current' = [current EXCEPT ![c] = 0]
  /\ req' = [req EXCEPT ![current[c]] =
                [@ EXCEPT !.told = verdict, !.answer = "no"]]

\* The connection a handler took from the registry still has its writer
Writable(i) == online /\ req[i].link = link

\* CreateWorkspace: record the binding (UNIQUE), then ask the agent
CreateWorkspace(c, w) ==
  /\ online
  /\ w \notin bindings
  /\ Begin(c, "create", w, "bound")
  /\ bindings' = bindings \cup {w}
  /\ UNCHANGED <<holder, linkVars, dirs, tokenVars, ghostVars>>

\* handle_workspace_op up to the send: the row exists, the workspace is not
\* in use, the agent is online
CheckOp(c, op, w) ==
  /\ w \in bindings
  /\ holder[w] = None
  /\ online
  /\ Begin(c, op, w, "checked")
  /\ UNCHANGED <<bindings, holder, linkVars, dirs, tokenVars, ghostVars>>

\* handle_workspace_op, Delete while the agent is offline: only the row goes
CheckOfflineDelete(c, w) ==
  /\ w \in bindings
  /\ holder[w] = None
  /\ ~ online
  /\ Begin(c, "drop", w, "dropping")
  /\ UNCHANGED <<bindings, holder, linkVars, dirs, tokenVars, ghostVars>>

\* workspace_delete of the admin API, in the place of a client: in use or not
\* is all it asks
AdminDelete(c, w) ==
  /\ holder[w] = None
  /\ IF online THEN Begin(c, "delete", w, "checked")
               ELSE Begin(c, "drop", w, "dropping")
  /\ UNCHANGED <<bindings, holder, linkVars, dirs, tokenVars, ghostVars>>

\* Delete without an agent: the row
DropBinding(c) ==
  /\ stage[c] = "dropping"
  /\ bindings' = bindings \ {Current(c).ws}
  /\ doubt' = doubt \cup {Current(c).ws}
  /\ Finish(c, "none")
  /\ UNCHANGED <<holder, nextReq, linkVars, dirs, tokenVars, raced>>

SendRequest(c) ==
  /\ stage[c] \in {"bound", "checked"}
  /\ Writable(current[c])
  /\ req' = [req EXCEPT ![current[c]] = [@ EXCEPT !.step = "sent"]]
  /\ stage' = [stage EXCEPT ![c] = "waiting"]
  /\ UNCHANGED <<bindings, holder, current, nextReq, linkVars, dirs, tokenVars,
                 ghostVars>>

\* The row a create left without its directory goes again
RolledBack(r) == IF r.op = "create" THEN bindings \ {r.ws} ELSE bindings

SendFails(c) ==
  /\ stage[c] \in {"bound", "checked"}
  /\ ~ Writable(current[c])
  /\ bindings' = RolledBack(Current(c))
  /\ Finish(c, "refused")
  /\ UNCHANGED <<holder, nextReq, linkVars, dirs, tokenVars, ghostVars>>

\* The agent's result came in time: a failed create is rolled back, a delete
\* that succeeded takes the row with it
Answered(c) ==
  LET r == Current(c) IN
  /\ stage[c] = "waiting"
  /\ r.answer # "no"
  /\ bindings' =
       CASE r.op = "create" /\ r.answer = "error" -> RolledBack(r)
         [] r.op = "delete" /\ r.answer = "ok"    -> bindings \ {r.ws}
         [] OTHER                                 -> bindings
  /\ Finish(c, r.answer)
  /\ UNCHANGED <<holder, nextReq, linkVars, dirs, tokenVars, ghostVars>>

\* A bug the properties must catch: a request without an answer is sent again
GivenUpRetries(c) ==
  /\ stage[c] = "waiting"
  /\ Current(c).answer = "no" /\ Writable(current[c])
  /\ req' = [req EXCEPT ![current[c]] = [@ EXCEPT !.step = "sent"]]
  /\ UNCHANGED <<bindings, holder, stage, current, nextReq, linkVars, dirs,
                 tokenVars, ghostVars>>

\* WORKSPACE_REQUEST_TIMEOUT, or the connection went and its oneshots with it
GivenUp(c) ==
  LET r == Current(c) IN
  /\ stage[c] = "waiting"
  /\ r.answer = "no"
  /\ bindings' = RolledBack(r)
  /\ doubt' = IF r.op = "reset" THEN doubt ELSE doubt \cup {r.ws}
  /\ Finish(c, "unknown")
  /\ UNCHANGED <<holder, nextReq, linkVars, dirs, tokenVars, raced>>

-----------------------------------------------------------------------------
(* Hub: sessions, as far as workspaces are concerned                        *)

\* OpenSession: the row exists; what follows awaits the database again
LookForOpen(c, w) ==
  /\ w \in bindings
  /\ \A v \in Workspaces : holder[v] # c
  /\ Begin(c, "open", w, "looked")
  /\ UNCHANGED <<bindings, holder, linkVars, dirs, tokenVars, ghostVars>>

\* OpenSession: take the workspace from whoever has it and send PtyOpen
OpenSession(c) ==
  /\ stage[c] = "looked"
  /\ online
  /\ holder' = [holder EXCEPT ![Current(c).ws] = c]
  /\ req' = [req EXCEPT ![current[c]] =
                [@ EXCEPT !.step = "sent", !.link = link]]
  /\ stage' = [stage EXCEPT ![c] = "menu"]
  /\ current' = [current EXCEPT ![c] = 0]
  /\ UNCHANGED <<bindings, nextReq, linkVars, dirs, tokenVars, ghostVars>>

OpenRefused(c) ==
  /\ stage[c] = "looked"
  /\ ~ online
  /\ Finish(c, "none")
  /\ UNCHANGED <<bindings, holder, nextReq, linkVars, dirs, tokenVars,
                 ghostVars>>

\* The session ends, in any of the ways of PtySession
LeaveSession(c, w) ==
  /\ stage[c] = "menu"
  /\ holder[w] = c
  /\ holder' = [holder EXCEPT ![w] = None]
  /\ UNCHANGED <<bindings, stage, current, nextReq, req, linkVars, dirs,
                 tokenVars, ghostVars>>

-----------------------------------------------------------------------------
(* The agent's connection and process                                       *)

\* What has arrived is in a task of its own and goes on; the rest is lost
LinkBreaks ==
  /\ online
  /\ online' = FALSE
  /\ \E lost \in SUBSET {i \in DOMAIN req : req[i].step = "sent"} :
       req' = [i \in DOMAIN req |->
                 IF i \in lost THEN [req[i] EXCEPT !.step = "gone"] ELSE req[i]]
  /\ UNCHANGED <<bindings, holder, stage, current, nextReq, link, dirs,
                 tokenVars, ghostVars>>

\* The agent's process ends, its tasks and tables with it.  tmux servers are
\* processes of their own.
AgentCrashes ==
  /\ online' = FALSE
  /\ link < MaxLink
  /\ req' = [i \in DOMAIN req |->
       IF req[i].step = "hub" THEN req[i] ELSE [req[i] EXCEPT !.step = "gone"]]
  /\ tokenOf' = [w \in Workspaces |-> NoToken]
  /\ UNCHANGED <<bindings, holder, stage, current, nextReq, link, dirs, tmux,
                 saved, nextToken, ghostVars>>

\* A bug the properties must catch: what Hello reports replaces the catalog
AgentHelloReplaces ==
  /\ ~ online
  /\ link < MaxLink
  /\ online' = TRUE
  /\ link' = link + 1
  /\ bindings' = dirs
  /\ UNCHANGED <<holder, stage, current, nextReq, req, dirs, tokenVars,
                 ghostVars>>

\* Hello: every directory the agent reports is upserted into the catalog
AgentHello ==
  /\ ~ online
  /\ link < MaxLink
  /\ online' = TRUE
  /\ link' = link + 1
  /\ bindings' = bindings \cup dirs
  /\ UNCHANGED <<holder, stage, current, nextReq, req, dirs, tokenVars,
                 ghostVars>>

-----------------------------------------------------------------------------
(* Agent: one task per request                                              *)

At(i, ops, step) == req[i].op \in ops /\ req[i].step = step

Done(i, outcome) ==
  req' = [req EXCEPT ![i] = [@ EXCEPT !.step = "done", !.outcome = outcome]]

\* workspace_create
AgentCreates(i) ==
  LET w == req[i].ws IN
  /\ At(i, {"create"}, "sent")
  /\ Done(i, IF w \in dirs THEN "error" ELSE "ok")
  /\ dirs' = dirs \cup {w}
  /\ UNCHANGED <<bindings, holder, stage, current, nextReq, linkVars,
                 tokenVars, ghostVars>>

\* workspace_delete, workspace_reset: no directory
AgentFindsNone(i) ==
  /\ At(i, {"delete", "reset"}, "sent")
  /\ req[i].ws \notin dirs
  /\ Done(i, "error")
  /\ UNCHANGED <<bindings, holder, stage, current, nextReq, linkVars, dirs,
                 tokenVars, ghostVars>>

\* workspace_delete, workspace_reset: tmux kill-server
AgentKills(i) ==
  /\ At(i, {"delete", "reset"}, "sent")
  /\ req[i].ws \in dirs
  /\ tmux' = [tmux EXCEPT ![req[i].ws] = NoToken]
  /\ req' = [req EXCEPT ![i] = [@ EXCEPT !.step = "killed"]]
  /\ UNCHANGED <<bindings, holder, stage, current, nextReq, linkVars, dirs,
                 tokenOf, saved, nextToken, ghostVars>>

\* workspace_delete, workspace_reset: withdraw the workspace's token
AgentRetires(i) ==
  LET w == req[i].ws IN
  /\ At(i, {"delete", "reset"}, "killed")
  /\ tokenOf' = [tokenOf EXCEPT ![w] = NoToken]
  /\ \/ /\ req[i].op = "reset"
        /\ Done(i, "ok")
     \/ /\ req[i].op = "delete"
        /\ req' = [req EXCEPT ![i] = [@ EXCEPT !.step = "retired"]]
  /\ UNCHANGED <<bindings, holder, stage, current, nextReq, linkVars, dirs,
                 tmux, saved, nextToken, doubt, raced>>

\* workspace_delete: remove_dir_all, the mcp-remote.json in it included
AgentRemoves(i) ==
  LET w == req[i].ws IN
  /\ At(i, {"delete"}, "retired")
  /\ Done(i, IF w \in dirs THEN "ok" ELSE "error")
  /\ dirs' = dirs \ {w}
  /\ saved' = [saved EXCEPT ![w] = NoToken]
  /\ raced' = IF tmux[w] # NoToken \/ tokenOf[w] # NoToken
              THEN raced \cup {w} ELSE raced
  /\ UNCHANGED <<bindings, holder, stage, current, nextReq, linkVars, tmux,
                 tokenOf, nextToken, doubt>>

\* The result goes out on the connection the request came on; the hub hands
\* it to the oneshot registered under its id, if somebody still waits on it
Delivered(i) == IF Writable(i) /\ req[i].told = "pending" THEN req[i].outcome
                                                          ELSE "no"
AgentReplies(i) ==
  /\ req[i].step = "done"
  /\ req' = [req EXCEPT ![i] =
                [@ EXCEPT !.step = "gone", !.answer = Delivered(i)]]
  /\ UNCHANGED <<bindings, holder, stage, current, nextReq, linkVars, dirs,
                 tokenVars, ghostVars>>

\* A bug the properties must catch: the file is not looked at
RememberedInMemory(w) == tokenOf[w]

\* The token the next open of w uses without minting one
Remembered(w) == IF tokenOf[w] # NoToken THEN tokenOf[w] ELSE saved[w]

\* open_session: make the directory, find or mint the token, write it next to
\* the workspace, and attach to the tmux server or start one with it
AgentOpens(i) ==
  LET w   == req[i].ws
      old == Remembered(w)
      tok == IF old # NoToken THEN old ELSE nextToken
  IN
  /\ At(i, {"open"}, "sent")
  /\ dirs' = dirs \cup {w}
  /\ tokenOf' = [tokenOf EXCEPT ![w] = tok]
  /\ saved' = [saved EXCEPT ![w] = tok]
  /\ tmux' = [tmux EXCEPT ![w] = IF @ = NoToken THEN tok ELSE @]
  /\ nextToken' = IF old # NoToken THEN nextToken ELSE nextToken + 1
  /\ doubt' = IF w \in dirs THEN doubt ELSE doubt \cup {w}
  /\ req' = [req EXCEPT ![i] = [@ EXCEPT !.step = "gone"]]
  /\ UNCHANGED <<bindings, holder, stage, current, nextReq, linkVars, raced>>

\* The tool ends, or the idle reaper kills its tmux server
ToolEnds(w) ==
  /\ tmux[w] # NoToken
  /\ tmux' = [tmux EXCEPT ![w] = NoToken]
  /\ UNCHANGED <<hubVars, linkVars, dirs, tokenOf, saved, nextToken, ghostVars>>

-----------------------------------------------------------------------------
HubStep(c) ==
  \/ SendRequest(c) \/ SendFails(c) \/ Answered(c) \/ GivenUp(c)
  \/ DropBinding(c) \/ OpenSession(c) \/ OpenRefused(c)

ClientStep(c) ==
  \E w \in Workspaces :
    \/ CreateWorkspace(c, w) \/ CheckOfflineDelete(c, w)
    \/ AdminDelete(c, w)
    \/ (\E op \in {"delete", "reset"} : CheckOp(c, op, w))
    \/ LookForOpen(c, w) \/ LeaveSession(c, w)

AgentStep(i) ==
  \/ AgentCreates(i) \/ AgentFindsNone(i) \/ AgentKills(i) \/ AgentRetires(i)
  \/ AgentRemoves(i) \/ AgentReplies(i) \/ AgentOpens(i)

Next ==
  \/ \E c \in Clients : HubStep(c) \/ ClientStep(c)
  \/ \E i \in DOMAIN req : AgentStep(i)
  \/ \E w \in Workspaces : ToolEnds(w)
  \/ LinkBreaks \/ AgentCrashes \/ AgentHello

Spec == Init /\ [][Next]_vars

-----------------------------------------------------------------------------
(* Properties *)

Settled(w) ==
  /\ \A c \in Clients : stage[c] # "menu" => Current(c).ws # w
  /\ \A i \in DOMAIN req :
       req[i].ws = w => req[i].step \in {"hub", "gone"}

\* Once nobody works on a workspace the catalog lists it exactly when the
\* agent has its directory, unless the hub gave up on an answer, dropped the
\* row of an offline agent, or an open made the directory.  (create inserts
\* first and rolls back, delete drops last; several clients interleave.)
CatalogAgrees ==
  \A w \in Workspaces \ doubt :
    Settled(w) /\ link > 0 => (w \in bindings <=> w \in dirs)

\* A tool that lives on in tmux holds its token in memory: the next open of
\* its workspace finds that very token, also after the agent restarted and
\* after resets and deletes that raced with opens, so its MCP calls are routed
\* to the session.  The one exception is a directory removed under the tool.
LiveToolReachable ==
  \A w \in Workspaces \ raced : tmux[w] # NoToken => Remembered(w) = tmux[w]

\* What the proof of ImplementsRequest knows of requests and handlers
RequestOK(r) ==
  /\ r.step \in {"hub", "sent", "killed", "retired"} => r.outcome = "no"
  /\ r.step \in {"sent", "killed", "retired", "done"} /\ r.op # "open"
       => r.told \in {"pending", "unknown"}
  /\ r.answer # "no" =>
       r.step = "gone" /\ r.answer = r.outcome /\ r.told = "pending"
  /\ r.op \in {"drop", "open"} => r.told = "none" /\ r.outcome = "no"
  /\ r.op = "drop" => r.step \in {"hub", "gone"}
HandlerOK(c) ==
  /\ stage[c] \in {"bound", "checked"} => Current(c).step = "hub"
  /\ stage[c] \in {"bound", "checked", "waiting"} => Current(c).told = "pending"
  /\ stage[c] = "dropping" => Current(c).op = "drop"
  /\ stage[c] = "looked" => Current(c).op = "open" /\ Current(c).step = "hub"
RequestInv ==
  /\ \A i \in DOMAIN req : RequestOK(req[i])
  /\ \A c \in Clients : HandlerOK(c)
  /\ \A c, d \in Clients : c # d /\ current[c] # 0 => current[c] # current[d]

\* What the proof of LiveToolReachable knows of tokens
TokenInv ==
  \A w \in Workspaces \ raced :
    /\ tokenOf[w] # NoToken => saved[w] = tokenOf[w]
    /\ tmux[w] # NoToken => saved[w] = tmux[w]

\* The refinement mapping: what AgentRequest sees of req
Effects  == [i \in Ids |-> IF i < nextReq THEN req[i].outcome ELSE "no"]
Verdicts == [i \in Ids |-> IF i < nextReq THEN req[i].told ELSE "none"]
Service  == INSTANCE AgentRequest WITH effect <- Effects, verdict <- Verdicts
\* A request is carried out at most once, and its client is told what the
\* agent did for this very request, that it was not sent, or that it timed out.
ImplementsRequest == Service!RequestSpec

\* "Refuse if the workspace is currently in use" (handle_workspace_op), "so the
\* admin doesn't yank a workspace out from under a live claude session"
\* (workspace_delete): no delete takes the directory of a workspace a session
\* is in.
DeleteSparesSession ==
  [][\A w \in Workspaces : w \in dirs /\ w \notin dirs' => holder[w] = None]_vars
=============================================================================
