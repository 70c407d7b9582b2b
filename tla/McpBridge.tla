----------------------------- MODULE McpBridge -----------------------------
(***************************************************************************)
(* The remote MCP bridge of one workspace: the tool on the agent posts     *)
(* JSON-RPC to the agent's proxy (agent/mcp_proxy.rs), which sends it      *)
(* through the hub to the client of the session the workspace's token is   *)
(* routed to, whose host (client/mcp_host.rs, client/relay.rs) runs the    *)
(* backend process that answers.                                           *)
(*                                                                         *)
(* Sessions are numbered in the order the agent opens them, posts in the   *)
(* order the proxy receives them.  Each connection of the tool (caller)    *)
(* numbers its own requests from 1; a notification has id 0.               *)
(***************************************************************************)
EXTENDS Naturals, Sequences, FiniteSets

CONSTANTS
  MaxSid,      \* bound: sessions of the workspace
  MaxPost,     \* bound: posts of its tools
  MaxCaller,   \* bound: connections of the tool
  ChanCap,     \* capacity of a backend's input channel
  SpawnLimit   \* MAX_CONSECUTIVE_SPAWN_FAILURES

Sids  == 1 .. MaxSid
Posts == 1 .. MaxPost
NoSid == 0
NoPost == 0

ASSUME BridgeAssumption ==
  /\ MaxSid \in Nat \ {0} /\ MaxPost \in Nat \ {0} /\ MaxCaller \in Nat
  /\ ChanCap \in Nat \ {0} /\ SpawnLimit \in Nat \ {0}

\* What an agent sends the hub about a session: posts, and how its open went
Opened   == NoPost
PtyError == MaxPost + 1

VARIABLES
  \* agent
  route,     \* McpProxy.routes: the session the token leads to, or NoSid
  attached,  \* McpProxy.attached
  pending,   \* McpProxy.pending: session -> id -> the post that waits
  post,      \* the handlers of the posts received so far
  caller,    \* the tool's connection that lives now, 0 before the first
  opening,   \* session -> how far open_session is
  closing,   \* sessions with a PtyClose not yet run
  \* links
  up,        \* session -> frames from the agent, in order
  down,      \* session -> posts whose responses are on their way back
  closed,    \* sessions with a RemoteMcpClosed on its way to the agent
  \* hub and client
  hub,       \* session -> where its connection handler stands
  host,      \* session -> the McpHost of its client and its backend
  wire,      \* session -> the first session of its client's connection
  transfers, \* posts whose response waits for its artifacts' upload
  \* history
  carried    \* posts whose response ever did

agentVars == <<route, attached, pending, post, caller, opening, closing>>
linkVars  == <<up, down, closed>>
artifacts == <<wire, transfers, carried>>
vars == <<agentVars, linkVars, hub, host, artifacts>>

Kinds == {"initialize", "initialized", "call"}
Post == [caller : 1 .. MaxCaller, id : 0 .. MaxPost, kind : Kinds,
         sess : 0 .. MaxSid,
         stage : {"routed", "checked", "waiting", "cut", "done", "gone"},
         reply : {"none", "result", "error", "fallback", "accepted"},
         of : 0 .. MaxPost]
Host == [chan : {"none", "replaying", "running", "dead"},
         first : Kinds \cup {"none"},  \* first frame the process was fed
         cache : Seq(0 .. MaxPost),    \* handshake, NoPost when synthesized
         inq : Seq(Posts),             \* its queue of frames
         taken : SUBSET Posts,         \* requests it took, not yet answered
         old : SUBSET Posts,           \* those of a process put aside alive
         fails : Nat, cooling : BOOLEAN]

NewHost == [chan |-> "none", first |-> "none", cache |-> <<>>, inq |-> <<>>,
            taken |-> {}, old |-> {}, fails |-> 0, cooling |-> FALSE]

TypeOK ==
  /\ route \in 0 .. MaxSid /\ attached \subseteq Sids
  /\ pending \in [Sids -> [Posts -> 0 .. MaxPost]]
  /\ post \in Seq(Post) /\ Len(post) <= MaxPost
  /\ caller \in 0 .. MaxCaller
  /\ opening \in [Sids -> {"no", "attached", "opened", "refused"}]
  /\ closing \subseteq Sids
  /\ up \in [Sids -> Seq(0 .. MaxPost + 1)]
  /\ down \in [Sids -> SUBSET Posts]
  /\ closed \subseteq Sids
  /\ hub \in [Sids -> {"waiting", "open", "rejected", "timeout", "left"}]
  /\ host \in [Sids -> Host]
  /\ wire \in [Sids -> Sids]
  /\ transfers \subseteq carried /\ carried \subseteq DOMAIN post
  /\ \A s \in Sids : Len(host[s].cache) <= 2 /\ Len(host[s].inq) <= ChanCap

Init ==
  /\ route = NoSid /\ attached = {}
  /\ pending = [s \in Sids |-> [i \in Posts |-> NoPost]]
  /\ post = <<>> /\ caller = 0
  /\ opening = [s \in Sids |-> "no"] /\ closing = {}
  /\ up = [s \in Sids |-> <<>>] /\ down = [s \in Sids |-> {}] /\ closed = {}
  /\ hub = [s \in Sids |-> "waiting"]
  /\ host = [s \in Sids |-> NewHost]
  /\ wire \in [Sids -> Sids]
  /\ \A s \in Sids : wire[s] <= s /\ wire[wire[s]] = wire[s]
  /\ transfers = {} /\ carried = {}

-----------------------------------------------------------------------------
(* The session underneath: the agent opens it, the hub waits for that       *)

\* A frame about s reaches the hub and finds the session's channel
HasChannel(s) == hub[s] \in {"waiting", "open"}
Upward(s, m) == IF HasChannel(s) THEN [up EXCEPT ![s] = Append(@, m)] ELSE up

\* A client's connection asks for a session when its last one is over: its
\* handler at the hub answers one frame after the other.
Asked(s) ==
  /\ opening[s] = "no"
  /\ \A r \in Sids \ {s} :
       wire[r] = wire[s] /\ opening[r] # "no" => ~HasChannel(r)

\* open_session up to notify_list_changed: the token leads to s from now on
OpenSession(s, capable) ==
  /\ Asked(s)
  /\ \A r \in 1 .. s - 1 : opening[r] # "no"
  /\ opening' = [opening EXCEPT ![s] = "attached"]
  /\ route' = s
  /\ attached' = IF capable THEN attached \cup {s} ELSE attached
  /\ UNCHANGED <<pending, post, caller, closing, linkVars, hub, host, artifacts>>

\* open_session, the rest: the PTY is open and PtyOpened sent, or a PtyError,
\* which may come before anything was registered
FinishOpen(s, how, m) ==
  /\ opening' = [opening EXCEPT ![s] = how]
  /\ up' = Upward(s, m)
  /\ UNCHANGED <<route, attached, pending, post, caller, closing, down, closed,
                 hub, host, artifacts>>
OpenCompletes(s) ==
  opening[s] = "attached" /\ FinishOpen(s, "opened", Opened)
OpenAborts(s) ==
  /\ Asked(s) \/ opening[s] = "attached"
  /\ FinishOpen(s, "refused", PtyError)

\* The hub's handler of OpenSession takes the first frame about s
FirstFrame(s) ==
  /\ hub[s] = "waiting"
  /\ up[s] # <<>>
  /\ hub' = [hub EXCEPT ![s] = CASE Head(up[s]) = Opened   -> "open"
                                 [] Head(up[s]) = PtyError -> "rejected"
                                 [] OTHER                  -> "timeout"]
  /\ up' = [up EXCEPT ![s] = IF Head(@) = Opened THEN Tail(@) ELSE <<>>]
  /\ UNCHANGED <<agentVars, down, closed, host, artifacts>>

\* OPEN_TIMEOUT; a frame still on its way then counts as sent too late
OpenTimesOut(s) ==
  /\ hub[s] = "waiting"
  /\ up[s] = <<>>
  /\ hub' = [hub EXCEPT ![s] = "timeout"]
  /\ UNCHANGED <<agentVars, linkVars, host, artifacts>>

\* The client's relay ends, its host with it, and the backend is killed
RelayEnds(s) ==
  /\ hub[s] = "open"
  /\ hub' = [hub EXCEPT ![s] = "left"]
  /\ up' = [up EXCEPT ![s] = <<>>]
  /\ host' = [host EXCEPT ![s] = NewHost]
  /\ UNCHANGED <<route, attached, pending, post, caller, opening, down, closed,
                 artifacts>>

\* The client leaves and the hub sends PtyClose; or the PTY ended, in which
\* case nobody does
ClientLeaves(s) == RelayEnds(s) /\ closing' = closing \cup {s}
PtyEnds(s)      == RelayEnds(s) /\ UNCHANGED closing

\* The agent's link is lost: every session on it ends at the hub
LinkBreaks ==
  LET lost == {s \in Sids : opening[s] # "no" /\ HasChannel(s)} IN
  /\ lost # {}
  /\ hub' = [s \in Sids |-> IF s \in lost THEN "left" ELSE hub[s]]
  /\ up' = [s \in Sids |-> <<>>] /\ down' = [s \in Sids |-> {}] /\ closed' = {}
  /\ host' = [s \in Sids |-> IF s \in lost THEN NewHost ELSE host[s]]
  /\ closing' \in SUBSET closing
  /\ UNCHANGED <<route, attached, pending, post, caller, opening, artifacts>>

-----------------------------------------------------------------------------
(* Agent: the proxy                                                         *)

Answered(r, verdict, q) == [r EXCEPT !.stage = "done", !.reply = verdict, !.of = q]

\* fail_pending: every post that waits on s gets an error
FailPending(s) ==
  /\ pending' = [pending EXCEPT ![s] = [i \in Posts |-> NoPost]]
  /\ post' = [p \in DOMAIN post |->
                IF post[p].stage = "waiting" /\ \E i \in Posts : pending[s][i] = p
                THEN Answered(post[p], "error", NoPost) ELSE post[p]]

\* PtyManager::close: detach
Detach(s) ==
  /\ s \in closing
  /\ closing' = closing \ {s}
  /\ attached' = attached \ {s}
  /\ FailPending(s)
  /\ UNCHANGED <<route, caller, opening, linkVars, hub, host, artifacts>>

\* workspace_delete, workspace_reset: unregister
Unregister ==
  /\ route # NoSid
  /\ route' = NoSid
  /\ UNCHANGED <<attached, pending, post, caller, opening, closing, linkVars,
                 hub, host, artifacts>>

\* Its requests have ids 1, 2, ...
NextId == Cardinality({p \in DOMAIN post :
                         post[p].caller = caller /\ post[p].id # 0}) + 1

\* handle_post, up to session_for
Received(c, id, kind) ==
  LET r == [caller |-> c, id |-> id, kind |-> kind, sess |-> route,
            stage |-> "routed", reply |-> "none", of |-> NoPost]
  IN IF route # NoSid THEN r
     ELSE Answered(r, IF id = 0 THEN "accepted" ELSE "error", NoPost)

\* The tool connects, first or again, with an initialize.  The handlers of its
\* last connection may go on.
ToolConnects ==
  /\ caller < MaxCaller
  /\ Len(post) < MaxPost
  /\ caller' = caller + 1
  /\ post' = Append(post, Received(caller + 1, 1, "initialize"))
  /\ UNCHANGED <<route, attached, pending, opening, closing, linkVars,
                 hub, host, artifacts>>

\* The server notices that a connection is gone and drops a handler of it; the
\* entry in pending stays
Dropped(p) ==
  /\ post[p].caller < caller
  /\ post[p].stage \notin {"done", "gone"}
  /\ post' = [post EXCEPT ![p].stage = "gone"]
  /\ UNCHANGED <<route, attached, pending, caller, opening, closing, linkVars,
                 hub, host, artifacts>>

\* Once initialize is answered the tool posts initialized, then calls
Mine(kind) == {p \in DOMAIN post : post[p].caller = caller /\ post[p].kind = kind}
ToolPosts(kind) ==
  /\ Len(post) < MaxPost
  /\ CASE kind = "initialized" ->
            /\ Mine(kind) = {}
            /\ \E p \in Mine("initialize") : post[p].reply \in {"result", "fallback"}
       [] kind = "call" -> Mine("initialized") # {}
  /\ post' = Append(post, Received(caller, IF kind = "call" THEN NextId ELSE 0, kind))
  /\ UNCHANGED <<route, attached, pending, caller, opening, closing, linkVars,
                 hub, host, artifacts>>

\* handle_post: forward if a capable client is attached, else answer here
CheckAttached(p) ==
  /\ post[p].stage = "routed"
  /\ post' = [post EXCEPT ![p] =
       IF @.sess \in attached THEN [@ EXCEPT !.stage = "checked"]
       ELSE Answered(@, IF @.id = 0 THEN "accepted" ELSE "fallback", NoPost)]
  /\ UNCHANGED <<route, attached, pending, caller, opening, closing, linkVars,
                 hub, host, artifacts>>

\* An entry of the table holds the sender its post waits on: without it the
\* post wakes up
Cut(r) == [r EXCEPT !.stage = IF @ = "waiting" THEN "cut" ELSE @]
Holder(p) == pending[post[p].sess][post[p].id]

\* A bug the properties must catch: an entry already in pending is kept
ForwardKeepsEntry(p) ==
  LET s == post[p].sess IN
  /\ post[p].stage = "checked"
  /\ up' = Upward(s, p)
  /\ IF post[p].id = 0
     THEN /\ post' = [post EXCEPT ![p] = Answered(@, "accepted", NoPost)]
          /\ UNCHANGED pending
     ELSE /\ post' = [post EXCEPT ![p].stage = "waiting"]
          /\ pending' = [pending EXCEPT ![s][post[p].id] =
                           IF @ = NoPost THEN p ELSE @]
  /\ UNCHANGED <<route, attached, caller, opening, closing, down, closed, hub,
                 host, artifacts>>

\* handle_post: wait under (session, id) in the place of whoever did, and send
\* the frame to the hub
Forward(p) ==
  LET s == post[p].sess IN
  /\ post[p].stage = "checked"
  /\ up' = Upward(s, p)
  /\ IF post[p].id = 0
     THEN /\ post' = [post EXCEPT ![p] = Answered(@, "accepted", NoPost)]
          /\ UNCHANGED pending
     ELSE /\ post' = [q \in DOMAIN post |->
                       IF q = p THEN [post[p] EXCEPT !.stage = "waiting"]
                       ELSE IF q = Holder(p) THEN Cut(post[q]) ELSE post[q]]
          /\ pending' = [pending EXCEPT ![s][post[p].id] = p]
  /\ UNCHANGED <<route, attached, caller, opening, closing, down, closed, hub,
                 host, artifacts>>

\* handle_post: the time is up, or the sender is gone; whoever waits under the
\* same key by now loses it
Expire(p) ==
  /\ post[p].stage \in {"waiting", "cut"}
  /\ post' = [q \in DOMAIN post |->
                IF q = p THEN Answered(post[p], "error", NoPost)
                ELSE IF q = Holder(p) THEN Cut(post[q]) ELSE post[q]]
  /\ pending' = [pending EXCEPT ![post[p].sess][post[p].id] = NoPost]
  /\ UNCHANGED <<route, attached, caller, opening, closing, linkVars, hub,
                 host, artifacts>>

\* A bug the properties must catch: responses are paired by id alone
ReadResponseById(s, q) ==
  \E r \in Sids :
    LET p == pending[r][post[q].id] IN
    /\ q \in down[s]
    /\ down' = [down EXCEPT ![s] = @ \ {q}]
    /\ pending' = [pending EXCEPT ![r][post[q].id] = NoPost]
    /\ post' = IF p # NoPost /\ post[p].stage = "waiting"
               THEN [post EXCEPT ![p] = Answered(@, "result", q)] ELSE post
    /\ UNCHANGED <<route, attached, caller, opening, closing, up, closed, hub,
                   host, artifacts>>

\* resolve_response: to whoever waits under the response's id
ReadResponse(s, q) ==
  LET p == pending[s][post[q].id] IN
  /\ q \in down[s]
  /\ down' = [down EXCEPT ![s] = @ \ {q}]
  /\ pending' = [pending EXCEPT ![s][post[q].id] = NoPost]
  /\ post' = IF p # NoPost /\ post[p].stage = "waiting"
             THEN [post EXCEPT ![p] = Answered(@, "result", q)] ELSE post
  /\ UNCHANGED <<route, attached, caller, opening, closing, up, closed, hub,
                 host, artifacts>>

\* The read loop, RemoteMcpClosed
ReadClosed(s) ==
  /\ s \in closed
  /\ closed' = closed \ {s}
  /\ FailPending(s)
  /\ UNCHANGED <<route, attached, caller, opening, closing, up, down, hub,
                 host, artifacts>>

-----------------------------------------------------------------------------
(* Client: the relay hands the host one frame at a time; deliver            *)

HasFrame(s) == /\ hub[s] = "open"
               /\ up[s] # <<>>
               /\ host[s].chan # "replaying"
Frame(s) == Head(up[s])
Kind(s)  == post[Frame(s)].kind

\* The frame leaves the relay's hands, with or without a RemoteMcpClosed
Delivered(s) == /\ up' = [up EXCEPT ![s] = Tail(@)]
                /\ UNCHANGED <<agentVars, down, closed, hub, artifacts>>
Bounced(s)   == /\ up' = [up EXCEPT ![s] = Tail(@)]
                /\ closed' = closed \cup {s}
                /\ UNCHANGED <<agentVars, down, hub, artifacts>>
HostStep(s)  == UNCHANGED <<agentVars, linkVars, hub, artifacts>>

\* maybe_cache_handshake: the first frame of each handshake kind
KindOf(c) == IF c = NoPost THEN "synthesized" ELSE post[c].kind
Cached(cache, p) ==
  IF \/ Len(cache) >= 2
     \/ post[p].kind = "call"
     \/ \E i \in DOMAIN cache : KindOf(cache[i]) = post[p].kind
  THEN cache ELSE Append(cache, p)

\* A bug the properties must catch: no handshake is made up for a host that saw none
NeverSynthesized(s) == host[s].cache

\* synthesize_handshake
Synthesized(s) ==
  IF host[s].cache = <<>> /\ Kind(s) # "initialize" THEN <<NoPost, NoPost>>
  ELSE host[s].cache

\* note_failure, the channel given up
Failed(h) == [h EXCEPT !.chan = "none", !.first = "none", !.inq = <<>>,
                       !.taken = {}, !.fails = @ + 1,
                       !.cooling = h.fails + 1 >= SpawnLimit]

\* feed: the frame is queued for the process
Feed(s) ==
  /\ HasFrame(s)
  /\ host[s].chan = "running"
  /\ Len(host[s].inq) < ChanCap
  /\ host' = [host EXCEPT ![s].cache = Cached(@, Frame(s)),
                          ![s].inq = Append(@, Frame(s))]
  /\ Delivered(s)

\* feed fails: the process is dead, or its queue is full; one that lives is
\* let go and may still answer what it had been given
FeedFails(s) ==
  LET h == host[s] IN
  /\ HasFrame(s)
  /\ \/ h.chan = "dead"
     \/ h.chan = "running" /\ Len(h.inq) >= ChanCap
  /\ host' = [host EXCEPT ![s] =
       [Failed(h) EXCEPT
          !.cache = Cached(@, Frame(s)),
          !.old = @ \cup IF h.chan = "dead" THEN {}
                         ELSE h.taken \cup
                                {p \in DOMAIN post :
                                   /\ post[p].id # 0
                                   /\ \E i \in DOMAIN h.inq : h.inq[i] = p}]]
  /\ Bounced(s)

\* spawn_channel in its cooldown
SpawnRefused(s) ==
  /\ HasFrame(s)
  /\ host[s].chan = "none" /\ host[s].cooling
  /\ host' = [host EXCEPT ![s].cache = Synthesized(s)]
  /\ Bounced(s)

\* spawn_channel: the process cannot be started
SpawnFails(s) ==
  /\ HasFrame(s)
  /\ host[s].chan = "none" /\ ~host[s].cooling
  /\ host' = [host EXCEPT ![s] = [Failed(@) EXCEPT !.cache = Synthesized(s)]]
  /\ Bounced(s)

\* start: nothing to replay, the frame is the handshake itself
Start(s) ==
  /\ HasFrame(s)
  /\ host[s].chan = "none" /\ ~host[s].cooling
  /\ Synthesized(s) = <<>>
  /\ host' = [host EXCEPT ![s].chan = "running", ![s].first = Kind(s),
                          ![s].cache = Cached(@, Frame(s)),
                          ![s].inq = <<Frame(s)>>]
  /\ Delivered(s)

\* start_replayed: the cached handshake goes first, the frame waits
StartReplayed(s) ==
  LET cache == Synthesized(s) IN
  /\ HasFrame(s)
  /\ host[s].chan = "none" /\ ~host[s].cooling
  /\ cache # <<>>
  /\ host' = [host EXCEPT ![s].chan = "replaying", ![s].cache = cache,
                          ![s].first = IF Head(cache) = NoPost THEN "initialize"
                                       ELSE post[Head(cache)].kind]
  /\ HostStep(s)

\* The replay is over: its answer to initialize was swallowed, or is late and
\* will be taken for an answer to the tool
ReplayDone(s, late) ==
  LET h == host[s] IN
  /\ h.chan = "replaying"
  /\ host' = [host EXCEPT
       ![s].chan = "running",
       ![s].cache = Cached(@, Frame(s)),
       ![s].inq = <<Frame(s)>>,
       ![s].taken = IF late /\ Head(h.cache) # NoPost THEN @ \cup {Head(h.cache)}
                    ELSE @]
  /\ Delivered(s)

\* The process ends during the replay: its input fails, or its output ends
ReplayFails(s) ==
  /\ host[s].chan = "replaying"
  /\ host' = [host EXCEPT ![s] = Failed(@)]
  /\ Bounced(s)
ReplayEnds(s) ==
  /\ host[s].chan = "replaying"
  /\ host' = [host EXCEPT ![s].chan = "dead"]
  /\ HostStep(s)

\* spawn_channel after SPAWN_COOLDOWN: the count starts again
CooldownEnds(s) ==
  /\ host[s].cooling
  /\ host' = [host EXCEPT ![s].cooling = FALSE, ![s].fails = 0]
  /\ HostStep(s)

\* The pump: a frame goes to the process, a response comes back, or it ends
BackendTakes(s) ==
  LET h == host[s] IN
  /\ h.chan = "running" /\ h.inq # <<>>
  /\ host' = [host EXCEPT ![s].inq = Tail(@),
                          ![s].taken = IF post[Head(h.inq)].id = 0 THEN @
                                       ELSE @ \cup {Head(h.inq)}]
  /\ HostStep(s)
\* Its response goes back at once, or, when it names files, after a task has
\* uploaded them (spawn_artifact_transfer)
BackendAnswers(s, p) ==
  /\ hub[s] = "open"
  /\ p \in host[s].taken \cup host[s].old
  /\ host' = [host EXCEPT ![s].taken = @ \ {p}, ![s].old = @ \ {p}]
  /\ \/ down' = [down EXCEPT ![s] = @ \cup {p}] /\ UNCHANGED artifacts
     \/ /\ transfers' = transfers \cup {p} /\ carried' = carried \cup {p}
        /\ UNCHANGED <<down, wire>>
  /\ UNCHANGED <<agentVars, up, closed, hub>>
BackendDies(s) ==
  /\ host[s].chan = "running"
  /\ host' = [host EXCEPT ![s].chan = "dead", ![s].inq = <<>>, ![s].taken = {}]
  /\ HostStep(s)

\* The task outlives the relay that started it.  The hub takes what it sends for
\* the session the connection has by then, or for nobody's.
TransferEnds(p) ==
  LET active == {s \in Sids : hub[s] = "open" /\ wire[s] = wire[post[p].sess]} IN
  /\ p \in transfers
  /\ transfers' = transfers \ {p}
  /\ down' = [s \in Sids |-> IF s \in active THEN down[s] \cup {p} ELSE down[s]]
  /\ UNCHANGED <<agentVars, up, closed, hub, host, wire, carried>>

-----------------------------------------------------------------------------
AgentStep ==
  \/ \E s \in Sids : \/ \E capable \in BOOLEAN : OpenSession(s, capable)
                     \/ OpenCompletes(s) \/ OpenAborts(s)
                     \/ Detach(s) \/ ReadClosed(s)
                     \/ \E q \in Posts : ReadResponse(s, q)
  \/ Unregister \/ ToolConnects
  \/ \E kind \in {"initialized", "call"} : ToolPosts(kind)
  \/ \E p \in DOMAIN post : CheckAttached(p) \/ Forward(p) \/ Expire(p)
                           \/ Dropped(p)

HubStep(s) == \/ FirstFrame(s) \/ OpenTimesOut(s)
              \/ ClientLeaves(s) \/ PtyEnds(s)

ClientStep(s) ==
  \/ Feed(s) \/ FeedFails(s)
  \/ SpawnRefused(s) \/ SpawnFails(s) \/ Start(s) \/ StartReplayed(s)
  \/ \E late \in BOOLEAN : ReplayDone(s, late)
  \/ ReplayFails(s) \/ ReplayEnds(s) \/ CooldownEnds(s)
  \/ BackendTakes(s) \/ BackendDies(s)
  \/ \E p \in Posts : BackendAnswers(s, p)

Next ==
  \/ AgentStep \/ LinkBreaks
  \/ \E s \in Sids : HubStep(s) \/ ClientStep(s)
  \/ \E p \in Posts : TransferEnds(p)

Spec == Init /\ [][Next]_vars

-----------------------------------------------------------------------------
(* What the bridge keeps                                                    *)

\* A call is answered with its own result.  The proxy pairs by (session, id),
\* and each connection of the tool numbers its calls from 1: a call may get the
\* result of the call of its number that another connection made in the same
\* session, or in an earlier session of the same client when that result had to
\* wait for its artifacts (resolve_response; spawn_artifact_transfer).
AnswersOwnCall ==
  \A p \in DOMAIN post :
    LET r == post[p] q == post[p].of IN
    r.reply = "result" =>
      \/ q = p
      \/ /\ q \in DOMAIN post
         /\ post[q].id = r.id /\ post[q].caller # r.caller
         /\ \/ post[q].sess = r.sess
            \/ q \in carried /\ wire[post[q].sess] = wire[r.sess]

\* Every post that waits can be reached by fail_pending: it is the one its
\* session's table holds under its id, whatever other handlers have put there or
\* taken away.  Else a lost client would leave the tool waiting for the timeout.
WaiterRegistered ==
  \A p \in DOMAIN post :
    post[p].stage = "waiting" => pending[post[p].sess][post[p].id] = p

\* A backend process is never fed a frame before an initialize, whatever the
\* tool sent first and however often the process was restarted (deliver,
\* synthesize_handshake, start_replayed).
HandshakeFirst == \A s \in Sids : host[s].first \in {"none", "initialize"}
=============================================================================
