# CloudCode: specifications and proofs

CloudCode lets a user drive a coding tool (`claude`, `codex`, ...) that runs in
tmux on one machine, the *agent*, from a terminal anywhere, the *client*. Both
connect to a *hub* that routes terminal bytes, workspace requests, files and remote MCP calls
between them. This directory holds TLA+ models of the parts that carry the
program's own logic, TLC configurations that check them on small instances, and
proofs of the main safety properties for every instance.

Paths below are relative to `src/` of the repository; `hub/`, `agent/`,
`client/`, `daemon/` stand for `crates/<name>/src/`. `PROJECT.json` maps every
definition that models code to its lines.

Contents: [1 The system](#1-the-system) ·
[2 Modules and code](#2-modules-and-code) · [3 Runs](#3-runs) ·
[4 Fairness](#4-fairness) · [5 Proofs](#5-proofs) ·
[6 What the models say of the code](#6-what-the-models-say-of-the-code) ·
[7 Not modelled](#7-not-modelled) · [8 Plan](#8-plan) ·
[9 Running it](#9-running-it)

## 1 The system

    client --ws--> hub: one handler per connection --+
                     |  AppState.workspaces (in use) |   one reader and one
                     |  database (bindings, log)     +-- writer task per agent
                     |                                   connection
                     v                                        |
                  app and admin API                           ws
                                                              v
            agent: read loop, one task per request, PtyManager, McpProxy
                     |                          ^
                     v                          | HTTP (token)
              tmux server per workspace: the tool

Each of the three processes is asynchronous: the hub runs one task per client
connection and two per agent connection, the agent one task per frame it
receives and one thread per open PTY. Whatever state they share is in
concurrent maps, bounded channels and a database, and any other task may run at
an `await`. The components, their state and what makes each correct:

| Component | State | Operations | What is hard | Correct when |
|---|---|---|---|---|
| **Client sessions on the hub** `hub/pty_session.rs` | per connection: selected agent, active session; shared: the table of workspaces in use | select, list, create, delete, reset, open, input, resize, close, tear-down | a take-over between the awaits of another open; tear-down after a take-over; a full event queue | at most one holder of a workspace, nothing left behind by a session that ended, every open resolves |
| **Agent registry, agent connections** `hub/registry.rs`, `hub/ws_handler.rs` | connection per agent name; per connection session routes, oneshots of workspace requests, download streams | register, unregister, route a frame | `try_send` on full channels; unregister against a session being opened | nobody waits for a connection that is gone |
| **Workspace catalog** `hub/db.rs`, `hub/pty_session.rs` | rows account, agent, workspace | upsert at Hello, insert at create, delete | the row and the directory change on two machines, with a timeout between | row and directory agree, or the cause is known |
| **Agent PTY manager** `agent/pty.rs` | open sessions, MCP token per workspace, tmux servers, last use | open, close, input, resize, workspace create / delete / reset, reap idle | tasks run in any order; tokens survive in memory, in a file and in the running tool | the tool's token leads to the session that attached last |
| **Agent link** `agent/ws.rs`, `*/tunnel.rs` | the websocket, its idle clocks, back-off | connect, Hello, read loop, reconnect | frames lost and tasks outliving the link | frames of a link come in order or not at all |
| **Remote MCP proxy** `agent/mcp_proxy.rs` | token -> session, attached sessions, waiting posts | post, GET stream, response, detach | ids reused by a tool that reconnects, late responses, detach between check and wait | a call gets its own answer, once |
| **Remote MCP host** `client/mcp_host.rs`, `client/relay.rs` | backend process, handshake cache, failure count | deliver, replay, cool down | restarts of a backend in mid-conversation | a backend sees `initialize` first; no restart loop |
| **Client** `client/main.rs`, `client/menu.rs`, `client/relay.rs`, `client/wire.rs` | the list, its order, a copy of the preferences; the session; uploads under way | list, pin, move, create, delete, reset, open, relay, drop files, hold, redial | answers carry no number; a copy written back whole; reconnect while a session is open | shows the answer to its last question, agrees with the hub on the session, resumes a lost one |
| **Client input filters** `client/paste_detect.rs`, `client/mouse_filter.rs`, `client/input.rs` | a few bytes of an unfinished sequence | feed, filter, parse | a sequence split anywhere, also by the end of a session | same result however the input is split |
| **Agent files** `agent/fs.rs` | open write sessions | list, read in chunks, write begin / chunk / end | bounded channels, a link lost in mid-file, two uploads of one name | a file complete or an error, nothing overwritten |
| **Web application API** `hub/app/api.rs` | login sessions, invites, download routing | upload, download, invites, listing | a browser that hangs up; two acceptances of one invite | no entry outlives its request; invites used as often as allowed |
| **Accounts, authentication, access lists** `hub/auth.rs`, `hub/db.rs` | accounts, tokens, access lists, invites | log in, invite, accept, grant, revoke, seed at start | a handler of several statements beside others, a stop between two | counters match rows, a failure leaves nothing, a revocation stands |
| **Session log and audit** `hub/db.rs`, `hub/audit.rs`, `agent/audit.rs`, `agent/jsonl.rs` | session rows, messages, rollups, transcript offsets | start, end, tail, ship, roll up, clean up | rows written by detached tasks; offsets ahead of what was stored; deletion beside the rollup | live rows are live, prompts arrive once, the chart keeps what is deleted |
| **Admin API** `hub/admin/api.rs` | none of its own | accounts, access lists, invites, workspaces, clean-up, updates | acts on what others are using | as the same operation by a client |
| **Supervisors and updates** `*/supervise.rs`, `*/update.rs` | failure count, links `current` and `previous`, release directories | spawn, back off, roll back, install, reset | a kill between two steps, two updates at once | the links name whole binaries, a bad release is undone |
| **Daemon control** `daemon/lib.rs` | pid file | start, stop, status | two starts at once, recycled pids | one process |
| Configuration, sandbox, web terminal, admin UI, scripts | files, or none | | | see [7](#7-not-modelled) |

Interactions: client frames are handled by the connection's own task in order;
it calls the registry for the agent's connection, puts a frame on the
connection's writer and waits on a channel (a session's events) or a oneshot (a
workspace request). The agent runs each of these frames in a task of its own
and answers on the link it came from. A link that ends is unregistered, which
notifies each routed session and drops the oneshots. The tool's MCP calls take
the same link upwards, as frames of the session its token is routed to.

The hazards that follow from this are listed with their lines in
`PROJECT.json`; each names the properties about it or why there is none yet.

## 2 Modules and code

| Module | Models | Proofs |
|---|---|---|
| `PtySession` | opening, taking over, leaving and losing a terminal session, over hub, link and agent | `PtySession_proofs` |
| `SessionLease` | abstract: what the table of workspaces in use promises | refined by `PtySession` |
| `WorkspaceOps` | create, delete, reset and open, by clients and administrators, over catalog, link, directory, tmux and tokens | `WorkspaceOps_proofs` |
| `AgentRequest` | abstract: a request carried out at most once and answered truthfully or not at all | refined by `WorkspaceOps` |
| `McpBridge` | the tool's MCP calls: proxy, hub channel, relay, host, backend process | `McpBridge_proofs` |
| `FileUpload`, `FileDownload` | uploads from the web and the command line; downloads and archives | |
| `FileTransfer` | composes the two over one link of the agent | `FileTransfer_proofs` |
| `FileDelivery` | abstract: a file arrives in order and complete, or its sender is not told "ok" | refined by `FileUpload` |
| `Accounts` | accounts, access lists, invites and the start of the hub, statement by statement | `Accounts_proofs` |
| `PromptLog` | how lines of claude's logs become rows of the hub's database | `Logs_proofs` |
| `SessionLog` | session rows, messages, their rollup and their deletion | `Logs_proofs` |
| `Supervisor` | daemon commands, supervisors, self-updates and the links between versions | `Supervisor_proofs` |
| `Client` | the command-line client: menu, session loop, relay, dropped files | `Client_proofs` |
| `WorkspaceOrder` | the order of the picker: sort, pin, move (operators used by `Client`) | in `Client_proofs` |
| `TerminalFilters` | paste detector, key parser, mouse filter, on streams cut anywhere | |
| `MC*` | symmetry and values of constants for TLC | |

Some definitions stand directly before the one they are a faulty variant of
(`EndSessionKeepsSlot` before `EndSession`, ...), with the comment "A bug the
properties must catch". No specification uses them; substituting one for its
original must break the property it is listed with in `PROJECT.json`
("mutants"), which is how we know that the properties notice. Variables listed
under "history" exist in the models only: they remember what befell a behaviour,
so that a property can name its exceptions. Every module states its `TypeOK`;
the runs spend their time on the other invariants, and adding `TypeOK` to a
configuration checks it too (those of `PtySession`, `WorkspaceOps`, `Accounts` and
`McpBridge` are proved as they stand, those of the other modules with proofs as
part of their inductive invariants).

### PtySession

`pc[c]` is where the task of client connection `c` stands: `menu`; `reserved`
(OpenSession has taken the slot and awaits the database); `opening` (PtyOpen
sent, waiting for the first event); `active`; `closing` (`teardown_active`
awaits its send); `gone`. Code between two awaits is one action; where another
task can get between, there are two (`OpenSession` / `SendPtyOpen`,
`LeaveSession` / `FinishTeardown`).

| Variable | Code |
|---|---|
| `selected`, `session` | `ConnCtx.selected_agent`, `ConnCtx.active` or the session being opened |
| `home`, `ws` | the connection and workspace captured by OpenSession |
| `workspaces` | `AppState.workspaces` |
| `routes`, `events` | `AgentConn.sessions` and the channel of each session |
| `registry`, `epoch` | `AgentRegistry.agents`; connections are numbered, as `AgentConn.id` tells them apart |
| `wire`, `toAgent`, `toHub` | the websocket; `toAgent` is a set since each frame gets its task, `toHub` a sequence per session |
| `ptys`, `readers` | `PtyManager.sessions`; the reader threads, which hold a handle of their own |

A failing link (`LinkBreaks`) loses any of the frames on it, and the hub notices
later (`AgentUnregisters`). `AgentCrashes` takes PTYs, threads and tasks with it.

Abstractions: one account; freshness of a UUID is a counter; the agent's
`open_session` is one action here (its two halves are in `McpBridge`); input,
resize, layout and upload frames change nothing told apart here; the order of
frames of *different* sessions on a link is dropped, as they share no state;
`SelectAgent` is sent from the menu only, as the clients of the repository do;
`OpenSession` puts the `PtyClose` of the session it takes over on the link in the
step that takes the slot, though the code awaits the send behind it (`:862`):
a frame sent later is one that arrives later, and a frame of `toAgent` may arrive
at any time or be lost with its link.

### WorkspaceOps

`req[i]` is request `i` on its way: still in the hub's handler (`hub`), `sent`,
then the steps of the agent's task (`killed`, `retired`, `done`) and `gone`,
with what the agent did (`outcome`), the result that waits in the oneshot
(`answer`) and what the client heard (`told`). The agent's delete is three
steps, its reset two, as the code awaits between `tmux kill-server`, the
removal of the token and of the directory. `bindings` is the catalog, `holder`
the table of workspaces in use, `tokenOf`, `saved` and `tmux` the three places a
token lives: memory, `.cloudcode/mcp-remote.json`, the environment of the
running tool. `AdminDelete` is the delete of the admin API, which makes the
same check and sends the same request on nobody's connection.

`doubt` and `raced` are history: workspaces touched by an event after which the
hub cannot know the directory (an answer given up, a row dropped while the agent
is offline, a directory made by an open), and workspaces whose directory a
delete removed with a tool in it.

Abstractions: one account, one agent; an open is one step at the agent and
sessions are as coarse as `holder` (`PtySession` has the detail); the check and
the `mkdir` of a create are one step, and so are the hub's look at the row
(`hub/pty_session.rs:1266`) and its look at the table of workspaces in use
(`:1298`), an await apart; Remote MCP is on and writing its file succeeds; the idle reaper is one of the ways a tool ends (`ToolEnds`).

### McpBridge

`post[p]` is the handler of the tool's p-th post: `routed` (its token looked
up), `checked` (a capable client found attached), `waiting` (in `pending`, frame
sent), `cut` (its sender dropped, so that it wakes up and removes what the table
holds under its number), `done` with its `reply`, or `gone` with the tool's
connection. A handler whose tool has gone may be dropped, which leaves its entry
(`Dropped`), or end first, and take the entry a new post of the same number has
put there meanwhile. `of` is
the post whose result it got. A frame travels up in `up`, waits in the session's
channel at the hub, is handed by the relay to the host, and comes back in
`down`, a set because transferring a result's artifacts may delay it. `wire[s]`
is the connection of the client of session `s`, by the first of its sessions. A
result with artifacts waits in `transfers` in a task of its own, which outlives
the session; the hub tags what it sends at the end with the session its
connection has *then*, or drops it if there is none (`TransferEnds`). `carried`
is history: the posts whose result ever waited so.
`hub[s]` is the wait of OpenSession for the first frame, and `host[s]` the
`McpHost` of the client: state of the backend (`chan`), handshake `cache`, its
bounded input `inq`, the calls it has `taken`, those of a process that was put
aside alive (`old`), consecutive failures and the cooldown.

Modelled as the repository uses them and not from source under `src/`: the
backend process and the tool (an MCP client: `initialize`, `initialized`, then
calls numbered from 1 on each connection).

Abstractions: one server name; a backend that gets a notification answers
nothing; the connection's other workspaces, to whose tool a late result may be
tagged as well, the GET stream of `list_changed`, the frames of an artifact's upload,
the tool manifest and an overflow of the hub's session channel are left out.

### FileUpload, FileDownload, FileTransfer

`job[u]` is the hub's task for an upload and its source, a multipart body or the
frames of a command-line client: the chunks taken so far, whether the source
goes on, stalls, ends or breaks, the stage of `upload_file_to_agent` and what
the user was told. `waiter[u]` is its oneshot in `workspace_requests`, `down` the
frames to the agent in order, `session` the table `WriteSessions` of the agent.
A file is the sequence of `<<upload, chunk>>` pairs written to it, so that a
missing, repeated or foreign chunk shows; `disk` is the directory, in which all
uploads ask for one name and `dedupe_path` gives them others.

`load[d]` is a download: the agent's reader, which stays a chunk ahead of what
it sends, the hub's entry in `fs_read_streams`, the bounded channel that
`try_send` fills and the body the browser polls, or no longer polls.

`FileTransfer` puts both on one link: a break takes the frames of both
directions. Its bound: a behaviour has uploads or downloads, not both, since
they share nothing else; the theorems hold with and without it. `MaxSize` bounds
the chunks of a file. Paths, the check of the account and the listing are
left out; a write may fail.

### Accounts

The tables are variables (`accounts`, `acl`, `sessions`, `invite`, `accepted`),
and each SQL statement or transaction of a handler is an action, so that
anything else may come between two: `accept[h]` is where a handler of
`invite_accept` stands, with the row it read; `admin` the administrator's
request, where a handler reads first and writes later. `phase` goes through
`run_migrations`: access lists are seeded once, from the sessions found
(`LockSeed`, `SeedAcl`, `MarkSeeded`), and the hub may stop between any two
statements. The roll-back of an acceptance is a statement of its own that may be
refused as the one before it was, which its handler does not notice. `revoked`,
`limit`, `overlapped` and `stuck` (the handlers whose roll-back was refused) are
history.

Abstractions: a token stands for its hash; requests of the administrator come
one at a time; login sessions, cookies, the kick, labels, preferences and the
other columns are left out.

### PromptLog and SessionLog

`PromptLog`: `Log[f]` is what claude writes to file `f`, line by line; `disk[f]`
how much of it is there, `partial` the files that end with a part of the next line,
`clipped` those where the part ends inside a character, so that a read of the file
as text fails as a whole. The tailers
are the audit task (one sweep over all files, its sender in `slot`) and a watcher
per session (`watch`, the sender it was given at its start). `offsets` is in
memory: a restart of the agent starts again from what was there then. `transit`
is channel and wire, `inserts` the detached inserts, `stored` the rows with the
constraint of `user_interactions` and without one for `messages`. `DropHandle`
tells a watcher to stop (`told`); it keeps the sender it began with until then,
also when that one's link is gone. `dropped` and `again` are history: frames that
were lost, and how often the audit task went back in a file.

`SessionLog`: `rows[s]` with the detached writes of its start and its end in
`tasks`; a hub that is `opening` runs its loops before the orphans are closed, in
the order of `main.rs`. `messages` are rows with a time, `stats` the messages of each
day in the chart, `roll` and `clean` where the loops stand between two statements,
`meta` and `put` the settings and the request that writes them one by one. Time
is in ticks, `DAY` to a day. A request may be cut off between its two
statements, by a stop of the hub or by the failure of the second, and the next
may set both again: `half` remembers that the settings found are those of half a
request, `torn` that the daily task read such settings, or while a request stood
between its statements, or fell back on the default after an error.
`overtaken` names the sessions whose end was written before their start, or not
at all.

### Supervisor

One machine with the agent or the hub (`host`; they
differ in who asks for an update, in what a request in flight excludes and in
`reset`, which only the agent has).
`sup[p]` is a supervisor by pid: bootstrap, look, spawn, wait, roll back, back
off. `update[u]` is where `perform_update` stands: download, unpack, verify,
copy, and the three steps of `update_current_symlink`. `final` and `tree` are
the two files of a release directory that matter. `command[o]` is an operator's
`start`, `stop`, `restart` or `reset`, step by step over the pid file. A process
may be killed anywhere; a release works, crashes when run, or cannot be executed.
`reworked` is history: releases whose directory two updates wrote at once, or an
update while a link named them or was about to (`Linked`: the two links, and what
`update_current_symlink` has read from `current` and will make `previous`).

Abstractions: delays are untimed; a pid is not used again; the pid file can be
written; a supervisor killed is gone at once; what else lies in the directory of
releases, and the name `current.tmp` two updates share (so that the renaming of
one may fail beside another), are left out.

### Client, WorkspaceOrder, TerminalFilters

`place` is what the client awaits: a menu page (`prefs`, `list`, `picker`,
`confirm`, `message`, `agents`, `agent`, `request`, `recheck`), the opening of a
session, the relay, the wait for an agent (`hold`) or for the hub (`redial`).
`up` and `text` are the two directions of the connection, in order; the hub
answers one frame after the other (`Hub`). No answer carries a number: the client
takes the first frame of the kind it waits for. `job[b]` is the task that uploads
batch `b`, dropped files or artifacts, `waiters` the table the relay routes
answers by and `box` the answers it has passed on. Several tasks may be at work.
They outlive their session (`here` becomes false): what they send still reaches
the hub, their answers are no longer routed, and they give up what they wait for
(`UploadGivenUp`). `page` is the web terminal's copy of the preferences, loaded once
and written back whole, the order included. `WorkspaceOrder` has the picker's order as the code computes it:
sort by stored positions, then by agent and name, pin, move.

`TerminalFilters` runs the filters on what a terminal and a tool write, over the
sessions of one client: a session ends with the detector's bytes, and what was
not read then is read by the next menu. Bytes are members of a small alphabet;
units (a key, an arrow in either mode, a paste, a drop of two files, mode
changes) are cut at every place. `Terminal` and the `keys` and `files` of a unit
are the reference the filters are compared with.

Left out: resizes, keepalives, the file with the last agent, drawing, and the
web terminal's own pins and moves, which are the same functions.

## 3 Runs

| Run | Instance | Distinct states |
|---|---|---|
| `pty_session` | 2 clients, 1 agent, 1 workspace, 2 sessions, 2 connections of the agent, 1 frame of output, symmetric clients | 243 k |
| `pty_session_live` | same with 1 connection and no output, no symmetry, fair | 63 k |
| `workspace_ops` | 2 clients and an administrator, 1 workspace, 3 requests or opens, 2 connections of the agent, symmetric clients | 1.1 M |
| `mcp_bridge` | 2 sessions of one or two clients, 3 posts, 2 connections of the tool, input channel of 1, the cool-down after 1 failed start | 2.5 M |
| `file_transfer` | 2 uploads of one name (web and command line) of 2 chunks, or 2 downloads of 2 chunks through channels of 1; 2 connections | 1.0 M |
| `accounts` | 2 names, 1 agent, 1 invite, 2 handlers of invite_accept, 3 requests of the administrator, 3 tokens, 1 sandbox mode, as no property reads it, 2 failures or stops | 2.1 M |
| `prompt_log` | 1 file with 2 prompts and other lines, 1 session, queue of 2, 2 connections, 1 failure | 0.4 M, fair |
| `session_log` | 1 session, 2 messages, days of 2 ticks and a clock to 2, a retention of 1 tick, deletion turned on earlier, 1 request, 1 failure or stop | 1.5 M |
| `supervisor` | 2 releases that work or crash, 2 updates, 2 operators, 2 supervisors, 3 commands or requests, 1 fault | 0.7 M, fair |
| `client` | 2 workspaces on 2 agents, a drop of 2 files and an artifact, 3 keys, batches or saves of the web terminal, 2 faults | 0.9 M, fair |
| `terminal_filters` | 3 of 7 units typed or 3 of 6 written, 2 sessions, every cut, a cap of 15 bytes | 0.6 M, every history |
| `workspace_deleted_in_use` | the smallest instance that shows a violation, see [6](#6-what-the-models-say-of-the-code) | |

**pty_session**: `RouteOwned`: no route outlives its session; `NoDeafSession`:
an active session without a route has the closing event in its queue;
`CloseOnlyStale`: a `PtyClose` on its way never names the holder of a workspace
unless its own client is leaving; `ImplementsLease`: the table refines
`SessionLease`, so a slot is given up in the step its session ends and never
regained. Two clients and two sessions are the smallest take-over; two
connections let an agent return while an open or a tear-down still uses its
former one. `QueueCap = 6` (the code: 1024) is more than one session's frames in
this run, so nothing is dropped: the run is about a queue with room.

**pty_session_live**: `OpenResolves`: every open ends in a session or an error;
`AgentLossEndsSession`: a session whose link is lost ends;
`CloseOrderEndsSession`: a `PtyClose` in flight for an open session ends it.
One connection is enough here, as the statements are about a link that stays
lost; there is room in the queue again.

**workspace_ops**: `CatalogAgrees`: when nobody works on a workspace, its row
exists exactly if its directory does, unless it is in `doubt`;
`LiveToolReachable`: the token of a tool that runs is the one the next open
finds, also after a restart of the agent; `ImplementsRequest`: requests refine
`AgentRequest`. Three requests allow a delete racing with a create or an open by
another and one more; two connections allow a crash or a lost link between any
two steps.

**mcp_bridge**: `AnswersOwnCall`: a result goes to the call it answers, or, the
exception pairing by (session, id) leaves, to a call with the same id on another
connection of the tool, in the same session or, if the result waited for its
artifacts, in another session of the same client; `WaiterRegistered`: a waiting
post is the one `pending` holds under its id, so that it can be failed, whatever
handlers of a former connection remove; `HandshakeFirst`: the first frame of a
backend is an `initialize`, sent by the tool, replayed or made up. Two connections
let ids repeat, one with three posts lets the handshake complete; two sessions let
a hand-over happen with answers of the first still on their way. `ChanCap = 1` (the code:
32) makes the full queue reachable.

**file_transfer**: `DeliversFiles`: an upload refines `FileDelivery`; `FilesKept`:
no upload writes a file another has open or one that was there before;
`NothingLeftOpen`: a file is open on the agent only while its upload goes on,
or its end is on its way, or its request was dropped or its connection lost, and
a routing entry of the hub is about to go; `BodyFaithful`: a body is a prefix of
the file unless a chunk was dropped, and the whole file when the last chunk ended
it. Two chunks are the least that can be swapped, lost or be the last but one.

**accounts**: `CounterMatchesAudit`: an invite's counter is the number of its
acceptances; `LimitUnlessOverlapped`: the limit holds but for acceptances at the
same time; `FailureLeavesNothing`: an acceptance that failed has left no account
of its own, unless its roll-back was refused too; `RevocationStands`: no start of the hub grants again what was
revoked. Two handlers and two names are the least that can race for a name or a
use, two failures the least in which a roll-back fails.

**prompt_log**: `OffsetsAccounted`: a tailer is never past a line it should have
shipped unless the row is stored, on its way, or was lost with a link, a process
or an insert; `CopiesExplained`: a prompt with a parent has one row, others as
many as the causes named; `EventuallyLogged`: every prompt written is logged or
was in flight at a failure, unless claude stopped for good inside a character. A queue of 2 fills in the middle of a sweep.

**session_log**: `LiveRowsExplained`: while the hub serves, a row without an end
belongs to an open session, or its end is being written, or was overtaken or
failed; `AutoCleanupAsSet`: the daily deletion uses settings that were in force
together; `ChartKept`: the bar of a day never shrinks, with the two exceptions of
[6](#6-what-the-models-say-of-the-code). Two days with a window of less than a
day are the least in which a day is partly seen. The run has one request of the
administrator; two, where the second finds what the first left, are covered by
the theorem. The daily deletion works in batches, so that the rollup may count a day
of which a part is gone.

**supervisor**: `LinkedIntact`: the links name whole binaries; `OneDaemon`: one
supervisor, one child, and a pid file that names it; `BadUpdateUndone`: every
supervisor comes to rest with a child that works, or has nothing left to try. Each
names its exceptions. `ROLLBACK_THRESHOLD = 2` (the code: 10).

**client**: `ListCurrent`: the picker shows the answer to its latest question;
`OrderShown`: the order the user gave is the order shown, unless a save was lost or
refused, a load failed, or the web terminal wrote its own copy over it;
`WebFieldsKept`: what the web terminal saved survives the client's saves, unless a
menu was open meanwhile or could not load the row; `SessionAgreed`: client and
hub agree on the session; `DropsAnswered`: an upload that waits has an answer or
the end of its session on its way, or its session is over and it gives up;
`SessionResumed`: a lost session is opened
again unless the user gives up. `ListCurrent`, `SessionAgreed` and `SessionResumed`
except a connection on which a save was refused ([6](#6-what-the-models-say-of-the-code)).
Two workspaces on two agents can be reordered and
go offline one without the other; two batches let one task's answers come while
another waits.

**terminal_filters**: `NothingAltered`: every byte reaches one place, in order;
`DropsTaken`: a dropped file is recognised and nothing else is taken for one;
`KeysAsTyped`: the keys of a read are the keys typed; `MouseStaysLocal`: no mode
that is to be stripped reaches the terminal. Three units are a sequence with
something before and behind it.

`CHECK_DEADLOCK FALSE` is set where the bounds on requests, keys or faults run
out and nothing is left to do, which is a legal end.

The constants named `Max...` limit how often something happens; `QueueCap`,
`ChanCap`, `DownCap`, `SEND_QUEUE`, `SpawnLimit`, `ROLLBACK_THRESHOLD`,
`MAX_PASTE_BYTES`, `DAY`, `STATS_WINDOW` and `MONTH` stand for constants of the
code and are scaled down so that limits are reached.

## 4 Fairness

Weak fairness is assumed of steps a running process takes by itself:

- `PtySession` (`FairSpec`): `HubStep(c)`, a connection's task goes on with what
  it has, and its wait for the agent's first event is bounded by `OPEN_TIMEOUT`
  (20 s), so `OpenFails` is always possible in `opening`; `AgentUnregisters(k)`,
  the hub notices a dead link, at the latest after `READ_IDLE_TIMEOUT` (10 s);
  `AgentTasks(k)`, the agent's runtime runs the tasks it spawned; `HubReads(s)`,
  the hub reads what an open link delivers.
- `PromptLog`: the agent connects again while connections are left (`Connect`),
  the hub reads (`Receive`) and runs its detached inserts (`Insert`), a link
  without a receiver ends (`LinkEnds`), the audit task sweeps every few seconds,
  and a supervisor starts what stopped (`HubStarts`, `AgentStarts`).
- `Supervisor`: each supervisor's loop, and the crash of a release that crashes.
- `Client`: the client reads what arrives, tries again after its delays and
  notices a hub that is lost; the hub answers (`Hub`); and an agent that is
  connected to a running hub comes back (`AgentReturns`), since its own supervisor
  and back-off see to that. Only `SessionResumed` uses the last.

Nothing is assumed of users, tools, PTYs, operators, or links: a session may
stay open for ever, and a link may work for ever.

## 5 Proofs

Checked by TLAPS for all values of the constants that satisfy the assumptions
in the modules: the bounds are numbers, some of them positive; the "none"
values are none of the values they stand for; uploads are numbered from 1; the
hourly pass of the rollup looks back no further than a retention
(`STATS_WINDOW <= MONTH`; in the code two days and a month or more); a list of
workspaces is finite, and so is a batch of dropped files, which has at least
one. Apart from these and the numbered uploads, neither finiteness nor a number
of clients, agents, workspaces, accounts, downloads, updates or requests is
assumed.

| Theorem | States |
|---|---|
| `PtySession_proofs!TypeCorrect` | `Spec => []TypeOK` |
| `PtySession_proofs!SlotsAreHeld` | `Spec => []SlotHeld` |
| `PtySession_proofs!RoutesAreOwned` | `Spec => []RouteOwned` |
| `PtySession_proofs!ClosesOnlyStale` | `Spec => []CloseOnlyStale` |
| `PtySession_proofs!LeaseImplemented` | `Spec => ImplementsLease` |
| `PtySession_proofs!NobodyIsDeaf` | `Room => (Spec => []NoDeafSession)` |
| `WorkspaceOps_proofs!TypeCorrect` | `Spec => []TypeOK` |
| `WorkspaceOps_proofs!LiveToolStaysReachable` | `Spec => []LiveToolReachable` |
| `WorkspaceOps_proofs!RequestImplemented` | `Spec => ImplementsRequest` |
| `WorkspaceOps_proofs!CatalogIsTrue` | `Spec => []CatalogAgrees` |
| `Accounts_proofs!TypeCorrect` | `Spec => []TypeOK` |
| `Accounts_proofs!RevocationsStand` | `Spec => []RevocationStands` |
| `Accounts_proofs!CountersMatch` | `Spec => []CounterMatchesAudit` |
| `Accounts_proofs!FailuresLeaveNothing` | `Spec => []FailureLeavesNothing` |
| `Accounts_proofs!LimitsHold` | `Spec => []LimitUnlessOverlapped` |
| `McpBridge_proofs!TypesAreKept` | `Spec => []TypeOK` |
| `McpBridge_proofs!CallsAreAnsweredTheirOwn` | `Spec => []AnswersOwnCall` |
| `McpBridge_proofs!WaitersAreRegistered` | `Spec => []WaiterRegistered` |
| `McpBridge_proofs!InitializeComesFirst` | `Spec => []HandshakeFirst` |
| `FileTransfer_proofs!UploadsCorrect` | `TransferSpec => []UploadInv` |
| `FileTransfer_proofs!FilesAreKept` | `TransferSpec => []FilesKept` |
| `FileTransfer_proofs!FilesAreDelivered` | `TransferSpec => DeliversFiles` |
| `FileTransfer_proofs!DownloadsCorrect` | `TransferSpec => []DownloadInv` |
| `FileTransfer_proofs!BodiesAreFaithful` | `TransferSpec => []BodyFaithful` |
| `FileTransfer_proofs!NothingStaysOpen` | `TransferSpec => []NothingLeftOpen` |
| `Logs_proofs!LiveRowsAreExplained` | `Spec => []LiveRowsExplained` |
| `Logs_proofs!CleanupIsAsSet` | `Spec => []AutoCleanupAsSet` |
| `Logs_proofs!ChartIsKept` | `Spec => ChartKept` |
| `Logs_proofs!LinesAreAccounted` | `LogSpec => []OffsetsAccounted` |
| `Logs_proofs!CopiesAreExplained` | `LogSpec => []CopiesExplained` |
| `Supervisor_proofs!OneDaemonAtATime` | `Spec => []OneDaemon` |
| `Supervisor_proofs!LinksStayIntact` | `Spec => []LinkedIntact` |
| `Client_proofs!InStep` | `Spec => []StepInv` |
| `Client_proofs!PickerIsCurrent` | `Spec => []ListCurrent` |
| `Client_proofs!OrderIsShown` | `Spec => []OrderShown` |
| `Client_proofs!OneSession` | `Spec => []SessionAgreed` |
| `Client_proofs!WebIsKept` | `Spec => []WebFieldsKept` |
| `Client_proofs!DropsAreAnswered` | `Spec => []DropsAnswered` |

**PtySession.** The inductive invariant is `IInv`: `TypeOK`, the three safety
invariants and `SessionInv`. `SlotHeld` alone is not inductive: tear-down
computes the key of the slot from the agent selected *now*, and one must know
that this is the agent the session was opened on; taking a fresh session must
not collide with one in use; and a session has one client, so that one ending
does not take another's slot. `SessionInv` says these three. The step lemma does
not go through the actions one by one: they fall into five classes
(`NextCases`): link and agent steps, steps of a client without a session, steps
that keep the session, steps that end it, and the open. For each class an
*effect* lemma says what it does to slots, routes, sessions and frames, and the
safety lemmas and the refinement (`LeaseStep`) follow from the effect alone: an
open is a `Claim`, an ending an `Ended`, `OpenSucceeds` an `Opened`, all else
stutters. `SlotHeld` is no invariant of a run, as the refinement implies it; it
is part of what makes `IInv` inductive.

`NoDeafSession` is false where a session's queue can be full: `unregister` uses
`try_send`, and drops the last event together with the route
([6](#6-what-the-models-say-of-the-code)). `NobodyIsDeaf` therefore has a hypothesis,
`Room == QueueCap > MaxBacklog + 4`: a queue holds what a client may be behind in
output and four frames more. The proof is that four is enough. `RoomOf` keeps an
account for each session: what is queued at the hub or on the wire (`Backlog`);
the answers the agent still owes it, two while a `PtyOpen` is on its way (the
opened or the error, and the end of its reader) and one while its reader runs
(`Answers`); and the frames other parties may still cause, a `PtyClose` on its way
or one that a take-over or its own client may yet send, never more than two
(`Orders`). Every step pays for what it adds: the open that enters a session
pays for its reader, a `PtyClose` that is carried out for the `PtyClosed` it
produces. That a reader is started once needs `OpenInv`, one `PtyOpen` for a
session. With room in the queue `HeardInv` is inductive, which says the same as
`NoDeafSession` of the sessions that are opening too. The configuration of the run
satisfies `Room` (6 and 1); the code's 1024 does for a client less than 1020
frames behind, counting what the wire still holds.

**WorkspaceOps.** `TokenInv` strengthens `LiveToolReachable`: outside `raced`,
the file agrees with the token in memory when there is one, and with the tool's
token when one runs. `Remembered` looks in memory first, so neither half is
enough alone: a restart clears the memory, a reset clears it while the file
stays. `RequestInv` carries the refinement: no outcome before the agent's task
is done, a result in the oneshot is this request's own outcome and its client is
still pending, no two handlers have the same request. `CatalogAgrees` speaks of
settled workspaces only; `LedgerInv` says what holds in between. A request is
*owed* while its answer still has to set the catalog right: a create whose row
has no directory yet, or a delete that has taken the directory and not the row.
A workspace outside `doubt` has at most one (`Agrees`): with one, there is a row
and no directory; with none, row and directory agree. What is asked has a client
that waits for it (`Accounted`), so a settled workspace owes nothing. A create
owes from its first step, a delete from the moment the agent removes the
directory, and every way a handler ends pays or leaves a doubt.

**Accounts.** Four invariants, each inductive on top of `TypeOK` alone but for
the last:

- `RevokeInv`: beside `RevocationStands`, that until a start of the hub has left
  its mark nothing has been revoked (`MarkInv`), since the hub serves only after
  the mark. So the one step that grants without an administrator, the seeding,
  finds nothing revoked, wherever the starts before were cut off.
- `AuditInv`: counter and rows of each invite agree, the rows are finitely many,
  and an invite that does not exist yet has neither rows nor a handler at work
  on it. The latter two make the insertion of a row one that counts.
- `OwnInv`: every token given out is below `nextId`, so that a new one is fresh,
  and an account with the token of a handler under way goes by the name the
  handler made it for. So the roll-back, which deletes by name, deletes the
  handler's own account or one made since, and leaves its own only if the
  statement fails (`stuck`).
- `LimitInv`: unless two acceptances of the invite overlapped, at most one handler
  is at work on it, and while it is, one use of the limit it read is left. It needs
  `AuditInv` for a fresh invite, which nobody is accepting.

**McpBridge.** The run has two sessions and three posts; the theorems hold for any
number of sessions, posts and connections of the tool. `IInv` has five parts:

- `PostInv`: a post that still moves belongs to the tool's connection that lives
  and to a session, and no connection uses a number twice, since `NextId` is
  above all it has used. So the entry a post writes into `pending` overwrites
  none of a post that waits. A handler of a former connection may still remove
  the entry of a new one (`CutPost`): the new one is then `cut`, not waiting.
- `WaiterInv`: beside the two properties, that every entry of `pending` is a post
  of its session under its own number. A result therefore reaches a post with
  the number of the one it answers; as numbers are not used twice, a different
  post with that number is one of another connection, which is the exception
  `AnswersOwnCall` makes.
- `ChannelInv`: what travels up a session are its posts and, once, how its open
  went; behind a `PtyOpened` that the hub has read there are only posts.
- `HostInv`: a host's cache begins with an initialize or a synthesized one, and
  is not empty while there is a process; its queue and its debts are posts of its
  own session; a replay under way has a frame that waits, on an open session.
- `DownInv`: what travels back in a session answers requests of it (`Returned`),
  or requests of another session of the same client that waited for their
  artifacts.

The parts lean on each other: an answer belongs to the right session because the
host was fed only posts of its session, because the channel carried only those.
The steps fall into two classes for the posts (`Settles`: handlers move on;
`Arrives`: one post more), and each part has one lemma over all steps.

**FileTransfer.** The run has two uploads or two downloads of two chunks; the
theorems hold for any number of both, of any size, over any number of
connections, and at the same time. An upload's step and a download's leave each
other's variables alone, so there are two invariants.

`UploadInv`: the frames of an upload on the wire are those of its task, an init,
chunks with rising numbers, an eof (`FramesInv`); until the init is read, the
upload has left nothing on the agent (`NewInv`); its file is a prefix of its source
and no other upload writes it (`ContentInv`); while the file is open no chunk is
missing between what was written, what is under way and what the task has sent
(`FlowInv`); so the count the agent answers with is that of the whole file
(`ResultInv`), and a file its task is done with has its eof on the way
(`ClosedInv`). `FlowInv` says of each chunk that it follows the file's last one or
another chunk's under way, and not where in the queue it stands: so taking a frame
from the front and adding one at the back each disturb one neighbour only. The
refinement of `FileDelivery` (`FilesAreDelivered`) follows step by step: writing a
chunk is a `Grow`, telling the user a `Tell`, and all else stutters.

`DownloadInv` describes the pipeline of one download from the body back to the
reader: the numbers of the chunks rise all the way (`Rising...`), and while no chunk
was dropped each is the successor of the one before it (`Gapless...`); a terminal
chunk is the last of its download and has taken the route away
(`LastFrame`, `LastItem`); a route has a reader that goes on or a terminal chunk on
the way (`RouteInv`). Dropping a chunk from a full channel breaks `Gapless...` and
nothing else, which is what `BodyFaithful` allows for. The hub needs no number
for this: order on the wire, one reader and one channel are enough.

**SessionLog.** Three invariants that share no part:

- `SessionsInv`: no handler and no detached write outlives the hub; a session that
  is over and whose start is still to be written is explained already. The last
  is why the two detached writes may come in either order.
- `SettingsInv`: unless a request was cut off between its statements, what is in the
  database was in force; a request that stands between them has written the
  first; and a daily task that has found the deletion enabled, untorn, finds it
  still enabled. The proof is what showed that an earlier form of the
  property was false: with *two* requests, the first cut off, the second
  completes the settings the daily task had read half of. The run has one request
  and could not show it. `half` and `torn` now tell the states apart.
- `ChartInv`: while the hourly pass sees the whole of a day, the table holds all
  that the day's bar counts. It rests on the retention being no shorter than the
  window: nothing is deleted of a day that is seen as a whole. So the hourly pass
  never writes a smaller number, but for the day its window begins in.

**PromptLog.** The run has one file and one session; the theorems hold for any
number of both, any logs, any length of the queue and any number of losses.
`LogInv` has six parts. `LogTypeOK`; `MemoryInv`: an agent that is down remembers
nothing; and

- `SweepInv`: what a sweep has still to ship are wanted lines between the offset and
  the last line it read, and all of them as long as it has shipped none.
- `AccountInv` carries `OffsetsAccounted`. The offset alone is not enough: in the
  middle of a sweep lines are shipped that the offset does not yet cover, and it
  then jumps to the last line read. So the account is of the lines a tailer has
  `Passed`: those up to its offset, and those of its sweep that are shipped or were
  not wanted. Nothing leaves the account but into `stored` or `dropped`, and where
  `dropped` is cleared, at a start of the agent, nothing is passed.
- `WatchInv`: a watcher ships with the one sender it was given, and one that was
  never started has not read anything.
- `CopyInv` carries `CopiesExplained`: a line its tailer has not passed has no copy,
  or as many as the audit task went back in the file. A failed send leaves the
  lines before it shipped and not passed. The audit task ships them again with
  the next sender, which `again` counts. It counts only a sweep that has shipped
  something, which is enough, as one that has shipped nothing has passed no wanted
  line (`SweepInv`). A watcher that shipped them again would make a second row, as
  `messages` has no constraint; it does not, since it keeps its sender, whose
  channel is closed for good (`Over`).

**Supervisor.** Two invariants:

- `DaemonInv`: `OneDaemon` needs that no two commands ran at once (`crossed`). While
  none did (`Orderly`), a supervisor that lives is named by the pid file or by the
  command about to write it, and a start that is about to spawn has seen that
  none lives. A child outlives its supervisor only after a kill.
- `LinksInv`: an update of a release that nobody else updates and no link names
  (`Alone`) writes files no link needs, and comes to the links with a whole
  binary; whatever is named by a link, or is about to be, is whole or `reworked`.
  Here, too, the proof corrected the model. "About to be" was missing: between
  reading `current` and making it `previous`, an update holds a release that no
  link may name any more, if `current` moved meanwhile; another update of just that
  release truncates what the first then links. The run's bounds were too small for it;
  `Linked` now has these releases, and an update that begins over them makes
  them `reworked`.

**Client.** Four invariants, each proved action by action.

- `StepInv` says how far client and hub may be apart. No answer carries a number,
  so everything rests on there being one question under way. As long as no save was
  refused on the connection, what is on the wire fits the client's `place` (`Fits`):
  nothing that is to be answered (`Quiet`); the one question it waits for, or its
  answer (`Asked`); an open, its answer, or a session the hub has opened
  (`Opening`); or the session, whose end is the last of its frames (`InSession`).
  Saves, uploads and input, which nobody answers, may stand anywhere. `Numbered`
  ties the one list on its way to the latest question. `ListCurrent` and
  `SessionAgreed` are read off it.
- `WebInv`: all copies of the preferences that are in the row, or on the wire and
  may yet be written to it, have the fields the web terminal last saved, and so
  has the copy of a menu that has loaded one, but for the two exceptions of
  `WebFieldsKept`.
- `DropInv`: of each task (`JobInv`): while its session goes on, the files it has
  yet to finish have their waiters or their answers, and the one it waits for is
  at the hub or its request or answer on the way (`UnderWay`), unless the end of
  the session is; once the session is over, nothing of it is routed, so that the
  wait is given up. Steps of one task leave the others' files alone (`OneJob`).

- `OrderInv` carries `OrderShown`, in two layers. The first is about the operators of
  `WorkspaceOrder`. `listed_less` is a strict order on any list of workspaces, whatever
  the stored positions (`ListedOrder`), and a finite set can be laid out in any
  strict order (`OrderedExists`); so the picker shows each workspace once, in that
  order (`SortFacts`). Pinning and moving produce the workspaces shown, each once,
  the pinned ones first (`ToggleFacts`, `MoveFacts`), and `apply_order` gives them ranks
  of which sorting makes the same sequence again, also when workspaces have left
  the list and others have come (`Ranks`, `RanksShown`). The second is about the
  copies. Unless a save was lost or refused, a menu could not load the row, or the
  web terminal wrote another order over it, every copy that can still become what the picker shows ranks the workspaces as the
  user arranged them: the row, or the save that will overwrite it, for as long as
  a menu may load it; the answer to a menu that loads; the menu's own copy. A save
  is followed by a question for the list and none stands behind one
  (`SavedFirst`), so the hub has the save when the client goes on to another page. On
  a dead wire only what had arrived is left to be shown (`Served`, `Loaded`).

Here the proof corrected two properties. The comment on saves says that a
failing one "only means it won't survive a reconnect" (`client/menu.rs:1250`). But
the hub answers it with an `error`, which the client takes for the answer to its
next question; the answer to that one is then taken for the next, and so on. An
`error` that should have been a list, read as the answer to an open, makes the
client wait for an agent that is there; a user who gives up then is in the menu
while the hub has opened the session, and every later open on that connection is
refused as "session already open" (`hub/pty_session.rs:758`). This takes four keys and two
faults, the run has three keys. `SessionAgreed` and
`SessionResumed` now except a connection on which a save was refused. `ListCurrent`
had allowed for one answer behind for each refusal, which fails for seven keys
and four faults; it now makes the same exception. The hub's refusal of an open
during a session (`hub/pty_session.rs:754`) was missing from the model and is part
of `HubOpen`.

**Checked with TLC only.** `TerminalFilters` has no proofs: it is about recursive
operators on sequences of bytes, which are out of the prover's reach. So are the
liveness properties (`OpenResolves`, `AgentLossEndsSession`, `CloseOrderEndsSession`,
`EventuallyLogged`, `BadUpdateUndone`, `SessionResumed`), as is anything with
`ENABLED`; facts by induction over data (the prover cannot instantiate the
library's induction theorems); and modules that declare `RECURSIVE` operators.

## 6 What the models say of the code

The passing properties hold of the code as modelled, with the exceptions they
name. One statement of the repository is kept as a run that must find a
counterexample, `workspace_deleted_in_use` (`DeleteSparesSession`): the check for
a workspace in use and the removal are two awaits apart, for clients
(`hub/pty_session.rs:1298`) and administrators (`hub/admin/api.rs:1297`); a session
opened in between loses its directory.

Other places where code and comment part, each reachable in the modules:

| Where | What happens | Module |
|---|---|---|
| `hub/pty_session.rs:862`, comment 853-859 | A session being opened is in `workspaces` before its route is registered. A take-over in between sends `PtyClose` for a session the agent does not know yet; the evicted client then opens and stays. | `PtySession` |
| `hub/registry.rs:82`, `hub/pty_session.rs:7-9` | `unregister` uses `try_send` for the last event. With a full queue it is dropped with the route, and the client's loop waits for ever. | `PtySession` with a small `QueueCap` |
| `agent/pty.rs:1026` | `PtyManager::close` drops its handle, but the reader thread has an `Arc` of its own: it reads on until the tool ends. | `PtySession` (`readers`) |
| `hub/pty_session.rs:954` | An open that timed out may still succeed on the agent; nobody closes it. | `PtySession`, `McpBridge` |
| `agent/pty.rs:1397`, `:622-634` | A reset retires the token in memory and keeps the file it is saved in; the next open adopts it again. | `WorkspaceOps` (`saved`) |
| `hub/pty_session.rs:957` | The session is attached before `PtyOpened` is sent. A call the tool posts in between is the first frame the hub sees, and is taken for an open that timed out. | `McpBridge` (`hub`) |
| `hub/pty_session.rs:1205-1213` | "no session open, so the agent can have no request waiting for this frame": a response is tagged with the session that is open when it arrives. The task that uploads its artifacts (`client/relay.rs:453-492`) outlives its session, so that the response may come in the next one and answer the call of the same number there. `AnswersOwnCall` excepts it. | `McpBridge` (`TransferEnds`) |
| `agent/mcp_proxy.rs:566`, `:579-582` | A handler that times out, or whose sender is dropped, removes whatever its key leads to. After a reconnect of the tool that may be the entry of a new post, which then fails at once as timed out. | `McpBridge` (`cut`) |
| `hub/app/api.rs:484-487` | "Backpressure is end-to-end: the agent awaits on its WS send when this handler's mpsc fills": when it fills, the hub drops the chunk instead (`try_send`, `hub/registry.rs:234`), the agent awaits nothing, and the download ends as a success with a hole in it. `BodyFaithful` excepts a download that lost a chunk, and says that it has no other fault. | `FileDownload` (`dropped`) |
| `hub/app/api.rs:526-530`, `:590` | The comment says that dropping the body cleans the route of a download; the clean-up is the last item of a stream nobody polls then. The entry goes with the last chunk instead (`RoutesHeld`). | `FileDownload` |
| `hub/app/api.rs:1302`, comment 1297-1300 | The account of an acceptance that failed is deleted, as "we'd rather the user retry with a fresh accept than be stuck with an un-whitelisted account". The result of that deletion is ignored: if it fails too, the account stays, with a token nobody was given, and a second try with the name is refused. `FailureLeavesNothing` excepts it. | `Accounts` (`stuck`) |
| `hub/db.rs:517` | "all days touched by rows with `ts >= since_secs`" are recomputed from those rows only: the day the window begins in loses its earlier messages, until no later pass sees it. `ChartKept` excepts that day, and a backfill repeated after a deletion, as its mark was not written or not read (`hub/db.rs:575`). | `SessionLog` |
| `agent/audit.rs:235`, `agent/jsonl.rs:162` | A "partial trailing line" is to be left for the next sweep (`agent/audit.rs:243`, `agent/jsonl.rs:131-133`). If it ends inside a character, the file cannot be read as text and the complete lines before it wait too, for ever if the tool writes no more. `EventuallyLogged` excepts that. | `PromptLog` (`clipped`) |
| `agent/audit.rs:28-29`, `hub/db.rs:340-342`, `:1595-1596` | A restart of the agent "relies on the hub's UNIQUE constraint to dedupe", which is said to keep re-tailing from duplicating every row. The constraint has `parent_uuid` in it, and two NULLs are different values: the first prompt of a conversation, which has no parent, gets one row more each time. `CopiesExplained` says that these and no others are repeated. | `PromptLog` (`again`) |
| `hub/db.rs:1389` | "Idempotency is the caller's job ... via jsonl_progress": the watcher's offsets are in memory only, but one watcher ships a line once, so rows repeat only by another session of the workspace. | `PromptLog` |
| `hub/admin/api.rs:1104` | A second update of the hub may run beside the first: `LinkedIntact` and its exception `reworked`. | `Supervisor` |
| `agent/supervise.rs:71` | A binary that cannot be spawned raises the failure count and is never rolled back. | `Supervisor` |
| `client/menu.rs:1250` | "a hub-side failure only means it won't survive a reconnect": the refusal is taken for the answer to the next question. The client is behind from then on, shows an older list, and may leave open a session it takes for refused (`ListCurrent`, `SessionAgreed`, `SessionResumed` except such a connection). | `Client` with 4 keys |
| `hub/pty_session.rs:556-558`, test `client/menu.rs:1595` | "The CLI read-modify-writes the whole blob, so webterm-owned fields survive." They survive `apply_order`, which is all the test does. The blob is read once when the menu starts: a save by the web terminal while the menu is open is overwritten by the next pin or move, and a menu that could not load the blob saves one without these fields. `WebFieldsKept` excepts the two (`web`, `load`). | `Client` (`Copied`) |
| `hub/app/api.rs:203-235`, `webterm/src/pages/Workbench.tsx:307-321`, `webterm/src/lib/preferences.ts:159-172` | The other direction: the web terminal writes back the order it loaded with its page, so that a change of its settings undoes what was pinned or moved in the picker since. `OrderShown` excepts it (`order`). | `Client` (`WebSaves`) |
| `client/mouse_filter.rs:5-6` | "the emulator never enters mouse reporting mode": an ESC inside a sequence makes the filter pass on both as they are, while a terminal starts over at the second ESC and enters the mode it sets. `MouseStaysLocal` excepts a tool that breaks off a sequence so. | `TerminalFilters` (`broken`) |
| `client/paste_detect.rs:119`, doc 22-23 | A lone Esc outside a paste is held back until the next byte, as it may begin a marker. | `TerminalFilters` (`Held`) |
| `client/input.rs:71` | An Esc right before `[` or `O` in one read is not told from a sequence (`Glued`). | `TerminalFilters` |

## 7 Not modelled

- The sandbox, both web user interfaces, scripts: they keep no state the rest of
  the system depends on, or only build text. The web terminal is one more client
  of the hub, without an MCP host, and the other writer of preferences.
- Terminal contents, layouts and panes, recording, resizes, keepalives: data
  passed through.
- Listing, renaming and removing files, path resolution: single steps on the
  agent's disk.
- Passwords, login sessions and cookies, rate limits, the kick of an account.
- Reports, the leaderboard, vacuum, the tokens of a message and their backfill, and
  audit events: queries and copies of rows.
- The GET stream and the tool manifest of the MCP proxy.
- The back-off of the agent's connection and the reading of configuration.
- Outside `Accounts`, `PromptLog`, `SessionLog` and `Client` a failing database
  statement is not modelled.
- The bound of the channel to an agent, on which a client's upload frames wait
  (`hub/pty_session.rs:1199`).
- In the menu, keys typed behind the one that leaves it, when both are in one chunk
  (`client/menu.rs:52-75`), go with the menu: `TerminalFilters` counts them as read by
  it.
- Real time: a timeout may fire whenever its wait is pending. No run shows how
  long anything takes.

## 8 Plan

1. The idle reaper and its activity times as actions of `PtySession`, so that the
   race of `agent/pty.rs:1569` can be stated; SelectAgent inside a session; the
   kick.
2. A fair `McpBridge` in which every post is answered or times out.
3. `TerminalFilters` with folds in place of recursive operators, so that lemmas
   about single steps of the filters can be proved.

## 9 Running it

    tlc -workers 2 -config PtySession.cfg MCPtySession
    tlc -workers 2 -config PtySessionLive.cfg MCPtySession
    tlc -workers 2 -config WorkspaceOps.cfg MCWorkspaceOps
    tlc -workers 2 -config McpBridge.cfg McpBridge
    tlc -workers 2 -config FileTransfer.cfg FileTransfer
    tlc -workers 2 -config Accounts.cfg MCAccounts
    tlc -workers 2 -config PromptLog.cfg MCPromptLog
    tlc -workers 2 -config SessionLog.cfg SessionLog
    tlc -workers 2 -config Supervisor.cfg Supervisor
    tlc -workers 2 -config Client.cfg MCClient
    tlc -workers 2 -config TerminalFilters.cfg MCTerminalFilters
    tlapm PtySession_proofs.tla
    tlapm WorkspaceOps_proofs.tla
    tlapm Accounts_proofs.tla
    tlapm McpBridge_proofs.tla
    tlapm FileTransfer_proofs.tla
    tlapm Logs_proofs.tla
    tlapm Supervisor_proofs.tla
    tlapm Client_proofs.tla

`PROJECT.json` lists the module of every configuration and the result to expect.
