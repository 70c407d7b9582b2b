------------------------------- MODULE Client -------------------------------
(***************************************************************************)
(* One run of the command-line client: the picker (menu.rs), the session   *)
(* loop with its reconnections (main.rs), the relay with its dropped files *)
(* (relay.rs), and the connection between them and the hub (wire.rs).      *)
(* The hub answers one frame after the other, as its connection loop does; *)
(* what it does inside an answer is the matter of other modules.           *)
(*                                                                         *)
(* No answer carries the request it answers: the client matches answers by *)
(* their kind and by the order in which they come.  The numbers of         *)
(* questions and sessions below are history, which the code does not have. *)
(*                                                                         *)
(* The user is free to press any key at any time.  Keys that change        *)
(* nothing but the cursor's way are left out, as are keepalives, resizes   *)
(* and the bytes of the terminal.                                          *)
(***************************************************************************)
EXTENDS WorkspaceOrder

CONSTANTS
  Workspaces,  \* the workspaces there may be, pairs <<agent, name>>
  Batch,       \* the batches of files there may be: what each is for, a
               \* drop or an artifact, and how many files it has
  None,
  MaxKeys,     \* bound: keys pressed in the menu, batches of files and saves
               \* of the web terminal
  MaxFaults    \* bound: lost links, agents and answers, files not readable

ASSUME ClientAssumption ==
  /\ Workspaces \subseteq (Nat \X Nat) /\ IsFiniteSet(Workspaces)
  /\ Batch \in Seq([for : {"drop", "artifact"}, files : Nat \ {0}])
  /\ MaxKeys \in Nat /\ MaxFaults \in Nat
  /\ None \notin Workspaces

VARIABLES
  place,     \* what the client is doing
  goal,      \* the operation under way: what, and on which workspace
  prefs,     \* the menu's copy of the preferences
  rows,      \* the picker's rows, in display order
  items,     \* the list the rows were made of
  cursor,    \* the highlighted row, 0 for none
  pending,   \* the workspace to highlight next, or None
  last,      \* the file with the last workspace opened, or None
  job,       \* the upload tasks: batch -> what it does, at which file,
             \* and whether its session (inject_rx) goes on
  waiters,   \* pending_uploads: the requests whose answer would be routed
  box,       \* the requests whose answer is in the channel of their task
  alive,     \* the wire still carries frames
  up,        \* frames on their way to the hub
  text,      \* frames on their way to the client
  stored,    \* the hub's row of preferences
  catalog,   \* the workspaces there are
  online,    \* the agents that are connected
  session,   \* the workspace of this connection's session, or None
  uploads,   \* the requests whose upload the hub performs
  page,      \* the web terminal's copy of the preferences
  keys, faults,
  \* history
  asked,     \* lists asked for on this wire
  shown,     \* the question that the list shown was the answer of
  refused,   \* saves refused on this wire
  arranged,  \* the order the user last gave, or << >>
  webSaved,  \* the web terminal's fields as it last saved them
  excused    \* what befell the preferences: the web terminal saved them
             \* while a menu was open (web) or with an order of its own
             \* (order), a menu could not load them, a save was refused or
             \* lost

menu  == <<prefs, rows, items, cursor, pending, last>>
drop  == <<job, waiters, box>>
wire  == <<alive, up, text>>
hub   == <<stored, catalog, online, session, uploads>>
bounds == <<keys, faults>>
\* What the operations of the client and the hub hardly touch: the history
\* and the web terminal.
history == <<asked, shown, refused, arranged, webSaved, excused, page>>
vars == <<place, goal, menu, drop, wire, hub, bounds, history>>

Agents == {w[1] : w \in Workspaces}
MenuPlaces == {"prefs", "list", "picker", "confirm", "message", "agents",
               "agent", "request", "recheck"}
Batches == DOMAIN Batch
Files(b) == {b} \X (1 .. Batch[b].files)  \* a request each
Requests == UNION {Files(b) : b \in Batches}
\* Before a batch is dropped, and when its task has ended.
Idle == [at |-> "none", file |-> 0, here |-> FALSE]
Over == [at |-> "done", file |-> 0, here |-> FALSE]
NoGoal == [op |-> "none", ws |-> None]

TypeOK ==
  /\ place \in MenuPlaces \cup {"open", "hold", "relay", "redial", "over"}
  /\ goal \in [op : {"none", "create", "delete", "reset", "open"},
               ws : Workspaces \cup {None}]
  /\ ToSet(rows) = DOMAIN items /\ DOMAIN items \subseteq Workspaces
  /\ cursor \in 0 .. Cardinality(Workspaces)
  /\ {pending, last} \subseteq Workspaces \cup {None}
  /\ DOMAIN prefs.order \subseteq Workspaces
  /\ DOMAIN stored.order \subseteq Workspaces
  /\ DOMAIN page.order \subseteq Workspaces
  /\ job \in [Batches ->
                [at : {"none", "send", "wait", "inject", "done"},
                 file : Nat, here : BOOLEAN]]
  /\ waiters \cup box \cup uploads \subseteq Requests
  /\ catalog \subseteq Workspaces /\ online \subseteq Agents
  /\ session \in catalog \cup {None}
  /\ ~alive => up = <<>> /\ session = None
  /\ faults \in 0 .. MaxFaults /\ keys \in 0 .. MaxKeys

Fault == faults < MaxFaults /\ faults' = faults + 1
Befalls(what) == excused' = excused \cup {what}
Key   == keys < MaxKeys /\ keys' = keys + 1

-----------------------------------------------------------------------------
(* The wire                                                                *)

\* What is sent on a dead wire is lost; the client learns of the death when
\* it has read what had arrived.
Sent(frames) == up' = IF alive THEN up \o frames ELSE up
SendOnly(f) == Sent(<<f>>) /\ UNCHANGED <<alive, text>>
Get == text # <<>> /\ text' = Tail(text) /\ UNCHANGED <<alive>>
GetOnly == Get /\ UNCHANGED up
GetAndSend(f) == Get /\ Sent(<<f>>)
Got(kinds) == text # <<>> /\ Head(text).t \in kinds
\* The receiver returns nothing more.
Lost == ~alive /\ text = <<>>

\* A question for the list, which the history numbers.
AskList == [t |-> "list", q |-> asked' ]
Open(w) == [t |-> "open", ws |-> w]

\* The frames a waiting client does not wait for are skipped.
Awaited ==
  CASE place = "prefs"   -> {"prefs", "error"}
    [] place = "list"    -> {"list", "error"}
    [] place \in {"agents", "recheck"} -> {"agents", "error"}
    [] place = "request" -> {goal.op, "error"}
    [] place = "open"    -> {"opened", "error"}
    [] OTHER             -> {}

Skip ==
  /\ Awaited # {} /\ text # <<>> /\ ~Got(Awaited)
  /\ GetOnly
  /\ UNCHANGED <<place, goal, menu, drop, hub, bounds, history>>

-----------------------------------------------------------------------------
(* The picker                                                              *)

\* A new run of the menu: it loads the preferences, once.
EnterMenu ==
  /\ place' = "prefs" /\ goal' = NoGoal
  /\ rows' = <<>> /\ items' = <<>> /\ cursor' = 0 /\ pending' = None
  /\ prefs' = NoPreferences

OnlyMenu == UNCHANGED <<drop, hub, faults, refused, webSaved, page>>

\* The list is asked for again before every key.
Relist ==
  /\ place' = "list" /\ goal' = NoGoal
  /\ asked' = asked + 1

PrefsLoaded ==
  /\ place = "prefs"
  /\ Got({"prefs", "error"})
  /\ prefs' = IF Got({"prefs"}) THEN Head(text).data ELSE NoPreferences
  /\ IF Got({"error"}) THEN Befalls("load") ELSE UNCHANGED excused
  /\ Relist /\ GetAndSend(AskList)
  /\ OnlyMenu
  /\ UNCHANGED <<rows, items, cursor, pending, last, keys, shown, arranged>>

PrefsLost ==
  /\ place = "prefs" /\ Lost
  /\ Relist
  /\ OnlyMenu
  /\ UNCHANGED <<menu, wire, keys, shown, arranged, excused>>

\* Which row is highlighted when none was: the one just worked on, else the
\* one opened last, else the first.
InitialRow(sorted) ==
  LET w == IF pending # None THEN pending ELSE last
  IN  IF w \in ToSet(sorted) THEN Position(sorted, w) ELSE 1

\* The highlight may lie beyond the rows of a list that became shorter.
Show(list) ==
  LET sorted == sort_workspaces(parse_order(prefs), list) IN
  /\ items' = list /\ rows' = sorted
  /\ cursor' = IF cursor = 0 /\ sorted # <<>> THEN InitialRow(sorted)
               ELSE cursor
  /\ pending' = None
  /\ place' = "picker"

\* A bug the properties must catch: whatever arrives is taken for the answer.
TakeAnyAnswer ==
  /\ place = "list" /\ text # <<>>
  /\ Show(IF Head(text).t = "list" THEN Head(text).items ELSE <<>>)
  /\ shown' = IF Head(text).t = "list" THEN Head(text).q ELSE shown
  /\ GetOnly /\ OnlyMenu
  /\ UNCHANGED <<goal, prefs, last, keys, asked, arranged, excused>>
ListShown ==
  /\ place = "list"
  /\ \/ Got({"list"}) /\ Show(Head(text).items) /\ shown' = Head(text).q
     \/ Got({"error"}) /\ Show(<<>>) /\ UNCHANGED shown
  /\ GetOnly /\ OnlyMenu
  /\ UNCHANGED <<goal, prefs, last, keys, asked, arranged, excused>>

\* Without the hub the program ends.
ListLost ==
  /\ place \in {"list", "agents", "request"} /\ Lost
  /\ place' = "over"
  /\ UNCHANGED <<goal, menu, drop, wire, hub, bounds, history>>

Chosen == rows[cursor]
HasChosen == cursor \in DOMAIN rows

Quit ==
  /\ place = "picker" /\ Key
  /\ place' = "over"
  /\ SendOnly([t |-> "close"])
  /\ OnlyMenu
  /\ UNCHANGED <<goal, menu, asked, shown, arranged, excused>>

Down(c) == (c % Len(rows)) + 1

\* A key that moves the highlight, or does nothing when there are no rows.
Move ==
  /\ place = "picker" /\ Key
  /\ cursor' = IF rows = <<>> THEN cursor ELSE Down(cursor)
  /\ Relist /\ SendOnly(AskList)
  /\ OnlyMenu
  /\ UNCHANGED <<prefs, rows, items, pending, last, shown, arranged, excused>>

AskConfirm ==
  /\ place = "picker" /\ Key /\ HasChosen
  /\ \E op \in {"delete", "reset"} : goal' = [op |-> op, ws |-> Chosen]
  /\ place' = "confirm"
  /\ OnlyMenu
  /\ UNCHANGED <<menu, wire, asked, shown, arranged, excused>>

Confirm ==
  /\ place = "confirm" /\ Key
  /\ place' = "request"
  /\ SendOnly([t |-> goal.op, ws |-> goal.ws])
  /\ OnlyMenu
  /\ UNCHANGED <<goal, menu, asked, shown, arranged, excused>>

Decline ==
  /\ place \in {"confirm", "agent"} /\ Key
  /\ Relist /\ SendOnly(AskList)
  /\ OnlyMenu
  /\ UNCHANGED <<menu, shown, arranged, excused>>

Dismiss ==
  /\ place = "message" /\ Key
  /\ cursor' = IF goal.op \in {"delete", "reset"} THEN 0 ELSE cursor
  /\ Relist /\ SendOnly(AskList)
  /\ OnlyMenu
  /\ UNCHANGED <<prefs, rows, items, pending, last, shown, arranged, excused>>

\* The change is made on the menu's copy and the whole copy is written.
Rearranged(order, w, p) ==
  /\ prefs' = p
  /\ arranged' = order
  /\ pending' = w /\ cursor' = 0
  /\ Relist /\ Sent(<<[t |-> "save", data |-> p], AskList>>)
  /\ UNCHANGED <<alive, text>>

TogglePin ==
  /\ place = "picker" /\ Key /\ HasChosen
  /\ Rearranged(toggled_keys(prefs, rows, Chosen), Chosen,
                toggle_pin(prefs, rows, Chosen))
  /\ OnlyMenu
  /\ UNCHANGED <<rows, items, last, shown, excused>>

MoveWorkspace ==
  /\ place = "picker" /\ Key /\ HasChosen
  /\ \E upwards \in BOOLEAN :
       /\ can_move(prefs, rows, Chosen, upwards)
       /\ Rearranged(moved_keys(prefs, rows, Chosen, upwards), Chosen,
                     move_workspace(prefs, rows, Chosen, upwards))
  /\ OnlyMenu
  /\ UNCHANGED <<rows, items, last, shown, excused>>

\* The dialog of a new workspace: the name is given, then the agents are
\* asked for.
NameGiven ==
  /\ place = "picker" /\ Key
  /\ \E w \in Workspaces : goal' = [op |-> "create", ws |-> w]
  /\ place' = "agents"
  /\ SendOnly([t |-> "agents"])
  /\ OnlyMenu
  /\ UNCHANGED <<menu, asked, shown, arranged, excused>>

\* The agents to choose from; the dialog ends the program on an error.
AgentsListed ==
  /\ place = "agents"
  /\ \/ Got({"error"}) /\ place' = "over"
     \/ /\ Got({"agents"})
        /\ place' = IF Head(text).agents = {} THEN "message" ELSE "agent"
  /\ GetOnly
  /\ goal' = IF Got({"agents"}) /\ goal.ws[1] \notin Head(text).agents
             THEN NoGoal ELSE goal
  /\ UNCHANGED <<menu, drop, hub, bounds, history>>

AgentPicked ==
  /\ place = "agent" /\ Key /\ goal # NoGoal
  /\ place' = "request"
  /\ SendOnly([t |-> "create", ws |-> goal.ws])
  /\ OnlyMenu
  /\ UNCHANGED <<goal, menu, asked, shown, arranged, excused>>

Requested ==
  /\ place = "request" /\ Got({goal.op})
  /\ cursor' = 0
  /\ pending' = IF goal.op = "create" THEN goal.ws ELSE pending
  /\ Relist /\ GetAndSend(AskList)
  /\ OnlyMenu
  /\ UNCHANGED <<prefs, rows, items, last, keys, shown, arranged, excused>>

RequestRefused ==
  /\ place = "request" /\ Got({"error"})
  /\ place' = "message"
  /\ GetOnly
  /\ UNCHANGED <<goal, menu, drop, hub, bounds, history>>

-----------------------------------------------------------------------------
(* Opening a session                                                       *)

\* Out of the menu: whatever it knew is dropped.
LeaveMenu(w) ==
  /\ place' = "open" /\ goal' = [op |-> "open", ws |-> w]
  /\ last' = w
  /\ rows' = <<>> /\ items' = <<>> /\ cursor' = 0 /\ pending' = None
  /\ prefs' = NoPreferences

Pick ==
  /\ place = "picker" /\ Key /\ HasChosen
  /\ \/ /\ items[Chosen]
        /\ LeaveMenu(Chosen) /\ SendOnly(Open(Chosen))
     \/ /\ ~items[Chosen]
        /\ place' = "recheck" /\ goal' = [op |-> "open", ws |-> Chosen]
        /\ SendOnly([t |-> "agents"]) /\ UNCHANGED menu
  /\ OnlyMenu
  /\ UNCHANGED <<asked, shown, arranged, excused>>

\* A row shown as offline is confirmed before it is believed.
Rechecked ==
  /\ place = "recheck"
  /\ \/ /\ Got({"agents"}) /\ goal.ws[1] \in Head(text).agents
        /\ LeaveMenu(goal.ws) /\ GetAndSend(Open(goal.ws))
     \/ /\ \/ Got({"agents"}) /\ goal.ws[1] \notin Head(text).agents /\ GetOnly
           \/ Got({"error"}) /\ GetOnly
           \/ Lost /\ UNCHANGED wire
        /\ place' = "message" /\ UNCHANGED <<goal, menu>>
  /\ UNCHANGED <<drop, hub, bounds, history>>

\* A bug the properties must catch: whatever arrives means success.
OpenedByAny ==
  /\ place = "open" /\ text # <<>>
  /\ place' = "relay"
  /\ GetOnly
  /\ UNCHANGED <<goal, menu, drop, hub, bounds, history>>
Opened ==
  /\ place = "open" /\ Got({"opened"})
  /\ place' = "relay"
  /\ GetOnly
  /\ UNCHANGED <<goal, menu, drop, hub, bounds, history>>

OpenRefused ==
  /\ place = "open" /\ Got({"error"})
  /\ place' = "hold"
  /\ GetOnly
  /\ UNCHANGED <<goal, menu, drop, hub, bounds, history>>

\* The banner is up until the next try.
TryAgain ==
  /\ place = "hold"
  /\ place' = "open"
  /\ SendOnly(Open(goal.ws))
  /\ UNCHANGED <<goal, menu, drop, hub, bounds, history>>

GiveUp ==
  /\ place = "hold" /\ Key
  /\ EnterMenu /\ SendOnly([t |-> "prefs"])
  /\ UNCHANGED <<last, drop, hub, faults, history>>

\* The tasks' frames go to the dead wire from now on.
HubLost ==
  /\ place \in {"open", "relay"} /\ ~alive
  /\ text = <<>> \/ place = "relay"
  /\ place' = "redial"
  /\ job' = [b \in Batches |-> Idle] /\ waiters' = {} /\ box' = {}
  /\ UNCHANGED <<goal, menu, wire, hub, bounds, history>>

\* A new connection, on which the same workspace is opened.
Reconnected ==
  /\ place = "redial"
  /\ alive' = TRUE /\ text' = <<>> /\ up' = <<Open(goal.ws)>>
  /\ place' = "open"
  /\ asked' = 0 /\ shown' = 0 /\ refused' = 0
  /\ UNCHANGED <<goal, menu, drop, hub, bounds, arranged, webSaved,
                 excused, page>>

\* The menu follows, on the wire that is dead.
ReconnectRejected ==
  /\ place = "redial" /\ Fault
  /\ EnterMenu
  /\ UNCHANGED <<last, drop, wire, hub, keys, history>>

ReconnectCancelled ==
  /\ place = "redial" /\ Key
  /\ place' = "over"
  /\ UNCHANGED <<goal, menu, drop, wire, hub, faults, history>>

-----------------------------------------------------------------------------
(* In a session                                                            *)

OnlyDrop == UNCHANGED <<place, goal, menu, hub, bounds, history>>

\* The end of a session: a lost agent is waited for, any other end leads back
\* to the menu.  The upload tasks go on; their answers are no longer routed.
\* A bug the properties must catch: nobody asks for the session again.
SessionEndsQuietly ==
  /\ place = "relay" /\ Got({"closed"})
  /\ waiters' = {} /\ job' = [b \in Batches |-> [job[b] EXCEPT !.here = FALSE]]
  /\ \/ /\ Head(text).reason = "agent"
        /\ place' = "open" /\ GetOnly
        /\ UNCHANGED <<goal, menu>>
     \/ /\ Head(text).reason # "agent"
        /\ EnterMenu /\ GetAndSend([t |-> "prefs"])
        /\ UNCHANGED last
  /\ UNCHANGED <<box, hub, bounds, history>>
SessionEnds ==
  /\ place = "relay" /\ Got({"closed"})
  /\ waiters' = {} /\ job' = [b \in Batches |-> [job[b] EXCEPT !.here = FALSE]]
  /\ \/ /\ Head(text).reason = "agent"
        /\ place' = "open" /\ GetAndSend(Open(goal.ws))
        /\ UNCHANGED <<goal, menu>>
     \/ /\ Head(text).reason # "agent"
        /\ EnterMenu /\ GetAndSend([t |-> "prefs"])
        /\ UNCHANGED last
  /\ UNCHANGED <<box, hub, bounds, history>>

\* A bug the properties must catch: only the first file can be answered.
DropOne(b) ==
  /\ place = "relay" /\ job[b].at = "none" /\ Key
  /\ job' = [job EXCEPT ![b] = [at |-> "send", file |-> 1, here |-> TRUE]]
  /\ waiters' = waiters \cup {<<b, 1>>}
  /\ UNCHANGED <<place, goal, menu, hub, faults, history, wire, box>>
\* Files are dropped, or the browser's answer names files it made: a task
\* uploads one after the other.
Drop(b) ==
  /\ place = "relay" /\ job[b].at = "none" /\ Key
  /\ job' = [job EXCEPT ![b] = [at |-> "send", file |-> 1, here |-> TRUE]]
  /\ waiters' = waiters \cup Files(b)
  /\ UNCHANGED <<place, goal, menu, hub, faults, history, wire, box>>

Request(b) == <<b, job[b].file>>
NextJob(b) ==
  LET j == job[b] IN
  job' = [job EXCEPT ![b] =
            IF j.file < Batch[b].files
            THEN [at |-> "send", file |-> j.file + 1, here |-> j.here]
            ELSE [at |-> "inject", file |-> 0, here |-> j.here]]

\* The file is read after the upload was announced; when it cannot be, the
\* task goes on and the upload stays without its end.
Upload(b) ==
  /\ job[b].at = "send"
  /\ \/ job' = [job EXCEPT ![b].at = "wait"] /\ UNCHANGED faults
     \/ NextJob(b) /\ Fault
  /\ SendOnly([t |-> "upload", r |-> Request(b)])
  /\ UNCHANGED <<place, goal, menu, hub, keys, history, waiters, box>>

UploadAnswered(b) ==
  /\ job[b].at = "wait" /\ Request(b) \in box
  /\ NextJob(b) /\ box' = box \ {Request(b)}
  /\ OnlyDrop /\ UNCHANGED <<wire, waiters>>

\* The session is over that would have passed the answer on.
UploadGivenUp(b) ==
  /\ job[b].at = "wait" /\ Request(b) \notin box \cup waiters
  /\ NextJob(b)
  /\ OnlyDrop /\ UNCHANGED <<wire, waiters, box>>

\* The mentions are typed into the session of the drop, if that goes on.
Inject(b) ==
  /\ job[b].at = "inject" /\ Batch[b].for = "drop"
  /\ job' = [job EXCEPT ![b] = Over]
  /\ IF job[b].here THEN SendOnly([t |-> "input"]) ELSE UNCHANGED wire
  /\ OnlyDrop /\ UNCHANGED <<waiters, box>>

\* The answer, with its links rewritten, is sent whatever became of the
\* session.
Respond(b) ==
  /\ job[b].at = "inject" /\ Batch[b].for = "artifact"
  /\ job' = [job EXCEPT ![b] = Over]
  /\ SendOnly([t |-> "input"])
  /\ OnlyDrop /\ UNCHANGED <<waiters, box>>

\* An answer goes to the task that waits for it, if one does.
RouteResult ==
  /\ place = "relay" /\ Got({"result"})
  /\ box' = box \cup ({Head(text).r} \cap waiters)
  /\ waiters' = waiters \ {Head(text).r}
  /\ GetOnly /\ OnlyDrop /\ UNCHANGED job

RelaySkips ==
  /\ place = "relay" /\ text # <<>> /\ ~Got({"closed", "result"})
  /\ GetOnly
  /\ UNCHANGED <<place, goal, menu, drop, hub, bounds, history>>

-----------------------------------------------------------------------------
(* The hub and the others                                                  *)

OnlyHub == UNCHANGED <<place, goal, menu, drop, alive, keys, arranged, asked,
                       shown, page>>
Take(t) == alive /\ up # <<>> /\ Head(up).t = t /\ up' = Tail(up)
Reply(f) == text' = Append(text, f)
ErrorReply == Reply([t |-> "error"])
Frame == Head(up)

HubList ==
  /\ Take("list")
  /\ \/ /\ Reply([t |-> "list", q |-> Frame.q,
                  items |-> [w \in catalog |-> w[1] \in online]])
        /\ UNCHANGED faults
     \/ Fault /\ ErrorReply
  /\ OnlyHub /\ UNCHANGED <<hub, refused, webSaved, excused>>

HubAgents ==
  /\ Take("agents")
  /\ Reply([t |-> "agents", agents |-> online])
  /\ OnlyHub
  /\ UNCHANGED <<hub, faults, refused, webSaved, excused>>

\* A row that cannot be read is answered as no preferences at all.
HubPrefs ==
  /\ Take("prefs")
  /\ \/ /\ Reply([t |-> "prefs", data |-> stored])
        /\ UNCHANGED <<faults, excused>>
     \/ /\ Fault /\ Reply([t |-> "prefs", data |-> NoPreferences])
        /\ Befalls("load")
  /\ OnlyHub /\ UNCHANGED <<hub, refused, webSaved>>

\* The whole row is replaced; only a failure is answered.
HubSave ==
  /\ Take("save")
  /\ \/ /\ stored' = Frame.data
        /\ UNCHANGED <<text, faults, refused, excused>>
     \/ /\ Fault /\ ErrorReply
        /\ refused' = refused + 1 /\ Befalls("save") /\ UNCHANGED stored
  /\ OnlyHub
  /\ UNCHANGED <<catalog, online, session, uploads, webSaved>>

\* The operations on a workspace, as far as the picker sees them.
Done(op, w) ==
  CASE op = "create" -> catalog \cup {w}
    [] op = "delete" -> catalog \ {w}
    [] OTHER         -> catalog
Accepted(op, w) ==
  /\ w[1] \in online
  /\ (w \in catalog) = (op # "create")

HubOperation ==
  \E op \in {"create", "delete", "reset"} :
    /\ Take(op)
    /\ IF Accepted(op, Frame.ws)
       THEN Reply([t |-> op]) /\ catalog' = Done(op, Frame.ws)
       ELSE ErrorReply /\ UNCHANGED catalog
    /\ OnlyHub
    /\ UNCHANGED <<stored, online, session, uploads, faults, refused,
                   webSaved, excused>>

HubOpen ==
  /\ Take("open")
  /\ \/ /\ session = None
        /\ Frame.ws \in catalog /\ Frame.ws[1] \in online
        /\ session' = Frame.ws
        /\ Reply([t |-> "opened"]) /\ UNCHANGED faults
     \/ /\ \/ session # None
           \/ Frame.ws \notin catalog \/ Frame.ws[1] \notin online
        /\ ErrorReply /\ UNCHANGED <<session, faults>>
     \/ Fault /\ ErrorReply /\ UNCHANGED session
  /\ OnlyHub
  /\ UNCHANGED <<stored, catalog, online, uploads, refused,
                 webSaved, excused>>

HubUpload ==
  /\ Take("upload")
  /\ uploads' = uploads \cup {Frame.r}
  /\ OnlyHub
  /\ UNCHANGED <<text, stored, catalog, online, session, faults,
                 refused, webSaved, excused>>

UploadEnds ==
  /\ alive
  /\ \E u \in uploads :
       /\ uploads' = uploads \ {u}
       /\ Reply([t |-> "result", r |-> u])
  /\ OnlyHub
  /\ UNCHANGED <<up, stored, catalog, online, session, faults, refused,
                 webSaved, excused>>

\* What is meant for the session reaches its agent, or nobody.
HubInput ==
  /\ Take("input")
  /\ OnlyHub
  /\ UNCHANGED <<text, hub, faults, refused, webSaved, excused>>

\* The program ends, and with it the connection.
HubClose ==
  /\ Take("close")
  /\ session' = None
  /\ OnlyHub
  /\ UNCHANGED <<text, stored, catalog, online, uploads, faults,
                 refused, webSaved, excused>>

EndSession(reason) ==
  /\ session' = None
  /\ Reply([t |-> "closed", reason |-> reason])
  /\ OnlyHub
  /\ UNCHANGED <<up, stored, catalog, uploads, refused,
                 webSaved, excused>>

\* The tool exits, or another client takes the workspace over.
ToolEnds ==
  /\ session # None /\ Fault
  /\ EndSession("pty") /\ UNCHANGED online

\* The agent reports an error of the session, which goes on.
ToolFails ==
  /\ session # None /\ Fault
  /\ ErrorReply
  /\ OnlyHub
  /\ UNCHANGED <<up, hub, refused, webSaved, excused>>

\* An agent disconnects, and the session on it ends.
AgentDrops ==
  /\ Fault
  /\ \E a \in online :
       /\ online' = online \ {a}
       /\ IF session # None /\ session[1] = a THEN EndSession("agent")
          ELSE /\ OnlyHub
               /\ UNCHANGED <<up, text, stored, catalog, session, uploads,
                              refused, webSaved, excused>>

AgentReturns ==
  /\ \E a \in Agents \ online : online' = online \cup {a}
  /\ OnlyHub
  /\ UNCHANGED <<up, text, stored, catalog, session, uploads, faults,
                 refused, webSaved, excused>>

\* The connection is lost, or an administrator ends it: some of what the hub
\* had sent still arrives.
WireDies ==
  /\ alive /\ Fault
  /\ alive' = FALSE /\ up' = <<>> /\ session' = None
  /\ \E i \in 0 .. Len(text) : text' = SubSeq(text, 1, i)
  /\ uploads' = {}
  /\ IF \E i \in DOMAIN up : up[i].t = "save" THEN Befalls("save")
     ELSE UNCHANGED excused
  /\ UNCHANGED <<place, goal, menu, drop, stored, catalog, online, keys,
                 asked, shown, refused, arranged, webSaved, page>>

\* A workspace nobody is attached to is deleted by an administrator.
AdminDeletes ==
  /\ Fault
  /\ \E w \in catalog \ {session} : catalog' = catalog \ {w}
  /\ OnlyHub
  /\ UNCHANGED <<up, text, stored, online, session, uploads, refused,
                 webSaved, excused>>

\* The menu's copy, or what it is about to be, is older than the row.
Copied ==
  \/ place \in MenuPlaces \ {"prefs"}
  \/ \E i \in DOMAIN text : text[i].t = "prefs"
  \/ \E i \in DOMAIN up : up[i].t = "save"

OnlyWeb == UNCHANGED <<place, goal, menu, drop, wire, catalog, online, session,
                       uploads, asked, shown, refused, arranged>>

\* The web terminal loads the row, or works on with none when it cannot.
WebLoads ==
  /\ keys < MaxKeys
  /\ \/ page' = stored /\ UNCHANGED faults
     \/ page' = NoPreferences /\ Fault
  /\ OnlyWeb /\ UNCHANGED <<stored, keys, webSaved, excused>>

\* It changes its own fields and writes its whole copy, the order included.
WebSaves ==
  /\ Key
  /\ page' = [page EXCEPT !.web = keys']
  /\ \/ /\ stored' = page' /\ webSaved' = keys'
        /\ excused' = excused \cup (IF Copied THEN {"web"} ELSE {})
                               \cup (IF page.order # stored.order
                                     THEN {"order"} ELSE {})
        /\ UNCHANGED faults
     \/ Fault /\ UNCHANGED <<stored, webSaved, excused>>
  /\ OnlyWeb

-----------------------------------------------------------------------------
Init ==
  /\ place = "prefs" /\ goal = NoGoal
  /\ prefs = NoPreferences /\ rows = <<>> /\ items = <<>>
  /\ cursor = 0 /\ pending = None /\ last = None
  /\ job = [b \in Batches |-> Idle] /\ waiters = {} /\ box = {}
  /\ alive = TRUE /\ up = <<[t |-> "prefs"]>> /\ text = <<>>
  /\ stored = NoPreferences /\ page = NoPreferences
  /\ catalog = Workspaces /\ online = Agents
  /\ session = None /\ uploads = {}
  /\ keys = 0 /\ faults = 0
  /\ asked = 0 /\ shown = 0 /\ refused = 0 /\ arranged = <<>>
  /\ webSaved = 0 /\ excused = {}

Menu ==
  \/ PrefsLoaded \/ PrefsLost \/ ListShown \/ ListLost \/ Quit \/ Move
  \/ AskConfirm \/ Confirm \/ Decline \/ Dismiss \/ TogglePin
  \/ MoveWorkspace \/ NameGiven \/ AgentsListed \/ AgentPicked \/ Requested
  \/ RequestRefused \/ Pick \/ Rechecked
Session ==
  \/ Opened \/ OpenRefused \/ TryAgain \/ GiveUp \/ HubLost \/ Reconnected
  \/ ReconnectRejected \/ ReconnectCancelled
Relay ==
  \/ SessionEnds \/ RouteResult \/ RelaySkips
  \/ \E b \in Batches :
       \/ Drop(b) \/ Upload(b) \/ UploadAnswered(b) \/ UploadGivenUp(b)
       \/ Inject(b) \/ Respond(b)
Hub ==
  \/ HubList \/ HubAgents \/ HubPrefs \/ HubSave \/ HubOperation \/ HubOpen
  \/ HubUpload \/ UploadEnds \/ HubInput \/ HubClose
World ==
  \/ ToolEnds \/ ToolFails \/ AgentDrops \/ AgentReturns \/ WireDies
  \/ AdminDeletes \/ WebLoads \/ WebSaves

Next == Menu \/ Skip \/ Session \/ Relay \/ Hub \/ World

\* The client reads what arrives, tries again and reconnects; the hub handles
\* what it is sent; agents come back.
Fairness ==
  /\ WF_vars(Skip \/ RelaySkips \/ SessionEnds \/ RouteResult)
  /\ WF_vars(Opened \/ OpenRefused)
  /\ WF_vars(TryAgain) /\ WF_vars(HubLost) /\ WF_vars(Reconnected)
  /\ WF_vars(Hub) /\ WF_vars(AgentReturns)

Spec == Init /\ [][Next]_vars /\ Fairness

-----------------------------------------------------------------------------
(* Properties                                                              *)

\* The picker shows the answer to its latest question (menu.rs,
\* list_workspaces), unless a save of the preferences was refused on this
\* connection: the refusal, which nobody waits for, is taken for an answer, and
\* from then on the client may be behind by one.
ListCurrent ==
  place = "picker" /\ DOMAIN items # {} /\ refused = 0 => shown = asked

Before(s, a, b) == \E i, j \in DOMAIN s : i < j /\ s[i] = a /\ s[j] = b

\* The order the user gave by pinning and moving is the order the picker
\* shows from then on, whichever agents go and come, unless a save did not
\* reach the row, a menu could not load it, or the web terminal wrote another
\* order over it (menu.rs, apply_order and sort_workspaces).
OrderShown ==
  place = "picker" /\ excused \cap {"load", "save", "order"} = {} =>
    \A a, b \in ToSet(arranged) \cap ToSet(rows) :
      Before(rows, a, b) <=> Before(arranged, a, b)

\* What the web terminal saved stays in the row when the client writes its
\* copy of it, unless it was saved while a menu was open or a menu could not
\* load the row (menu.rs, run_inner; pty_session.rs, SetPreferences).
WebFieldsKept == excused \cap {"load", "web"} = {} => stored.web = webSaved

\* Client and hub agree on the session of a live connection: in the relay it
\* is the one that was asked for, or its end is on the way; in the menu there
\* is none (main.rs, session_loop; relay.rs, relay_loop).  A client that is
\* behind by an answer, as a save was refused, may leave a session open that it
\* takes for refused.
SessionAgreed ==
  alive /\ refused = 0 =>
    /\ place = "relay" =>
         \/ session = goal.ws
         \/ \E i \in DOMAIN text : text[i].t = "closed"
    /\ place \in MenuPlaces => session = None

\* A file that is being uploaded gets its answer: the answer, or the end of
\* the session, is under way, or the session is over and the task gives up
\* (relay.rs, spawn_upload and pending_uploads).
DropsAnswered ==
  \A b \in Batches : job[b].at = "wait" /\ alive =>
    LET r == Request(b) IN
        \/ r \in box
        \/ r \notin waiters /\ ~job[b].here
        \/ /\ r \in waiters /\ job[b].here
           /\ \/ r \in uploads
              \/ \E i \in DOMAIN up : up[i].t = "upload" /\ up[i].r = r
              \/ \E i \in DOMAIN text :
                   \/ text[i].t = "result" /\ text[i].r = r
                   \/ text[i].t = "closed"

\* A session that is being opened, or opened again after its agent or the hub
\* was lost, is opened in the end, unless the user gives up, its workspace is
\* gone, or client and hub are out of step as a save was refused (main.rs,
\* session_loop).
SessionResumed ==
  place \in {"open", "hold", "redial"}
    ~> \/ place \notin {"open", "hold", "redial"}
       \/ goal.ws \notin catalog \/ refused > 0
=============================================================================
