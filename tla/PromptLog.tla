----------------------------- MODULE PromptLog -----------------------------
(***************************************************************************)
(* How what claude writes to its logs reaches the hub's database: the      *)
(* agent's audit task (agent/audit.rs), which follows every log for the    *)
(* prompts a person typed, one watcher per open PTY session                *)
(* (agent/jsonl.rs), which ships every line of the workspace, the link     *)
(* that carries their frames (agent/ws.rs) and the detached inserts of the *)
(* hub (hub/ws_handler.rs, hub/db.rs).                                     *)
(***************************************************************************)
EXTENDS Naturals, Sequences, FiniteSets, SequencesExt

CONSTANTS
  Files,    \* claude's logs, one per conversation
  Log,      \* file -> the lines claude writes to it
  Ptys,     \* PTY sessions of the workspace the logs belong to
  SEND_QUEUE, \* frames a link can hold
  MaxLinks, \* bound: connections of the agent
  MaxLosses   \* bound: inserts that fail, stops of the agent or of the hub

Lines == [type : {"user", "other", "junk"},  \* "junk" is no JSON
          cwd : {"workspace", "elsewhere"},
          content : {"text", "noise", "tool"},
          parent : BOOLEAN]                  \* it has a parentUuid

ASSUME LogAssumption ==
  /\ Log \in [Files -> Seq(Lines)]
  /\ SEND_QUEUE \in Nat \ {0} /\ MaxLinks \in Nat /\ MaxLosses \in Nat
  /\ "audit" \notin Ptys

Tailers == {"audit"} \cup Ptys
Frames == UNION {{<<o, f, n>> : n \in 1 .. Len(Log[f])} :
                   o \in Tailers, f \in Files}

VARIABLES
  disk,     \* file -> complete lines in it
  partial,  \* files that end with part of a line
  clipped,  \* files that end inside a character of that line
  agentUp,  \* the agent runs
  hubUp,    \* the hub runs
  links,    \* connections made; the last one is the current one, if any
  slot,     \* the sender in the audit task's SenderSlot; 0 is none
  open,     \* that sender's channel has a receiver
  transit,  \* frames in the channel or on the wire
  watch,    \* session -> the link whose sender its watcher has; 0 is none
  told,     \* sessions whose watcher was told to stop
  offsets,  \* tailer -> file -> lines it is past
  sweep,    \* tailer -> the sweep it is at
  inserts,  \* frame -> inserts spawned and not done
  stored,   \* frame -> rows in user_interactions or messages
  losses,
  \* history
  dropped,  \* frames that were lost since the agent started
  again     \* file -> times the audit task went back in it

agentVars == <<agentUp, offsets, sweep, watch, told>>
linkVars  == <<links, slot, open, transit>>
hubVars   == <<hubUp, inserts, stored>>
fileVars  == <<disk, partial, clipped>>
pastVars  == <<dropped, again>>
logVars == <<fileVars, agentVars, linkVars, hubVars, losses, pastVars>>

Resting == [at |-> "rest"]
Unread == [f \in Files |-> 0]

\* A sweep in the middle of a file
Reading == [at : {"file"}, tx : Nat, file : Files, batch : SUBSET Nat,
            last : Nat, sent : BOOLEAN]

LogTypeOK ==
  /\ disk \in [Files -> Nat] /\ \A f \in Files : disk[f] <= Len(Log[f])
  /\ partial \subseteq {f \in Files : disk[f] < Len(Log[f])}
  /\ clipped \subseteq partial
  /\ agentUp \in BOOLEAN /\ hubUp \in BOOLEAN
  /\ links \in 0 .. MaxLinks /\ slot \in {0, links} /\ open \in BOOLEAN
  /\ transit \in Seq(Frames) /\ Len(transit) <= SEND_QUEUE
  /\ watch \in [Ptys -> 0 .. links] /\ told \subseteq Ptys
  /\ offsets \in [Tailers -> [Files -> Nat]]
  /\ \A o \in Tailers, f \in Files : offsets[o][f] <= disk[f]
  /\ sweep \in [Tailers -> {Resting} \cup Reading]
  /\ inserts \in [Frames -> Nat] /\ stored \in [Frames -> Nat]
  /\ losses \in 0 .. MaxLosses /\ dropped \subseteq Frames
  /\ again \in [Files -> Nat]

LogInit ==
  /\ disk = Unread /\ partial = {} /\ clipped = {} /\ agentUp = TRUE /\ hubUp = TRUE
  /\ links = 0 /\ slot = 0 /\ open = FALSE /\ transit = <<>>
  /\ watch = [s \in Ptys |-> 0] /\ told = {}
  /\ offsets = [o \in Tailers |-> Unread]
  /\ sweep = [o \in Tailers |-> Resting]
  /\ inserts = [x \in Frames |-> 0] /\ stored = [x \in Frames |-> 0]
  /\ losses = 0 /\ dropped = {} /\ again = [f \in Files |-> 0]

-----------------------------------------------------------------------------
(* Claude writes                                                           *)

\* Bound: a line comes in at most three pieces
WriteHalf(f) ==
  /\ f \notin partial /\ disk[f] < Len(Log[f])
  /\ partial' = partial \cup {f}
  /\ clipped' \in {clipped, clipped \cup {f}}
  /\ UNCHANGED <<disk, agentVars, linkVars, hubVars, losses, pastVars>>

WriteMore(f) ==
  /\ f \in clipped /\ clipped' = clipped \ {f}
  /\ UNCHANGED <<disk, partial, agentVars, linkVars, hubVars, losses, pastVars>>

WriteRest(f) ==
  /\ f \in partial
  /\ partial' = partial \ {f} /\ clipped' = clipped \ {f}
  /\ disk' = [disk EXCEPT ![f] = @ + 1]
  /\ UNCHANGED <<agentVars, linkVars, hubVars, losses, pastVars>>

-----------------------------------------------------------------------------
(* The link                                                                *)

Connect ==
  /\ agentUp /\ hubUp /\ slot = 0 /\ links < MaxLinks
  /\ links' = links + 1 /\ slot' = links + 1 /\ open' = TRUE
  /\ UNCHANGED <<fileVars, agentVars, transit, hubVars, losses, pastVars>>

\* The sink fails: the writer ends and drops the receiver, with what the
\* channel held; what it had sent may still arrive
WriterStops ==
  /\ slot # 0 /\ open /\ open' = FALSE
  /\ \E n \in 0 .. Len(transit) :
       /\ transit' = SubSeq(transit, 1, n)
       /\ dropped' = dropped \cup ToSet(SubSeq(transit, n + 1, Len(transit)))
  /\ UNCHANGED <<fileVars, agentVars, links, slot, hubVars, losses, again>>

CutLink(lost) ==
  /\ slot' = 0 /\ open' = FALSE /\ transit' = <<>>
  /\ dropped' = dropped \cup ToSet(transit) \cup lost

\* run_once returns: the slot is cleared and the writer aborted
LinkEnds ==
  /\ slot # 0 /\ CutLink({})
  /\ UNCHANGED <<fileVars, agentVars, links, hubVars, losses, again>>

\* ws_handler spawns an insert for every frame it reads
Receive ==
  /\ transit # <<>>
  /\ inserts' = [inserts EXCEPT ![Head(transit)] = @ + 1]
  /\ transit' = Tail(transit)
  /\ UNCHANGED <<fileVars, agentVars, links, slot, open, hubUp, stored,
                 losses, pastVars>>

-----------------------------------------------------------------------------
(* The sessions' watchers and the sweeps over the logs                     *)

StartWatch(s) ==
  /\ slot # 0 /\ watch[s] = 0 /\ s \notin told
  /\ watch' = [watch EXCEPT ![s] = slot]
  /\ UNCHANGED <<fileVars, agentUp, offsets, sweep, told, linkVars, hubVars,
                 losses, pastVars>>

\* The PTY handle is dropped
DropHandle(s) ==
  /\ agentUp /\ watch[s] # 0 /\ s \notin told
  /\ told' = told \cup {s}
  /\ UNCHANGED <<fileVars, agentUp, offsets, sweep, watch, linkVars, hubVars,
                 losses, pastVars>>

StopWatch(s) ==
  /\ s \in told /\ watch[s] # 0 /\ sweep[s] = Resting
  /\ watch' = [watch EXCEPT ![s] = 0]
  /\ UNCHANGED <<fileVars, agentUp, offsets, sweep, told, linkVars, hubVars,
                 losses, pastVars>>

\* A bug the properties must catch: the watchers use the current sender too
CurrentSender(o) == IF o = "audit" \/ watch[o] # 0 THEN slot ELSE 0
\* The sender a sweep works with
Sender(o) == IF o = "audit" THEN slot ELSE watch[o]

\* Prompts of a person, in a workspace
Typed(line) == line.type = "user"
Placed(line) == line.cwd = "workspace"
Cleaned(line) == line.content = "text"
Classified(line) == Typed(line) /\ Placed(line) /\ Cleaned(line)
Wanted(o, f, n) == IF o = "audit" THEN Classified(Log[f][n])
                   ELSE Log[f][n].type # "junk"

\* A bug the properties must catch: the last line waits for one more
GrownLate(o) == {f \in Files : disk[f] > offsets[o][f] + 1}
\* Part of a line alone is left for the next sweep
Grown(o) == {f \in Files : disk[f] > offsets[o][f]}

\* read_to_string fails on a file that ends inside a character: the complete
\* lines before it wait too, and the sweep goes on to the next file
Readable(f) == f \notin clipped

\* Lines that a read of the file finds complete
CompleteLines(f) == disk[f]

\* The lines to ship, of those after the offset; part of a line is no JSON
Batch(o, f) ==
  {n \in offsets[o][f] + 1 .. CompleteLines(f) : Wanted(o, f, n)}

\* A sweep with a sender reads every file that has grown, one after the other
ReadFile(o) ==
  /\ agentUp /\ sweep[o] = Resting /\ Sender(o) # 0
  /\ \E f \in Grown(o) :
       /\ Readable(f)
       /\ sweep' = [sweep EXCEPT ![o] =
            [at |-> "file", tx |-> Sender(o), file |-> f, batch |-> Batch(o, f),
             last |-> CompleteLines(f), sent |-> FALSE]]
  /\ UNCHANGED <<fileVars, agentUp, offsets, watch, told, linkVars, hubVars,
                 losses, pastVars>>

AtLine(o) == sweep[o].at = "file" /\ sweep[o].batch # {}
\* Lines are sent in their order
NextLine(o) ==
  CHOOSE n \in sweep[o].batch : \A m \in sweep[o].batch : n <= m
Receiving(tx) == tx = slot /\ open

\* The send waits while the channel is full
SendLine(o) ==
  /\ AtLine(o) /\ Receiving(sweep[o].tx) /\ Len(transit) < SEND_QUEUE
  /\ transit' = Append(transit, <<o, sweep[o].file, NextLine(o)>>)
  /\ sweep' = [sweep EXCEPT ![o].batch = @ \ {NextLine(o)}, ![o].sent = TRUE]
  /\ UNCHANGED <<fileVars, agentUp, offsets, watch, told, links, slot, open,
                 hubVars, losses, pastVars>>

\* A bug the properties must catch: what was sent moves the offset, and the
\* line that failed with it
SkipFailed(o) ==
  /\ AtLine(o) /\ ~Receiving(sweep[o].tx)
  /\ sweep' = [sweep EXCEPT ![o] = Resting]
  /\ offsets' = [offsets EXCEPT ![o][sweep[o].file] = NextLine(o)]
  /\ UNCHANGED <<fileVars, agentUp, watch, told, linkVars, hubVars, losses,
                 pastVars>>
\* The channel is closed: the offset of the file stays
SendFails(o) ==
  /\ AtLine(o) /\ ~Receiving(sweep[o].tx)
  /\ sweep' = [sweep EXCEPT ![o] = Resting]
  /\ again' = IF o = "audit" /\ sweep[o].sent
              THEN [again EXCEPT ![sweep[o].file] = @ + 1] ELSE again
  /\ UNCHANGED <<fileVars, agentUp, offsets, watch, told, linkVars, hubVars,
                 losses, dropped>>

FileDone(o) ==
  /\ sweep[o].at = "file" /\ ~AtLine(o)
  /\ offsets' = [offsets EXCEPT ![o][sweep[o].file] = sweep[o].last]
  /\ sweep' = [sweep EXCEPT ![o] = Resting]
  /\ UNCHANGED <<fileVars, agentUp, watch, told, linkVars, hubVars, losses,
                 pastVars>>

-----------------------------------------------------------------------------
(* The hub's inserts                                                       *)

\* UNIQUE(claude_session_id, parent_uuid, ts_ms): no two rows with a NULL are
\* equal
Unique(x) == x[1] = "audit" /\ Log[x[2]][x[3]].parent

Inserted(x) ==
  /\ inserts[x] > 0 /\ inserts' = [inserts EXCEPT ![x] = @ - 1]
  /\ UNCHANGED <<fileVars, agentVars, linkVars, hubUp, losses, pastVars>>

\* insert_user_interaction: INSERT OR IGNORE
InsertInteraction(x) ==
  /\ x[1] = "audit" /\ Inserted(x)
  /\ stored' = IF Unique(x) /\ stored[x] > 0 THEN stored
             ELSE [stored EXCEPT ![x] = @ + 1]

InsertMessage(x) ==
  /\ x[1] # "audit" /\ Inserted(x)
  /\ stored' = [stored EXCEPT ![x] = @ + 1]

Insert(x) == InsertInteraction(x) \/ InsertMessage(x)

\* The database refuses: the error is logged
InsertFails(x) ==
  /\ inserts[x] > 0 /\ losses < MaxLosses
  /\ losses' = losses + 1
  /\ inserts' = [inserts EXCEPT ![x] = @ - 1]
  /\ dropped' = dropped \cup {x}
  /\ UNCHANGED <<fileVars, agentVars, linkVars, hubUp, stored, again>>

-----------------------------------------------------------------------------
(* Stops and starts                                                        *)

HubStops ==
  /\ hubUp /\ losses < MaxLosses
  /\ hubUp' = FALSE /\ losses' = losses + 1
  /\ CutLink({x \in Frames : inserts[x] > 0})
  /\ inserts' = [x \in Frames |-> 0]
  /\ UNCHANGED <<fileVars, agentVars, links, stored, again>>

HubStarts ==
  /\ ~hubUp /\ hubUp' = TRUE
  /\ UNCHANGED <<fileVars, agentVars, linkVars, inserts, stored, losses,
                 pastVars>>

\* The agent's memory is gone, its sessions' watchers with it
AgentStops ==
  /\ agentUp /\ losses < MaxLosses
  /\ agentUp' = FALSE /\ losses' = losses + 1
  /\ offsets' = [o \in Tailers |-> Unread]
  /\ sweep' = [o \in Tailers |-> Resting]
  /\ told' = told \cup {s \in Ptys : watch[s] # 0}
  /\ watch' = [s \in Ptys |-> 0]
  /\ slot' = 0 /\ open' = FALSE
  \* what the hub has received stays with it
  /\ transit' = <<>> /\ dropped' = ToSet(transit) \cup dropped
  /\ again' = [f \in Files |-> again[f] + 1]
  /\ UNCHANGED <<fileVars, links, hubVars>>

\* The audit task starts at the beginning of every file
AgentStarts ==
  /\ ~agentUp /\ agentUp' = TRUE
  /\ dropped' = {x \in dropped : x[1] # "audit"}
  /\ UNCHANGED <<fileVars, offsets, sweep, watch, told, linkVars, hubVars,
                 losses, again>>

-----------------------------------------------------------------------------
Tailing(o) ==
  \/ ReadFile(o) \/ SendLine(o) \/ SendFails(o) \/ FileDone(o)

LogNext ==
  \/ \E f \in Files : WriteHalf(f) \/ WriteMore(f) \/ WriteRest(f)
  \/ Connect \/ WriterStops \/ LinkEnds \/ Receive
  \/ \E s \in Ptys : StartWatch(s) \/ DropHandle(s) \/ StopWatch(s)
  \/ \E o \in Tailers : Tailing(o)
  \/ \E x \in Frames : Insert(x) \/ InsertFails(x)
  \/ HubStops \/ HubStarts \/ AgentStops \/ AgentStarts

\* Tasks of the runtime run, supervisors start what stopped, the agent
\* reconnects, and a link nothing is written to is given up (the idle timeouts
\* of both ends); claude may stop writing at any point
LogFairness ==
  /\ WF_logVars(Connect) /\ WF_logVars(Receive) /\ WF_logVars(~open /\ LinkEnds)
  /\ WF_logVars(HubStarts) /\ WF_logVars(AgentStarts)
  /\ WF_logVars(Tailing("audit"))
  /\ \A x \in Frames : WF_logVars(Insert(x))

LogSpec == LogInit /\ [][LogNext]_logVars /\ LogFairness

-----------------------------------------------------------------------------
(* Properties                                                              *)

OnItsWay(x) ==
  stored[x] + inserts[x] > 0 \/ x \in ToSet(transit) \/ x \in dropped

\* The audit task and a watcher are never past a line they should have shipped
\* unless it is in the database, on its way there, or was lost with a link, a
\* process or a failed insert: a hub that is away, a line half written and a
\* channel closed in the middle of a batch lose nothing (audit.rs, "we do not
\* advance offsets").
OffsetsAccounted ==
  \A o \in Tailers, f \in Files : \A n \in 1 .. offsets[o][f] :
    Wanted(o, f, n) => OnItsWay(<<o, f, n>>)

Copies(x) ==
  stored[x] + inserts[x] + Cardinality({i \in DOMAIN transit : transit[i] = x})

\* A prompt with a parent has one row however often the agent tails again, a
\* line has one row per session although messages has no constraint, and the
\* first prompt of a conversation, which has no parent, at most one more each
\* time the audit task went back in its file.
CopiesExplained ==
  \A x \in Frames :
    /\ Unique(x) => stored[x] <= 1
    /\ x[1] # "audit" => Copies(x) <= 1
    /\ x[1] = "audit" => Copies(x) <= 1 + again[x[2]]

\* Every prompt claude has written reaches the database, unless it was on its
\* way there when a link, the hub or an insert failed, the agent can connect no
\* more, or claude has stopped for good inside a character of a later line, which
\* makes every read of the file fail (audit.rs:235).
EventuallyLogged ==
  \A f \in Files : \A n \in 1 .. Len(Log[f]) :
    Classified(Log[f][n]) =>
      (disk[f] >= n ~> \/ stored[<<"audit", f, n>>] > 0
                       \/ <<"audit", f, n>> \in dropped
                       \/ links = MaxLinks /\ slot = 0
                       \/ f \in clipped)

=============================================================================
