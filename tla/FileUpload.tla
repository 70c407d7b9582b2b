----------------------------- MODULE FileUpload -----------------------------
(***************************************************************************)
(* Uploads to an agent, by way of the hub (app/api.rs, pty_session.rs and  *)
(* registry.rs on the hub, fs.rs, pty.rs and ws.rs on the agent, relay.rs  *)
(* on the command-line client).                                            *)
(*                                                                         *)
(* All uploads go to one directory under one name.  They come from the web *)
(* application (a multipart body) or from the command-line client (frames  *)
(* of its connection); either is a stream of chunks, numbered from 1, that *)
(* one task of the hub forwards to the agent, whose read loop writes them. *)
(* A file is the sequence of the <<upload, chunk>> pairs written to it.    *)
(***************************************************************************)
EXTENDS Naturals, Sequences, FiniteSets, SequencesExt

CONSTANTS
  Uploads,  \* numbers from 1
  Web,      \* those that come from the web application
  Sizes,    \* chunks an upload may have
  MaxSize,  \* bound: chunks of an upload, or of a file that is downloaded
  MaxConn,  \* bound: connections of the agent, one after another
  Deleted   \* bound: the names users delete

ASSUME UploadAssumption ==
  /\ IsFiniteSet(Uploads) /\ Uploads = 1 .. Cardinality(Uploads)
  /\ Web \subseteq Uploads /\ MaxSize \in Nat /\ Sizes \subseteq 0 .. MaxSize
  /\ MaxConn \in Nat \ {0} /\ Deleted \subseteq Nat

\* The wanted name and "name (1)", "name (2)", ...; files are numbered by the
\* upload that created them, Old was there before
Names  == 0 .. Cardinality(Uploads)
NoFile == 0
Old    == Cardinality(Uploads) + 1

VARIABLES
  conn,     \* the agent's current connection
  up,       \* whether it is up
  job,      \* upload -> its source and the hub's task for it
  waiter,   \* workspace_requests: upload -> its oneshot
  down,     \* frames from the hub to the agent, in order
  session,  \* WriteSessions: upload -> the file it has open
  disk,     \* directory: name -> file
  content   \* file -> what was written to it

linkVars  == <<conn, up>>
hubVars   == <<job, waiter>>
agentVars == <<session, disk, content>>
vars == <<linkVars, hubVars, down, agentVars>>

Job == [size : 0 .. MaxSize, conn : 0 .. MaxConn,
        sent : 0 .. MaxSize,           \* chunks taken from the source
        source : {"open", "stalled", "ended", "broken"},
        stage : {"none", "init", "stream", "wait", "over", "dropped"},
        user : {"there", "gone"},
        told : {"no", "ok", "error"}]
NoJob == [size |-> 0, conn |-> 0, sent |-> 0,
          source |-> "open", stage |-> "none", user |-> "there", told |-> "no"]

Waiter == [state : {"none", "armed", "lost", "filled"}, ok : BOOLEAN, bytes : 0 .. MaxSize]
AWaiter(state) == [state |-> state, ok |-> FALSE, bytes |-> 0]

Init ==
  /\ conn = 1 /\ up = TRUE
  /\ job = [u \in Uploads |-> NoJob] /\ waiter = [u \in Uploads |-> AWaiter("none")]
  /\ down = <<>>
  /\ session = [u \in Uploads |-> NoFile]
  /\ disk = [n \in Names |-> IF n = 0 THEN Old ELSE NoFile]
  /\ content = [f \in Uploads \cup {Old} |-> IF f = Old THEN <<<<Old, 1>>>> ELSE <<>>]

-----------------------------------------------------------------------------
(* Uploads on the hub *)

\* send on a connection that is gone fails
Online(c) == up /\ conn = c

\* The request, or the client's FsWriteInit, is authorised and finds the agent
\* connected; upload_file_to_agent registers its oneshot.
StartUpload(u) ==
  /\ job[u].stage = "none" /\ up
  /\ \E n \in Sizes :
       job' = [job EXCEPT ![u] = [NoJob EXCEPT !.size = n, !.conn = conn, !.stage = "init"]]
  /\ waiter' = [waiter EXCEPT ![u] = AWaiter("armed")]
  /\ UNCHANGED <<linkVars, down, agentVars>>

\* ... or it is refused: no access, agent offline
RefuseUpload(u) ==
  /\ job[u].stage = "none"
  /\ job' = [job EXCEPT ![u].stage = "over", ![u].told = "error"]
  /\ UNCHANGED <<linkVars, waiter, down, agentVars>>

\* The task of an upload is over, or dropped: whoever is still there is told;
\* of the job only the conclusion stays, its oneshot nobody waits for.
Over(j, stage, ok) ==
  [NoJob EXCEPT !.size = j.size, !.conn = j.conn, !.stage = stage,
                !.told = IF j.user = "gone" \/ j.told # "no" THEN j.told
                         ELSE IF ok THEN "ok" ELSE "error"]
Finish(u, ok) ==
  /\ job' = [job EXCEPT ![u] = Over(@, "over", ok)]
  /\ waiter' = [waiter EXCEPT ![u] = AWaiter("none")]

SendInit(u) ==
  /\ job[u].stage = "init"
  /\ IF Online(job[u].conn)
       THEN /\ down' = Append(down, [k |-> "init", u |-> u, c |-> 0])
            /\ job' = [job EXCEPT ![u].stage = "stream"]
            /\ UNCHANGED waiter
       ELSE Finish(u, FALSE) /\ UNCHANGED down
  /\ UNCHANGED <<linkVars, agentVars>>

\* The user's end of file: the multipart field ends, or FsWriteChunk{eof}
\* removes the sender from fs_uploads.
GiveEof(u) ==
  LET j == job[u] IN
  /\ j.stage \in {"init", "stream"} /\ j.user = "there" /\ j.source = "open"
  /\ j.sent = j.size
  /\ job' = [job EXCEPT ![u].source = "ended"]
  /\ UNCHANGED <<linkVars, waiter, down, agentVars>>

\* The command-line client cannot read the file after its init: it tells the
\* user and sends nothing more.
GiveUp(u) ==
  LET j == job[u] IN
  /\ j.stage \in {"init", "stream"} /\ u \notin Web /\ j.user = "there"
  /\ j.sent = 0 /\ j.source = "open"
  /\ job' = [job EXCEPT ![u].source = "stalled", ![u].told = "error"]
  /\ UNCHANGED <<linkVars, waiter, down, agentVars>>

\* The user is gone.  The connection of a command-line client drops the senders
\* of its uploads, which ends their streams; the body of a web request fails,
\* or the server drops the handler with everything it holds.
SourceCut(u) == IF u \in Web THEN "broken" ELSE "ended"

UserLeaves(u) ==
  LET j == job[u] IN
  /\ j.stage \in {"init", "stream", "wait"} /\ j.user = "there"
  /\ job' = [job EXCEPT ![u].user = "gone",
                        ![u].source = IF @ \in {"open", "stalled"} THEN SourceCut(u) ELSE @]
  /\ UNCHANGED <<linkVars, waiter, down, agentVars>>

HandlerDropped(u) ==
  /\ job[u].stage \in {"init", "stream", "wait"}
  /\ u \in Web /\ job[u].user = "gone"
  /\ job' = [job EXCEPT ![u] = Over(@, "dropped", FALSE)]
  /\ waiter' = [waiter EXCEPT ![u] = AWaiter("none")]
  /\ UNCHANGED <<linkVars, down, agentVars>>

\* The user's next chunk, from the body or from the connection by way of the
\* stream's channel
ForwardChunk(u) ==
  LET j == job[u] IN
  /\ j.stage = "stream" /\ j.source \in {"open", "ended"} /\ j.sent < j.size
  /\ j.source = "ended" => u \notin Web   \* chunks still in the channel
  /\ IF Online(j.conn)
       THEN /\ down' = Append(down, [k |-> "chunk", u |-> u, c |-> j.sent + 1])
            /\ job' = [job EXCEPT ![u].sent = @ + 1]
            /\ UNCHANGED waiter
       ELSE Finish(u, FALSE) /\ UNCHANGED down
  /\ UNCHANGED <<linkVars, agentVars>>

\* The stream ended: the terminal eof, then the wait for the result
ForwardEof(u) ==
  LET j == job[u] IN
  /\ j.stage = "stream" /\ j.source = "ended"
  /\ IF Online(j.conn)
       THEN /\ down' = Append(down, [k |-> "eof", u |-> u, c |-> 0])
            /\ job' = [job EXCEPT ![u].stage = "wait"]
            /\ UNCHANGED waiter
       ELSE Finish(u, FALSE) /\ UNCHANGED down
  /\ UNCHANGED <<linkVars, agentVars>>

\* A bug the properties must catch: a failed stream does not send the eof
ForwardNoEof(u) ==
  LET j == job[u] IN
  /\ j.stage = "stream" /\ j.source = "broken"
  /\ Finish(u, FALSE)
  /\ UNCHANGED <<linkVars, down, agentVars>>

\* The stream failed: the eof lets the agent close the file
ForwardFailure(u) ==
  LET j == job[u] IN
  /\ j.stage = "stream" /\ j.source = "broken"
  /\ down' = IF Online(j.conn) THEN Append(down, [k |-> "eof", u |-> u, c |-> 0]) ELSE down
  /\ Finish(u, FALSE)
  /\ UNCHANGED <<linkVars, agentVars>>

\* The integrity check of the agent's result
Accepts(j, r) == r.ok /\ r.bytes = j.sent

TakeResult(u) ==
  /\ job[u].stage = "wait" /\ waiter[u].state = "filled"
  /\ Finish(u, Accepts(job[u], waiter[u]))
  /\ UNCHANGED <<linkVars, down, agentVars>>

\* FS_READ_IDLE_TIMEOUT, or the registry dropped the oneshot
MissResult(u) ==
  /\ job[u].stage = "wait" /\ waiter[u].state \in {"armed", "lost"}
  /\ Finish(u, FALSE)
  /\ UNCHANGED <<linkVars, down, agentVars>>

-----------------------------------------------------------------------------
(* The agent: FsWrite frames run in the read loop, in the order they come *)

\* A bug the properties must catch: the frames of an upload run on tasks of their own
AnyFrame == CHOOSE i \in DOMAIN down : \A j \in DOMAIN down : j <= i

\* Which frame of those that arrived runs next: the read loop awaits the
\* handler of an ordered frame before it reads another
NextFrame == 1

Frame(i) == up /\ i \in DOMAIN down /\ i = NextFrame

\* A bug the properties must catch: the number of the name is that of the files in the directory
CountName(d) == Cardinality({n \in Names : d[n] # NoFile})

\* dedupe_path: the first of the names that is free
Free(d) == CHOOSE n \in Names : d[n] = NoFile /\ \A m \in Names : d[m] = NoFile => n <= m

\* The result finds its oneshot, if that still waits.  Its way back is no step
\* of its own: what it can lose, LinkBreaks and MissResult lose before it.
Result(u, ok, n) ==
  waiter' = IF waiter[u].state = "armed"
              THEN [waiter EXCEPT ![u] = [state |-> "filled", ok |-> ok, bytes |-> n]]
              ELSE waiter

WriteInit ==
  \E i \in DOMAIN down : Frame(i) /\ down[i].k = "init" /\
    LET u == down[i].u
        n == Free(disk)
        f == IF disk[n] = NoFile THEN u ELSE disk[n]
    IN
    /\ down' = RemoveAt(down, i)
    /\ \/ /\ disk' = [disk EXCEPT ![n] = f]
          /\ content' = [content EXCEPT ![f] = <<>>]  \* create truncates
          /\ session' = [session EXCEPT ![u] = f]
          /\ UNCHANGED waiter
       \/ \* a path outside the workspace, a file that cannot be created
          Result(u, FALSE, 0) /\ UNCHANGED agentVars
    /\ UNCHANGED <<linkVars, job>>

WriteChunk ==
  \E i \in DOMAIN down : Frame(i) /\ down[i].k = "chunk" /\
    LET u == down[i].u
        f == session[u]
    IN
    /\ down' = RemoveAt(down, i)
    /\ \/ /\ f # NoFile
          /\ content' = [content EXCEPT ![f] = Append(@, <<u, down[i].c>>)]
          /\ UNCHANGED <<session, waiter>>
       \/ \* no session; or the size limit or a failed write, which end it
          /\ session' = [session EXCEPT ![u] = NoFile]
          /\ Result(u, FALSE, 0)
          /\ UNCHANGED content
    /\ UNCHANGED <<linkVars, job, disk>>

\* The file is closed and synced; the bytes are those this session wrote.
WriteEof ==
  \E i \in DOMAIN down : Frame(i) /\ down[i].k = "eof" /\
    LET u == down[i].u
        n == Cardinality({p \in DOMAIN content[session[u]] : content[session[u]][p][1] = u})
    IN
    /\ down' = RemoveAt(down, i)
    /\ session' = [session EXCEPT ![u] = NoFile]
    /\ \/ session[u] # NoFile /\ Result(u, TRUE, n)
       \/ Result(u, FALSE, 0)
    /\ UNCHANGED <<linkVars, job, disk, content>>

\* FsDelete, on a task of its own: the name goes, open files live on.  Bound:
\* while an upload is writing; with no file open it only frees the name earlier.
Delete(n) ==
  /\ disk[n] # NoFile /\ \E u \in Uploads : session[u] # NoFile
  /\ disk' = [disk EXCEPT ![n] = NoFile]
  /\ UNCHANGED <<linkVars, hubVars, down, session, content>>

-----------------------------------------------------------------------------
(* The link: AgentRegistry::unregister drops the oneshots; the agent keeps   *)
(* its write sessions unless it restarts.                                    *)

LinkBreaks ==
  /\ up /\ up' = FALSE
  /\ down' = <<>>
  /\ waiter' = [u \in Uploads |-> IF waiter[u].state = "armed" THEN AWaiter("lost") ELSE waiter[u]]
  /\ session' \in {session, [u \in Uploads |-> NoFile]}
  /\ UNCHANGED <<conn, job, disk, content>>

Reconnect ==
  /\ ~up /\ conn < MaxConn
  /\ up' = TRUE /\ conn' = conn + 1
  /\ UNCHANGED <<hubVars, down, agentVars>>

-----------------------------------------------------------------------------
HubTask(u) == SendInit(u) \/ ForwardEof(u) \/ ForwardFailure(u) \/ TakeResult(u) \/ MissResult(u)

Transfer ==
  \/ \E u \in Uploads :
       \/ StartUpload(u) \/ RefuseUpload(u) \/ HubTask(u) \/ HandlerDropped(u)
       \/ ForwardChunk(u) \/ GiveEof(u) \/ GiveUp(u) \/ UserLeaves(u)
  \/ WriteInit \/ WriteChunk \/ WriteEof
  \/ \E n \in Deleted \cap Names : Delete(n)

Next == Transfer \/ LinkBreaks \/ Reconnect

Spec == Init /\ [][Next]_vars

-----------------------------------------------------------------------------
(* Properties *)

\* An upload is a FileDelivery: chunks arrive in the order of the source with
\* none missing and nobody else's between, and "ok" reaches the user only when
\* the file is whole (ordered frames, the eof, the integrity check).
Delivery == INSTANCE FileDelivery WITH
  size <- [u \in Uploads |-> job[u].size],
  stored <- [u \in Uploads |-> [i \in DOMAIN content[u] |->
               IF content[u][i][1] = u THEN content[u][i][2] ELSE 0]],
  told <- [u \in Uploads |-> job[u].told]
DeliversFiles == Delivery!Spec

\* dedupe_path and create: an upload never writes a file another upload has
\* open or a file that was there before, though all of them ask for one name.
FilesKept ==
  /\ content[Old] = <<<<Old, 1>>>>
  /\ \A u, v \in Uploads : u # v /\ session[u] # NoFile => session[u] # session[v]
  /\ \A m, n \in Names : m # n /\ disk[m] # NoFile => disk[m] # disk[n]

\* A write session whose hub task is over is about to be closed by an eof, or
\* its request handler was dropped in mid-upload, or its connection was lost:
\* no other path of upload_file_to_agent leaves a file open on the agent.
SessionsClosed ==
  \A u \in Uploads : session[u] # NoFile /\ Online(job[u].conn) =>
    \/ job[u].stage \in {"stream", "dropped"}
    \/ \E i \in DOMAIN down : down[i].u = u /\ down[i].k = "eof"
=============================================================================
