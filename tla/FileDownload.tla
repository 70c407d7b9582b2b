---------------------------- MODULE FileDownload ----------------------------
(***************************************************************************)
(* Downloads and archives from an agent: a task of the agent (fs.rs) reads *)
(* a file and sends its chunks up the link, the registry puts them on the  *)
(* channel of the request, and the body of the HTTP response (app/api.rs)  *)
(* is polled by the browser.  Chunks are numbered from 1; 0 is no data.    *)
(***************************************************************************)
EXTENDS Naturals, Sequences

CONSTANTS
  Downloads,
  MaxSize,   \* bound: chunks of a file
  DownCap,   \* FS_READ_CHANNEL_CAP
  MaxConn    \* bound: connections of the agent, one after another

VARIABLES
  conn,   \* the agent's current connection
  up,     \* whether it is up
  reply,  \* frames from the agent to the hub, in order
  load    \* download -> reader, route, channel and body

linkVars == <<conn, up>>
vars == <<linkVars, reply, load>>

Load == [size : 0 .. MaxSize,
         reader : {"none", "zipping", "reading", "over"},
         read : 0 .. MaxSize, peek : BOOLEAN,
         route : BOOLEAN,              \* its entry in fs_read_streams
         chan : Seq([chunk : 0 .. MaxSize, eof : BOOLEAN, error : BOOLEAN]),
         body : {"none", "open", "ended", "hungup"},
         eof : BOOLEAN,                \* the body ended with the eof chunk
         got : Seq(1 .. MaxSize),
         dropped : BOOLEAN]            \* a chunk found the channel full
NoLoad == [size |-> 0, reader |-> "none", read |-> 0, peek |-> FALSE,
           route |-> FALSE, chan |-> <<>>, body |-> "none", eof |-> FALSE,
           got |-> <<>>, dropped |-> FALSE]

Chunk(d, c, eof, error) == [id |-> d, chunk |-> c, eof |-> eof, error |-> error]

Init ==
  /\ conn = 1 /\ up = TRUE
  /\ reply = <<>>
  /\ load = [d \in Downloads |-> NoLoad]

-----------------------------------------------------------------------------
\* A request finds the agent connected: its stream is registered.
Requested(n, reader) ==
  [NoLoad EXCEPT !.size = n, !.reader = reader, !.route = TRUE, !.body = "open"]

\* files_download: FsRead
StartLoad(d) ==
  /\ load[d].body = "none" /\ up
  /\ \E n \in 0 .. MaxSize : load' = [load EXCEPT ![d] = Requested(n, "reading")]
  /\ UNCHANGED <<linkVars, reply>>

\* files_archive: FsArchive
StartArchive(d) ==
  /\ load[d].body = "none" /\ up
  /\ load' = [load EXCEPT ![d] = Requested(0, "zipping")]
  /\ UNCHANGED <<linkVars, reply>>

\* The archive is made in memory before the first chunk is sent; it is not empty.
MakeArchive(d) ==
  /\ load[d].reader = "zipping"
  /\ \E n \in 1 .. MaxSize : load' = [load EXCEPT ![d].size = n, ![d].reader = "reading"]
  /\ UNCHANGED <<linkVars, reply>>

\* The reader stays one chunk ahead of what it sends, to mark the last one.
ReadChunk(d) ==
  LET l == load[d] IN
  /\ l.reader = "reading" /\ l.read < l.size
  /\ reply' = IF l.peek THEN Append(reply, Chunk(d, l.read, FALSE, FALSE)) ELSE reply
  /\ load' = [load EXCEPT ![d].read = @ + 1, ![d].peek = TRUE]
  /\ UNCHANGED linkVars

\* A bug the properties must catch: the last chunk is forgotten when the read returns nothing
NoTail(l) == 0

Tail0(l) == IF l.peek THEN l.read ELSE 0

ReadEnd(d) ==
  LET l == load[d] IN
  /\ l.reader = "reading" /\ l.read = l.size
  /\ reply' = Append(reply, Chunk(d, Tail0(l), TRUE, FALSE))
  /\ load' = [load EXCEPT ![d].reader = "over"]
  /\ UNCHANGED linkVars

\* No such file, a read error, an archive that cannot be made
ReadFails(d) ==
  /\ load[d].reader \in {"zipping", "reading"}
  /\ reply' = Append(reply, Chunk(d, 0, TRUE, TRUE))
  /\ load' = [load EXCEPT ![d].reader = "over"]
  /\ UNCHANGED linkVars

\* What the registry does with a chunk: try_send, then a terminal chunk takes
\* the route away
Routed(l, r) ==
  LET full == Len(l.chan) >= DownCap
      c == [chunk |-> r.chunk, eof |-> r.eof, error |-> r.error]
  IN
  IF ~l.route THEN l
  ELSE [l EXCEPT !.chan = IF l.body = "open" /\ ~full THEN Append(@, c) ELSE @,
                 !.dropped = @ \/ (l.body = "open" /\ full),
                 !.route = ~r.eof]

HubReceives ==
  /\ up /\ reply # <<>>
  /\ reply' = Tail(reply)
  /\ load' = [load EXCEPT ![Head(reply).id] = Routed(@, Head(reply))]
  /\ UNCHANGED linkVars

\* The body is polled to its end, which runs the clean-up.
Ended(l, eof) == [l EXCEPT !.body = "ended", !.eof = eof, !.route = FALSE, !.chan = <<>>]

BodyTakes(d) ==
  LET l == load[d]
      c == Head(l.chan)
      more == [l EXCEPT !.chan = Tail(@), !.got = IF c.chunk = 0 THEN @ ELSE Append(@, c.chunk)]
  IN
  /\ l.body = "open" /\ l.chan # <<>>
  /\ load' = [load EXCEPT ![d] = IF c.error THEN Ended(l, FALSE)
                                 ELSE IF c.eof THEN Ended(more, TRUE) ELSE more]
  /\ UNCHANGED <<linkVars, reply>>

\* The sender is gone, or FS_READ_IDLE_TIMEOUT passed without a chunk.
BodyEnds(d) ==
  /\ load[d].body = "open" /\ load[d].chan = <<>>
  /\ load' = [load EXCEPT ![d] = Ended(@, FALSE)]
  /\ UNCHANGED <<linkVars, reply>>

\* The browser hangs up: the body is dropped, its clean-up is never polled.
HangUp(d) ==
  /\ load[d].body = "open"
  /\ load' = [load EXCEPT ![d].body = "hungup", ![d].chan = <<>>]
  /\ UNCHANGED <<linkVars, reply>>

-----------------------------------------------------------------------------
(* The link: AgentRegistry::unregister gives every stream a terminal error,  *)
(* if it fits; the agent's reader fails with its next send.                  *)

Cut(l) ==
  [l EXCEPT !.route = FALSE, !.reader = IF @ = "none" THEN @ ELSE "over",
            !.chan = IF l.route /\ l.body = "open" /\ Len(@) < DownCap
                       THEN Append(@, [chunk |-> 0, eof |-> TRUE, error |-> TRUE]) ELSE @]

LinkBreaks ==
  /\ up /\ up' = FALSE
  /\ reply' = <<>>
  /\ load' = [d \in Downloads |-> Cut(load[d])]
  /\ UNCHANGED conn

Reconnect ==
  /\ ~up /\ conn < MaxConn
  /\ up' = TRUE /\ conn' = conn + 1
  /\ UNCHANGED <<reply, load>>

-----------------------------------------------------------------------------
Body(d)   == BodyTakes(d) \/ BodyEnds(d)
Reader(d) == MakeArchive(d) \/ ReadChunk(d) \/ ReadEnd(d) \/ ReadFails(d)

Transfer ==
  \/ \E d \in Downloads :
       StartLoad(d) \/ StartArchive(d) \/ Reader(d) \/ Body(d) \/ HangUp(d)
  \/ HubReceives

Next == Transfer \/ LinkBreaks \/ Reconnect

Spec == Init /\ [][Next]_vars

-----------------------------------------------------------------------------
(* Properties *)

\* Whatever is dropped, a body never repeats or reorders; one that lost no
\* chunk is a prefix of the file, the whole file when the eof ended it.
BodyFaithful ==
  \A d \in Downloads :
    LET l == load[d] IN
    /\ \A i, j \in DOMAIN l.got : i < j => l.got[i] < l.got[j]
    /\ ~l.dropped => \A i \in DOMAIN l.got : l.got[i] = i
    /\ ~l.dropped /\ l.eof => Len(l.got) = l.size

\* A routing entry has a reader that goes on or a terminal chunk on its way,
\* also when the browser hung up and the body's clean-up is never polled.
RoutesHeld ==
  \A d \in Downloads : load[d].route =>
    \/ load[d].reader \in {"zipping", "reading"}
    \/ \E i \in DOMAIN reply : reply[i].id = d /\ reply[i].eof
=============================================================================
