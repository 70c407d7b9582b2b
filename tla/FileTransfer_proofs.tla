------------------------- MODULE FileTransfer_proofs -------------------------
(***************************************************************************)
(* Theorems about FileTransfer, for any number of uploads and downloads of *)
(* any size, checked by TLAPS.                                             *)
(***************************************************************************)
EXTENDS FileTransfer, SequenceTheorems, FiniteSetTheorems, WellFoundedInduction, TLAPS

-----------------------------------------------------------------------------
(* Sequences and names                                                     *)

\* What is in a sequence when one more is appended.
LEMMA AppendFacts ==
  ASSUME NEW S, NEW s \in Seq(S), NEW e
  PROVE  /\ Len(Append(s, e)) = Len(s) + 1 /\ Len(s) \in Nat
         /\ DOMAIN s = 1 .. Len(s) /\ DOMAIN Append(s, e) = 1 .. Len(s) + 1
         /\ \A i \in 1 .. Len(s) : Append(s, e)[i] = s[i]
         /\ Append(s, e)[Len(s) + 1] = e
  OBVIOUS

\* The same of a sequence known to be the longer one.
LEMMA AppendedFacts ==
  ASSUME NEW S, NEW s \in Seq(S), NEW e, NEW t, t = Append(s, e)
  PROVE  /\ Len(t) = Len(s) + 1 /\ Len(s) \in Nat
         /\ DOMAIN s = 1 .. Len(s) /\ DOMAIN t = 1 .. Len(s) + 1
         /\ \A i \in 1 .. Len(s) : t[i] = s[i]
         /\ t[Len(s) + 1] = e
  BY AppendFacts

\* What is left in a sequence when its first element is taken.
LEMMA TailFacts ==
  ASSUME NEW S, NEW s \in Seq(S), s # <<>>
  PROVE  /\ Tail(s) \in Seq(S) /\ Len(s) \in Nat \ {0} /\ Len(Tail(s)) = Len(s) - 1
         /\ DOMAIN s = 1 .. Len(s) /\ DOMAIN Tail(s) = 1 .. Len(s) - 1
         /\ \A i \in 1 .. Len(s) - 1 : Tail(s)[i] = s[i + 1]
         /\ Head(s) = s[1] /\ s[1] \in S
  OBVIOUS

\* The read loop takes the first frame: RemoveAt is then Tail.
LEMMA RemoveHead ==
  ASSUME NEW S, NEW s \in Seq(S), s # <<>>
  PROVE  RemoveAt(s, 1) = Tail(s)
<1>1. RemoveAt(s, 1) = SubSeq(s, 1, 0) \o SubSeq(s, 2, Len(s))
  BY DEF RemoveAt
<1>2. SubSeq(s, 1, 0) \o SubSeq(s, 2, Len(s)) = Tail(s)
  OBVIOUS
<1> QED  BY <1>1, <1>2

\* dedupe_path finds a name: there is one more than there are uploads, and
\* no other file is in the directory.
LEMMA NameFound ==
  ASSUME UploadAssumption, NEW u \in Uploads, NEW d \in [Names -> Uploads \cup {Old, NoFile}],
         \A n \in Names : d[n] # u,
         \A m, n \in Names : m # n /\ d[m] # NoFile => d[m] # d[n]
  PROVE  Free(d) \in Names /\ d[Free(d)] = NoFile
<1> DEFINE N == Cardinality(Uploads)
           F == {n \in Names : d[n] = NoFile}
           T == (Uploads \cup {Old}) \ {u}
<1>1. N \in Nat /\ Uploads = 1 .. N /\ IsFiniteSet(Uploads)
  BY FS_CardinalityType DEF UploadAssumption
<1>2. IsFiniteSet(Names) /\ Cardinality(Names) = N + 1
  BY <1>1, FS_Interval DEF Names
<1>3. IsFiniteSet(T) /\ Cardinality(T) = N
  <2>1. Uploads \cup {Old} = 1 .. N + 1
    BY <1>1 DEF Old
  <2>2. IsFiniteSet(Uploads \cup {Old}) /\ Cardinality(Uploads \cup {Old}) = N + 1
    <3>1. IsFiniteSet(1 .. N + 1) /\ Cardinality(1 .. N + 1) = N + 1
      <4> HIDE DEF N
      <4>1. 1 \in Int /\ N + 1 \in Int /\ ~(1 > N + 1) /\ N + 1 - 1 + 1 = N + 1
        BY <1>1
      <4> QED  BY <4>1, FS_Interval
    <3> QED  BY <3>1, <2>1
  <2>3. u \in Uploads \cup {Old}
    OBVIOUS
  <2> QED
    <3> DEFINE S == Uploads \cup {Old}
    <3>1. IsFiniteSet(S) /\ Cardinality(S) = N + 1 /\ u \in S
      BY <2>2, <2>3
    <3> HIDE DEF S, N
    <3>2. IsFiniteSet(S \ {u}) /\ Cardinality(S \ {u}) = Cardinality(S) - 1
      BY <3>1, FS_RemoveElement
    <3> QED  BY <3>1, <3>2, <1>1 DEF S
<1>4. F # {}
  <2> SUFFICES ASSUME F = {} PROVE FALSE
    OBVIOUS
  <2>1. d \in [Names -> T]
    OBVIOUS
  <2>2. PICK x, y \in Names : x # y /\ d[x] = d[y]
    <3> HIDE DEF T
    <3> QED  BY <2>1, <1>1, <1>2, <1>3, FS_PigeonHole
  <2> QED  BY <2>2
<1>5. F \subseteq Nat
  BY <1>1 DEF Names
<1>6. \E n \in F : \A m \in F : ~(m < n)
  <2>1. \E n \in F : \A m \in F : <<m, n>> \notin OpToRel(<, Nat)
    <3> HIDE DEF F
    <3> QED  BY <1>4, <1>5, NatLessThanWellFounded, WFMin
  <2> QED  BY <2>1, <1>5 DEF OpToRel
<1>7. \E n \in Names : d[n] = NoFile /\ \A m \in Names : d[m] = NoFile => n <= m
  BY <1>5, <1>6
<1> QED  BY <1>7 DEF Free

-----------------------------------------------------------------------------
(* Uploads: the inductive invariant                                        *)

FrameSet == [k : {"init", "chunk", "eof"}, u : Uploads, c : Nat]
Files    == Uploads \cup {Old}

UploadType ==
  /\ conn \in 1 .. MaxConn /\ up \in BOOLEAN
  /\ job \in [Uploads -> Job] /\ waiter \in [Uploads -> Waiter]
  /\ down \in Seq(FrameSet)
  /\ session \in [Uploads -> Uploads \cup {NoFile}]
  /\ disk \in [Names -> Files \cup {NoFile}]
  /\ content \in [Files -> Seq(Files \X Nat)]

\* Frame i is one of upload u, of kind k.
Of(i, u, k) == i \in DOMAIN down /\ down[i].u = u /\ down[i].k = k

\* The agent has a file open for u, or is about to open one.
Live(u) == session[u] # NoFile \/ \E i \in DOMAIN down : Of(i, u, "init")

\* The hub's task for an upload
JobInv(u) ==
  LET j == job[u] IN
  /\ j.conn <= conn /\ j.sent <= j.size
  /\ j.stage = "none" => j = NoJob
  /\ j.stage = "init" => j.sent = 0
  /\ j.source = "ended" /\ j.user = "there" => j.sent = j.size
  /\ j.stage = "wait" => j.source = "ended"
  /\ j.told = "ok" => j.stage \in {"over", "dropped"} /\ ~Live(u)

\* The frames of an upload are those of its task, in order: the init, chunks
\* with rising numbers, the eof.
FramesInv(u) ==
  /\ \A i \in DOMAIN down : down[i].u = u =>
       up /\ job[u].conn = conn /\ job[u].stage \notin {"none", "init"}
  /\ \A i \in DOMAIN down : Of(i, u, "chunk") =>
       down[i].c \in 1 .. job[u].size /\ (job[u].stage = "stream" => down[i].c <= job[u].sent)
  /\ \A i \in DOMAIN down : Of(i, u, "eof") => job[u].stage # "stream"
  /\ \A i, j \in DOMAIN down : i < j /\ down[i].u = u /\ down[j].u = u =>
       /\ down[j].k # "init" /\ down[i].k # "eof"
       /\ down[i].k = "chunk" /\ down[j].k = "chunk" => down[i].c < down[j].c

\* Until its init frame is read, an upload has left nothing on the agent.
NewInv(u) ==
  /\ job[u].stage \in {"none", "init"} \/ (\E i \in DOMAIN down : Of(i, u, "init")) =>
       content[u] = <<>> /\ session[u] = NoFile /\ \A n \in Names : disk[n] # u
  /\ job[u].stage \in {"none", "init"} => waiter[u].state # "filled"

\* A file is a prefix of its source, and only its own upload writes it.
ContentInv(u) ==
  /\ session[u] \in {NoFile, u}
  /\ Len(content[u]) <= job[u].size
  /\ \A p \in DOMAIN content[u] : content[u][p] = <<u, p>>

\* While the file is open, or about to be, no chunk is missing between what
\* was written, what is under way and what the task has sent.
FlowInv(u) == Live(u) =>
  /\ \A i \in DOMAIN down : Of(i, u, "chunk") =>
       \/ down[i].c = Len(content[u]) + 1
       \/ \E j \in DOMAIN down : j < i /\ Of(j, u, "chunk") /\ down[i].c = down[j].c + 1
  /\ job[u].stage = "stream" /\ Online(job[u].conn) =>
       \/ job[u].sent = Len(content[u])
       \/ \E j \in DOMAIN down : Of(j, u, "chunk") /\ down[j].c = job[u].sent

\* A result counts the file as it will stay.
ResultInv(u) ==
  waiter[u].state = "filled" /\ waiter[u].ok => waiter[u].bytes = Len(content[u]) /\ ~Live(u)

\* A file the hub is done with is about to be closed.
ClosedInv(u) == Live(u) /\ Online(job[u].conn) =>
  \/ job[u].stage \in {"stream", "dropped"}
  \/ \E i \in DOMAIN down : Of(i, u, "eof")

UInv(u) == JobInv(u) /\ FramesInv(u) /\ NewInv(u) /\ ContentInv(u) /\ FlowInv(u)
           /\ ResultInv(u) /\ ClosedInv(u)

DiskInv ==
  /\ content[Old] = <<<<Old, 1>>>>
  /\ \A m, n \in Names : m # n /\ disk[m] # NoFile => disk[m] # disk[n]

UploadInv == UploadType /\ DiskInv /\ \A u \in Uploads : UInv(u)

\* What a step does to the frames: nothing, one more, or one less, of w.
Frames(w) ==
  \/ down' = down
  \/ \E r \in FrameSet : r.u = w /\ down' = Append(down, r)
  \/ down # <<>> /\ down[1].u = w /\ down' = Tail(down)

\* A step of upload w leaves the invariant of another upload alone.
LEMMA Elsewhere ==
  ASSUME UploadType, NEW w \in Uploads, NEW u \in Uploads \ {w}, UInv(u), Frames(w),
         UNCHANGED <<conn, up>>, job'[u] = job[u], waiter'[u] = waiter[u],
         session'[u] = session[u], content'[u] = content[u],
         \A n \in Names : disk'[n] = u => disk[n] = u
  PROVE  UInv(u)'
<1>1. PICK s \in {0, 1} :
        /\ \A i \in DOMAIN down' : down'[i].u = u => i + s \in DOMAIN down /\ down[i + s] = down'[i]
        /\ \A i \in DOMAIN down : down[i].u = u => i - s \in DOMAIN down' /\ down'[i - s] = down[i]
  <2> DEFINE P(s) ==
        /\ \A i \in DOMAIN down' : down'[i].u = u => i + s \in DOMAIN down /\ down[i + s] = down'[i]
        /\ \A i \in DOMAIN down : down[i].u = u => i - s \in DOMAIN down' /\ down'[i - s] = down[i]
  <2>1. CASE down' = down
    <3>1. P(0)
      BY <2>1 DEF UploadType
    <3> QED  BY <3>1
  <2>2. ASSUME NEW r \in FrameSet, r.u = w, down' = Append(down, r)
        PROVE  P(0)
    <3>1. /\ DOMAIN down = 1 .. Len(down) /\ DOMAIN down' = 1 .. Len(down) + 1 /\ Len(down) \in Nat
          /\ \A i \in 1 .. Len(down) : down'[i] = down[i]
          /\ down'[Len(down) + 1] = r
      BY <2>2, AppendFacts DEF UploadType
    <3> QED  BY <3>1, <2>2
  <2>3. CASE down # <<>> /\ down[1].u = w /\ down' = Tail(down)
    <3>1. /\ DOMAIN down = 1 .. Len(down) /\ DOMAIN down' = 1 .. Len(down) - 1 /\ Len(down) \in Nat
          /\ \A i \in 1 .. Len(down) - 1 : down'[i] = down[i + 1]
      BY <2>3, TailFacts DEF UploadType
    <3>2. P(1)
      BY <3>1, <2>3
    <3> QED  BY <3>2
  <2> QED  BY <2>1, <2>2, <2>3 DEF Frames
<1>2. DOMAIN down \subseteq Nat /\ DOMAIN down' \subseteq Nat
  BY DEF UploadType, Frames
<1>3. \A k : (\E i \in DOMAIN down' : Of(i, u, k)') <=> (\E i \in DOMAIN down : Of(i, u, k))
  BY <1>1 DEF Of
<1>4. Live(u)' <=> Live(u)
  BY <1>3 DEF Live
<1>5. JobInv(u)'
  BY <1>4 DEF UInv, JobInv
<1>6. FramesInv(u)'
  <2>1. FramesInv(u)
    BY DEF UInv
  <2> QED  BY <2>1, <1>1, <1>2 DEF FramesInv, Of
<1>7. NewInv(u)'
  BY <1>3 DEF UInv, NewInv
<1>8. ContentInv(u)'
  BY DEF UInv, ContentInv
<1>9. FlowInv(u)'
  <2>1. FlowInv(u)
    BY DEF UInv
  <2> SUFFICES ASSUME Live(u) PROVE FlowInv(u)'
    BY <1>4 DEF FlowInv
  <2>2. ASSUME NEW i \in DOMAIN down', Of(i, u, "chunk")'
        PROVE  \/ down'[i].c = Len(content[u]) + 1
               \/ \E j \in DOMAIN down' : j < i /\ Of(j, u, "chunk")' /\ down'[i].c = down'[j].c + 1
    <3>1. Of(i + s, u, "chunk") /\ down[i + s] = down'[i]
      BY <2>2, <1>1 DEF Of
    <3>2. CASE down[i + s].c = Len(content[u]) + 1
      BY <3>1, <3>2
    <3>3. ASSUME NEW j \in DOMAIN down, j < i + s, Of(j, u, "chunk"), down[i + s].c = down[j].c + 1
          PROVE  \E k \in DOMAIN down' : k < i /\ Of(k, u, "chunk")' /\ down'[i].c = down'[k].c + 1
      <4>1. j - s \in DOMAIN down' /\ down'[j - s] = down[j] /\ j - s < i
        BY <3>3, <1>1, <1>2 DEF Of
      <4> QED  BY <4>1, <3>1, <3>3 DEF Of
    <3> QED  BY <2>1, <3>1, <3>2, <3>3 DEF FlowInv, Of
  <2>3. ASSUME job'[u].stage = "stream", Online(job[u].conn)'
        PROVE  \/ job'[u].sent = Len(content[u])
               \/ \E j \in DOMAIN down' : Of(j, u, "chunk")' /\ down'[j].c = job'[u].sent
    BY <2>1, <2>3, <1>1 DEF FlowInv, Of, Online
  <2> QED  BY <2>2, <2>3 DEF FlowInv
<1>10. ResultInv(u)'
  BY <1>4 DEF UInv, ResultInv
<1>11. ClosedInv(u)'
  BY <1>3, <1>4 DEF UInv, ClosedInv, Online
<1> QED  BY <1>5, <1>6, <1>7, <1>8, <1>9, <1>10, <1>11 DEF UInv

-----------------------------------------------------------------------------
(* Uploads: the steps of the hub                                           *)

\* What Over and Finish make of a job, and that it is a job.
LEMMA OverFacts ==
  ASSUME NEW j \in Job, NEW stage \in {"over", "dropped"}, NEW ok \in BOOLEAN
  PROVE  LET o == Over(j, stage, ok) IN
         /\ o \in Job /\ o.size = j.size /\ o.conn = j.conn /\ o.sent = 0
         /\ o.source = "open" /\ o.stage = stage /\ o.user = "there"
         /\ j.user = "gone" \/ j.told # "no" => o.told = j.told
         /\ ~(j.user = "gone" \/ j.told # "no") => o.told = IF ok THEN "ok" ELSE "error"
<1> DEFINE o == Over(j, stage, ok)
           t == IF j.user = "gone" \/ j.told # "no" THEN j.told ELSE IF ok THEN "ok" ELSE "error"
<1>1. o = [size |-> j.size, conn |-> j.conn, sent |-> 0, source |-> "open",
           stage |-> stage, user |-> "there", told |-> t]
  <2>1. o = [NoJob EXCEPT !.size = j.size, !.conn = j.conn, !.stage = stage, !.told = t]
    BY DEF Over
  <2> HIDE DEF o, t
  <2> QED  BY <2>1 DEF NoJob
<1>2. t \in {"no", "ok", "error"} /\ j.size \in 0 .. MaxSize /\ j.conn \in 0 .. MaxConn /\ 0 \in 0 .. MaxSize
  BY UploadAssumption DEF Job
<1>3. o \in Job
  <2> HIDE DEF t, o
  <2> QED  BY <1>1, <1>2 DEF Job
<1> QED
  <2>1. t = IF j.user = "gone" \/ j.told # "no" THEN j.told ELSE IF ok THEN "ok" ELSE "error"
    OBVIOUS
  <2> HIDE DEF t, o
  <2>2. /\ o.size = j.size /\ o.conn = j.conn /\ o.sent = 0 /\ o.source = "open"
        /\ o.stage = stage /\ o.user = "there" /\ o.told = t
    BY <1>1
  <2>3. o = Over(j, stage, ok)
    BY DEF o
  <2> QED  BY <1>3, <2>1, <2>2, <2>3

\* A step of the task that sends nothing: only the stage, the source and the
\* conclusion of the job may change.
LEMMA QuietStep ==
  ASSUME UploadType, NEW u \in Uploads, UInv(u),
         UNCHANGED <<conn, up, down, session, disk, content>>,
         job'[u].conn = job[u].conn, job'[u].size = job[u].size,
         \/ job'[u].stage = job[u].stage /\ job'[u].sent = job[u].sent
         \/ job'[u].stage \in {"over", "dropped"},
         waiter'[u] = waiter[u] \/ waiter'[u].state # "filled",
         Live(u)' = Live(u) => JobInv(u)' /\ ClosedInv(u)'
  PROVE  UInv(u)'
<1>1. \A i, k : Of(i, u, k)' = Of(i, u, k)
  BY DEF Of
<1>2. Live(u)' = Live(u)
  BY <1>1 DEF Live
<1>3. JobInv(u)' /\ ClosedInv(u)'
  BY <1>2
<1>4. FramesInv(u)'
  BY <1>1 DEF UInv, FramesInv
<1>5. NewInv(u)'
  BY <1>1 DEF UInv, NewInv
<1>6. ContentInv(u)'
  BY DEF UInv, ContentInv
<1>7. FlowInv(u)'
  BY <1>1, <1>2 DEF UInv, FlowInv, Online
<1>8. ResultInv(u)'
  BY <1>2 DEF UInv, ResultInv
<1> QED  BY <1>3, <1>4, <1>5, <1>6, <1>7, <1>8 DEF UInv

\* The task of an upload is over, with the agent's result or without.
LEMMA FinishStep ==
  ASSUME UploadType, NEW u \in Uploads, UInv(u), NEW ok \in BOOLEAN, Finish(u, ok),
         job[u].stage # "none",
         UNCHANGED <<conn, up, down, session, disk, content>>,
         ok => job[u].stage = "wait" /\ ~Live(u),
         job[u].stage = "wait" \/ ~Online(job[u].conn)
  PROVE  UInv(u)'
<1>1. job[u] \in Job /\ job'[u] = Over(job[u], "over", ok) /\ waiter'[u].state # "filled"
  BY DEF UploadType, Finish, AWaiter
<1>2. /\ job'[u].size = job[u].size /\ job'[u].conn = job[u].conn /\ job'[u].sent = 0
      /\ job'[u].source = "open" /\ job'[u].stage = "over" /\ job'[u].user = "there"
      /\ job[u].user = "gone" \/ job[u].told # "no" => job'[u].told = job[u].told
      /\ ~(job[u].user = "gone" \/ job[u].told # "no") =>
           job'[u].told = IF ok THEN "ok" ELSE "error"
  BY <1>1, OverFacts, "over" \in {"over", "dropped"}
<1>3. 0 <= job[u].size
  BY <1>1 DEF Job
<1>4. ASSUME Live(u)' = Live(u)
      PROVE  JobInv(u)' /\ ClosedInv(u)'
  <2>1. JobInv(u)'
    BY <1>2, <1>3, <1>4 DEF UInv, JobInv
  <2>2. ClosedInv(u)'
    BY <1>2, <1>4 DEF UInv, ClosedInv, Online, Of
  <2> QED  BY <2>1, <2>2
<1> QED  BY <1>1, <1>2, <1>4, QuietStep

\* A new upload has no frames and nothing on the agent.
LEMMA StartStep ==
  ASSUME UploadType, NEW u \in Uploads, UInv(u), StartUpload(u)
  PROVE  UInv(u)'
<1>1. PICK n \in Sizes : job' = [job EXCEPT ![u] = [NoJob EXCEPT !.size = n, !.conn = conn, !.stage = "init"]]
  BY DEF StartUpload
<1>2. /\ job'[u].size = n /\ job'[u].conn = conn /\ job'[u].sent = 0 /\ job'[u].source = "open"
      /\ job'[u].stage = "init" /\ job'[u].user = "there" /\ job'[u].told = "no"
  BY <1>1 DEF NoJob, UploadType
<1>3. n \in Nat /\ conn \in Nat /\ job[u].stage = "none"
  BY UploadAssumption DEF UploadType, StartUpload
<1>4. UNCHANGED <<conn, up, down, session, disk, content>> /\ waiter'[u].state = "armed"
  BY DEF StartUpload, linkVars, agentVars, AWaiter, UploadType
<1>5. \A i \in DOMAIN down : down[i].u # u
  BY <1>3 DEF UInv, FramesInv
<1>6. content[u] = <<>> /\ session[u] = NoFile /\ \A m \in Names : disk[m] # u
  BY <1>3 DEF UInv, NewInv
<1>7. ~Live(u)'
  BY <1>4, <1>5, <1>6 DEF Live, Of
<1>8. JobInv(u)'
  BY <1>2, <1>3, <1>4, <1>7 DEF JobInv
<1>9. FramesInv(u)'
  BY <1>4, <1>5 DEF FramesInv, Of
<1>10. NewInv(u)'
  BY <1>4, <1>6 DEF NewInv
<1>11. ContentInv(u)'
  BY <1>2, <1>3, <1>4, <1>6 DEF ContentInv
<1>12. FlowInv(u)' /\ ResultInv(u)' /\ ClosedInv(u)'
  BY <1>4, <1>7 DEF FlowInv, ResultInv, ClosedInv
<1> QED  BY <1>8, <1>9, <1>10, <1>11, <1>12 DEF UInv

\* The steps of a job that send nothing to the agent.
LEMMA QuietSteps ==
  ASSUME UploadType, NEW u \in Uploads, UInv(u),
         \/ RefuseUpload(u) \/ HandlerDropped(u) \/ GiveEof(u) \/ GiveUp(u)
         \/ UserLeaves(u) \/ TakeResult(u) \/ MissResult(u)
  PROVE  UInv(u)'
<1> USE DEF linkVars, hubVars, agentVars
<1>1. job[u] \in Job /\ JobInv(u)
  BY DEF UploadType, UInv
<1>2. CASE RefuseUpload(u)
  <2>1. /\ job'[u].size = job[u].size /\ job'[u].conn = job[u].conn /\ job'[u].sent = job[u].sent
        /\ job'[u].source = job[u].source /\ job'[u].stage = "over" /\ job'[u].user = job[u].user
        /\ job'[u].told = "error" /\ job[u] = NoJob
    BY <1>1, <1>2 DEF RefuseUpload, UploadType, Job, JobInv
  <2>2. ~Live(u)
    BY <1>2 DEF RefuseUpload, UInv, NewInv, FramesInv, Live, Of
  <2>3. UNCHANGED <<conn, up, down, session, disk, content, waiter>>
    BY <1>2 DEF RefuseUpload
  <2>4. Live(u)' = Live(u) => JobInv(u)' /\ ClosedInv(u)'
    BY <1>1, <2>1, <2>2, <2>3 DEF JobInv, ClosedInv, NoJob, Job
  <2> QED  BY <2>1, <2>3, <2>4, QuietStep
<1>3. CASE HandlerDropped(u)
  <2>1. job'[u] = Over(job[u], "dropped", FALSE) /\ waiter'[u].state = "none"
    BY <1>3 DEF HandlerDropped, UploadType, AWaiter
  <2>2. /\ job'[u].size = job[u].size /\ job'[u].conn = job[u].conn /\ job'[u].sent = 0
        /\ job'[u].source = "open" /\ job'[u].stage = "dropped"
        /\ job'[u].told = job[u].told
    <3>1. job[u].user = "gone"
      BY <1>3 DEF HandlerDropped
    <3>2. PICK ok \in BOOLEAN : ok = FALSE
      OBVIOUS
    <3>3. job'[u] = Over(job[u], "dropped", ok)
      BY <2>1, <3>2
    <3> QED  BY <1>1, <3>1, <3>3, OverFacts, "dropped" \in {"over", "dropped"}
  <2>3. UNCHANGED <<conn, up, down, session, disk, content>>
    BY <1>3 DEF HandlerDropped
  <2>4. Live(u)' = Live(u) => JobInv(u)' /\ ClosedInv(u)'
    <3>1. job[u].stage \in {"init", "stream", "wait"} /\ 0 <= job[u].size
      BY <1>1, <1>3 DEF HandlerDropped, Job
    <3>2. job[u].told # "ok" /\ job[u].conn <= conn
      BY <1>1, <3>1 DEF JobInv
    <3> QED  BY <3>1, <3>2, <2>2, <2>3 DEF JobInv, ClosedInv
  <2> QED  BY <2>1, <2>2, <2>3, <2>4, QuietStep
<1>4. CASE GiveEof(u)
  <2>1. /\ job'[u].size = job[u].size /\ job'[u].conn = job[u].conn /\ job'[u].sent = job[u].sent
        /\ job'[u].source = "ended" /\ job'[u].stage = job[u].stage /\ job'[u].user = job[u].user
        /\ job'[u].told = job[u].told
    BY <1>1, <1>4 DEF GiveEof, UploadType, Job
  <2>2. UNCHANGED <<conn, up, down, session, disk, content, waiter>>
    BY <1>4 DEF GiveEof
  <2>3. Live(u)' = Live(u) => JobInv(u)'
    BY <1>1, <1>4, <2>1, <2>2 DEF GiveEof, JobInv
  <2>4. Live(u)' = Live(u) => ClosedInv(u)'
    BY <2>1, <2>2 DEF UInv, ClosedInv, Online, Of
  <2> QED  BY <2>1, <2>2, <2>3, <2>4, QuietStep
<1>5. CASE GiveUp(u)
  <2>1. /\ job'[u].size = job[u].size /\ job'[u].conn = job[u].conn /\ job'[u].sent = job[u].sent
        /\ job'[u].source = "stalled" /\ job'[u].stage = job[u].stage /\ job'[u].user = job[u].user
        /\ job'[u].told = "error"
    BY <1>1, <1>5 DEF GiveUp, UploadType, Job
  <2>2. UNCHANGED <<conn, up, down, session, disk, content, waiter>>
    BY <1>5 DEF GiveUp
  <2>3. Live(u)' = Live(u) => JobInv(u)'
    BY <1>1, <1>5, <2>1, <2>2 DEF GiveUp, JobInv
  <2>4. Live(u)' = Live(u) => ClosedInv(u)'
    BY <2>1, <2>2 DEF UInv, ClosedInv, Online, Of
  <2> QED  BY <2>1, <2>2, <2>3, <2>4, QuietStep
<1>6. CASE UserLeaves(u)
  <2>1. /\ job'[u].size = job[u].size /\ job'[u].conn = job[u].conn /\ job'[u].sent = job[u].sent
        /\ job'[u].source \in {job[u].source, "ended", "broken"}
        /\ job[u].stage = "wait" => job'[u].source = "ended"
        /\ job'[u].stage = job[u].stage /\ job'[u].user = "gone"
        /\ job'[u].told = job[u].told
    BY <1>1, <1>6 DEF UserLeaves, UploadType, Job, JobInv, SourceCut
  <2>2. UNCHANGED <<conn, up, down, session, disk, content, waiter>>
    BY <1>6 DEF UserLeaves
  <2>3. Live(u)' = Live(u) => JobInv(u)'
    BY <1>1, <1>6, <2>1, <2>2 DEF UserLeaves, JobInv
  <2>4. Live(u)' = Live(u) => ClosedInv(u)'
    BY <2>1, <2>2 DEF UInv, ClosedInv, Online, Of
  <2> QED  BY <2>1, <2>2, <2>3, <2>4, QuietStep
<1>7. CASE TakeResult(u)
  <2>1. PICK ok \in BOOLEAN : ok = Accepts(job[u], waiter[u])
    BY DEF Accepts
  <2>2. Finish(u, ok) /\ job[u].stage = "wait" /\ waiter[u].state = "filled"
        /\ UNCHANGED <<conn, up, down, session, disk, content>>
    BY <1>7, <2>1 DEF TakeResult
  <2>3. ok => ~Live(u)
    BY <2>1, <2>2 DEF Accepts, UInv, ResultInv
  <2> QED  BY <2>2, <2>3, FinishStep
<1>8. CASE MissResult(u)
  <2>1. Finish(u, FALSE) /\ job[u].stage = "wait" /\ UNCHANGED <<conn, up, down, session, disk, content>>
    BY <1>8 DEF MissResult
  <2> QED  BY <2>1, FinishStep, FALSE \in BOOLEAN
<1> QED  BY <1>2, <1>3, <1>4, <1>5, <1>6, <1>7, <1>8

\* A step of the task that sends a frame.  The parts that do not depend on
\* what the frame says:
LEMMA SendStep ==
  ASSUME UploadType, NEW u \in Uploads, UInv(u), NEW r \in FrameSet, r.u = u,
         down' = Append(down, r), Online(job[u].conn), job[u].stage \in {"init", "stream"},
         UNCHANGED <<conn, up, session, disk, content>>,
         waiter'[u] = waiter[u] \/ waiter'[u].state = "none",
         job'[u].conn = job[u].conn, job'[u].size = job[u].size,
         job'[u].stage \notin {"none", "init"},
         r.k = "init" <=> job[u].stage = "init"
  PROVE  /\ \A i \in DOMAIN down : i \in DOMAIN down' /\ down'[i] = down[i] /\ i < Len(down) + 1
         /\ Len(down) + 1 \in DOMAIN down' /\ down'[Len(down) + 1] = r
         /\ \A i \in DOMAIN down' : i \in DOMAIN down \/ i = Len(down) + 1
         /\ DOMAIN down \subseteq Nat /\ Len(down) \in Nat
         /\ \A i \in DOMAIN down : job[u].stage = "init" => down[i].u # u
         /\ r.k = "init" => Live(u)'
         /\ r.k # "init" => (Live(u)' <=> Live(u))
         /\ NewInv(u)' /\ ContentInv(u)' /\ ResultInv(u)'
<1>1. /\ \A i \in DOMAIN down : i \in DOMAIN down' /\ down'[i] = down[i] /\ i < Len(down) + 1
      /\ Len(down) + 1 \in DOMAIN down' /\ down'[Len(down) + 1] = r
      /\ \A i \in DOMAIN down' : i \in DOMAIN down \/ i = Len(down) + 1
      /\ DOMAIN down \subseteq Nat /\ Len(down) \in Nat
  <2>1. /\ Len(down) \in Nat
        /\ DOMAIN down = 1 .. Len(down) /\ DOMAIN down' = 1 .. Len(down) + 1
        /\ \A i \in 1 .. Len(down) : down'[i] = down[i]
        /\ down'[Len(down) + 1] = r
    BY AppendFacts DEF UploadType
  <2> QED  BY <2>1
<1>2. \A i \in DOMAIN down : job[u].stage = "init" => down[i].u # u
  BY DEF UInv, FramesInv
<1>3. r.k = "init" => Live(u)'
  BY <1>1 DEF Live, Of
<1>4. r.k # "init" => (Live(u)' <=> Live(u))
  BY <1>1 DEF Live, Of
<1>5. NewInv(u)'
  BY <1>1, <1>4 DEF UInv, NewInv, Of
<1>6. ContentInv(u)'
  BY DEF UInv, ContentInv
<1>7. ResultInv(u)'
  BY <1>4 DEF UInv, ResultInv, NewInv
<1> QED  BY <1>1, <1>2, <1>3, <1>4, <1>5, <1>6, <1>7

\* The init frame, the chunks and the eof of an upload.
LEMMA SendSteps ==
  ASSUME UploadType, NEW u \in Uploads, UInv(u),
         SendInit(u) \/ ForwardChunk(u) \/ ForwardEof(u) \/ ForwardFailure(u)
  PROVE  UInv(u)'
<1> USE DEF linkVars, hubVars, agentVars
<1>1. job[u] \in Job /\ JobInv(u)
  BY DEF UploadType, UInv
<1>2. UNCHANGED <<conn, up, session, disk, content>>
  BY DEF SendInit, ForwardChunk, ForwardEof, ForwardFailure
<1>3. CASE ~Online(job[u].conn)
  <2>1. Finish(u, FALSE) /\ job[u].stage # "none" /\ UNCHANGED down
    BY <1>3 DEF SendInit, ForwardChunk, ForwardEof, ForwardFailure
  <2> QED  BY <1>2, <1>3, <2>1, FinishStep, FALSE \in BOOLEAN
<1>4. CASE Online(job[u].conn) /\ SendInit(u)
  <2> DEFINE r == [k |-> "init", u |-> u, c |-> 0]
  <2>1. /\ job'[u].size = job[u].size /\ job'[u].conn = job[u].conn /\ job'[u].sent = job[u].sent
        /\ job'[u].source = job[u].source /\ job'[u].stage = "stream" /\ job'[u].user = job[u].user
        /\ job'[u].told = job[u].told
        /\ job[u].stage = "init" /\ down' = Append(down, r) /\ waiter' = waiter
    BY <1>1, <1>4 DEF SendInit, UploadType, Job
  <2>2. r \in FrameSet /\ r.u = u /\ r.k = "init"
    BY DEF FrameSet
  <2> HIDE DEF r
  <2>3. /\ \A i \in DOMAIN down : i \in DOMAIN down' /\ down'[i] = down[i] /\ i < Len(down) + 1
        /\ Len(down) + 1 \in DOMAIN down' /\ down'[Len(down) + 1] = r
        /\ \A i \in DOMAIN down' : i \in DOMAIN down \/ i = Len(down) + 1
        /\ DOMAIN down \subseteq Nat /\ Len(down) \in Nat
        /\ \A i \in DOMAIN down : down[i].u # u
        /\ NewInv(u)' /\ ContentInv(u)' /\ ResultInv(u)'
    BY <1>2, <1>4, <2>1, <2>2, SendStep
  <2>4. JobInv(u)'
    BY <1>1, <1>2, <2>1 DEF JobInv
  <2>5. FramesInv(u)'
    BY <1>2, <1>4, <2>1, <2>2, <2>3 DEF FramesInv, Of, Online
  <2>6. FlowInv(u)'
    <3>1. Len(content[u]) = 0 /\ job[u].sent = 0
      BY <1>1, <2>1 DEF UInv, NewInv, JobInv
    <3> QED  BY <1>2, <2>1, <2>2, <2>3, <3>1 DEF FlowInv, Of
  <2>7. ClosedInv(u)'
    BY <2>1 DEF ClosedInv
  <2> QED  BY <2>3, <2>4, <2>5, <2>6, <2>7 DEF UInv
<1>5. CASE Online(job[u].conn) /\ ForwardChunk(u)
  <2> DEFINE r == [k |-> "chunk", u |-> u, c |-> job[u].sent + 1]
  <2>1. /\ job'[u].size = job[u].size /\ job'[u].conn = job[u].conn /\ job'[u].sent = job[u].sent + 1
        /\ job'[u].source = job[u].source /\ job'[u].stage = "stream" /\ job'[u].user = job[u].user
        /\ job'[u].told = job[u].told /\ job[u].sent < job[u].size
        /\ job[u].stage = "stream" /\ down' = Append(down, r) /\ waiter' = waiter
    BY <1>1, <1>5 DEF ForwardChunk, UploadType, Job
  <2>2. r \in FrameSet /\ r.u = u /\ r.k = "chunk" /\ r.c = job[u].sent + 1
        /\ job[u].sent \in Nat /\ job[u].size \in Nat
    BY <1>1 DEF FrameSet, Job
  <2> HIDE DEF r
  <2>3. /\ \A i \in DOMAIN down : i \in DOMAIN down' /\ down'[i] = down[i] /\ i < Len(down) + 1
        /\ Len(down) + 1 \in DOMAIN down' /\ down'[Len(down) + 1] = r
        /\ \A i \in DOMAIN down' : i \in DOMAIN down \/ i = Len(down) + 1
        /\ DOMAIN down \subseteq Nat /\ Len(down) \in Nat /\ (Live(u)' <=> Live(u))
        /\ NewInv(u)' /\ ContentInv(u)' /\ ResultInv(u)'
    BY <1>2, <1>5, <2>1, <2>2, SendStep
  <2>4. JobInv(u)'
    BY <1>1, <1>2, <2>1, <2>2, <2>3 DEF JobInv
  <2>5. FramesInv(u)'
    <3>1. \A i \in DOMAIN down : down[i].c \in Nat
      <4>1. \A i \in DOMAIN down : down[i] \in FrameSet
        BY DEF UploadType
      <4> QED  BY <4>1 DEF FrameSet
    <3>2. FramesInv(u)
      BY DEF UInv
    <3>3. up /\ job[u].conn = conn
      BY <1>5 DEF Online
    <3>4. \A i \in DOMAIN down : down[i].u = u =>
            down[i].k # "eof" /\ (down[i].k = "chunk" => down[i].c < r.c)
      BY <2>1, <2>2, <3>1, <3>2 DEF FramesInv, Of
    <3>5. \A i \in DOMAIN down' : Of(i, u, "chunk")' =>
            down'[i].c \in 1 .. job'[u].size /\ down'[i].c <= job'[u].sent
      BY <2>1, <2>2, <2>3, <3>1, <3>2, <3>4 DEF FramesInv, Of
    <3>6. \A i, j \in DOMAIN down' : i < j /\ down'[i].u = u /\ down'[j].u = u =>
            /\ down'[j].k # "init" /\ down'[i].k # "eof"
            /\ down'[i].k = "chunk" /\ down'[j].k = "chunk" => down'[i].c < down'[j].c
      BY <2>2, <2>3, <3>2, <3>4 DEF FramesInv
    <3> QED  BY <1>2, <2>1, <2>2, <2>3, <3>2, <3>3, <3>4, <3>5, <3>6 DEF FramesInv, Of
  <2>6. FlowInv(u)'
    <3> SUFFICES ASSUME Live(u) PROVE FlowInv(u)'
      BY <2>3 DEF FlowInv
    <3>1. \/ job[u].sent = Len(content[u])
          \/ \E j \in DOMAIN down : Of(j, u, "chunk") /\ down[j].c = job[u].sent
      BY <1>5, <2>1 DEF UInv, FlowInv
    <3>2. ASSUME NEW i \in DOMAIN down', Of(i, u, "chunk")'
          PROVE  \/ down'[i].c = Len(content[u]) + 1
                 \/ \E j \in DOMAIN down' : j < i /\ Of(j, u, "chunk")' /\ down'[i].c = down'[j].c + 1
      <4>1. CASE i \in DOMAIN down
        BY <2>3, <3>2, <4>1 DEF UInv, FlowInv, Of
      <4>2. CASE i = Len(down) + 1
        BY <2>2, <2>3, <3>1, <4>2 DEF Of
      <4> QED  BY <2>3, <4>1, <4>2
    <3>3. \E j \in DOMAIN down' : Of(j, u, "chunk")' /\ down'[j].c = job'[u].sent
      BY <2>1, <2>2, <2>3 DEF Of
    <3> QED  BY <1>2, <3>2, <3>3 DEF FlowInv
  <2>7. ClosedInv(u)'
    BY <2>1 DEF ClosedInv
  <2> QED  BY <2>3, <2>4, <2>5, <2>6, <2>7 DEF UInv
<1>6. CASE Online(job[u].conn) /\ (ForwardEof(u) \/ ForwardFailure(u))
  <2> DEFINE r == [k |-> "eof", u |-> u, c |-> 0]
  <2>1. /\ job'[u].size = job[u].size /\ job'[u].conn = job[u].conn
        /\ job'[u].stage \in {"wait", "over"} /\ JobInv(u)'
        /\ job[u].stage = "stream" /\ down' = Append(down, r)
        /\ waiter'[u] = waiter[u] \/ waiter'[u].state = "none"
    <3>1. 0 <= job[u].size /\ job[u].told # "ok"
      <4>1. job[u].stage = "stream"
        BY <1>6 DEF ForwardEof, ForwardFailure
      <4>2. job[u].size \in 0 .. MaxSize
        BY <1>1 DEF Job
      <4> QED  BY <1>1, <4>1, <4>2 DEF JobInv
    <3>2. CASE ForwardEof(u)
      <4>1. /\ job'[u].size = job[u].size /\ job'[u].conn = job[u].conn /\ job'[u].sent = job[u].sent
            /\ job'[u].source = job[u].source /\ job'[u].stage = "wait" /\ job'[u].user = job[u].user
            /\ job'[u].told = job[u].told /\ job[u].source = "ended" /\ job[u].stage = "stream"
            /\ down' = Append(down, r) /\ waiter' = waiter
        BY <1>1, <1>6, <3>2 DEF ForwardEof, UploadType, Job
      <4>2. JobInv(u)'
        BY <1>1, <1>2, <3>1, <4>1 DEF JobInv
      <4> QED  BY <4>1, <4>2
    <3>3. CASE ForwardFailure(u)
      <4>1. PICK ok \in BOOLEAN : ok = FALSE
        OBVIOUS
      <4>2. job'[u] = Over(job[u], "over", ok) /\ waiter'[u].state = "none"
            /\ job[u].stage = "stream" /\ down' = Append(down, r)
        BY <1>6, <3>3, <4>1 DEF ForwardFailure, Finish, UploadType, AWaiter
      <4>3. /\ job'[u].size = job[u].size /\ job'[u].conn = job[u].conn /\ job'[u].sent = 0
            /\ job'[u].source = "open" /\ job'[u].stage = "over" /\ job'[u].user = "there"
            /\ job'[u].told # "ok"
        BY <1>1, <3>1, <4>1, <4>2, OverFacts, "over" \in {"over", "dropped"}
      <4>4. JobInv(u)'
        BY <1>1, <1>2, <3>1, <4>3 DEF JobInv
      <4> QED  BY <4>2, <4>3, <4>4
    <3> QED  BY <1>6, <3>2, <3>3
  <2>2. r \in FrameSet /\ r.u = u /\ r.k = "eof"
    BY DEF FrameSet
  <2> HIDE DEF r
  <2>3. /\ \A i \in DOMAIN down : i \in DOMAIN down' /\ down'[i] = down[i] /\ i < Len(down) + 1
        /\ Len(down) + 1 \in DOMAIN down' /\ down'[Len(down) + 1] = r
        /\ \A i \in DOMAIN down' : i \in DOMAIN down \/ i = Len(down) + 1
        /\ DOMAIN down \subseteq Nat /\ Len(down) \in Nat /\ (Live(u)' <=> Live(u))
        /\ NewInv(u)' /\ ContentInv(u)' /\ ResultInv(u)'
    BY <1>2, <1>6, <2>1, <2>2, SendStep
  <2>4. FramesInv(u)'
    BY <1>2, <1>6, <2>1, <2>2, <2>3 DEF UInv, FramesInv, Of, Online
  <2>5. FlowInv(u)'
    <3> SUFFICES ASSUME Live(u) PROVE FlowInv(u)'
      BY <2>3 DEF FlowInv
    <3>1. ASSUME NEW i \in DOMAIN down', Of(i, u, "chunk")'
          PROVE  \/ down'[i].c = Len(content[u]) + 1
                 \/ \E j \in DOMAIN down' : j < i /\ Of(j, u, "chunk")' /\ down'[i].c = down'[j].c + 1
      BY <2>2, <2>3, <3>1 DEF UInv, FlowInv, Of
    <3> QED  BY <1>2, <2>1, <3>1 DEF FlowInv
  <2>6. ClosedInv(u)'
    BY <2>2, <2>3 DEF ClosedInv, Of
  <2> QED  BY <2>1, <2>3, <2>4, <2>5, <2>6 DEF UInv
<1> QED  BY <1>3, <1>4, <1>5, <1>6

-----------------------------------------------------------------------------
(* Uploads: the steps of the agent                                         *)

\* What remains when the first frame, one of upload w, has been read.
LEMMA ReadFacts ==
  ASSUME UploadType, down # <<>>, down' = Tail(down), NEW w \in Uploads, w = down[1].u,
         UInv(w), UNCHANGED <<conn, up>>, job'[w] = job[w]
  PROVE  /\ 1 \in DOMAIN down /\ down[1] \in FrameSet
         /\ \A i \in DOMAIN down' : i \in Nat /\ i + 1 \in DOMAIN down /\ down'[i] = down[i + 1] /\ 1 < i + 1
         /\ \A i \in DOMAIN down : i \in Nat \ {0} /\ (i = 1 \/ (i - 1 \in DOMAIN down' /\ down'[i - 1] = down[i]))
         /\ \A i \in DOMAIN down' : ~Of(i, w, "init")'
         /\ Live(w)' <=> session'[w] # NoFile
         /\ job[w].stage \notin {"none", "init"}
         /\ down[1].k = "chunk" => down[1].c \in 1 .. job[w].size
         /\ down[1].k = "chunk" => \A i \in DOMAIN down' : Of(i, w, "chunk")' => down[1].c < down'[i].c
         /\ down[1].k = "eof" => \A i \in DOMAIN down' : down'[i].u # w
         /\ FramesInv(w)' /\ NewInv(w)'
<1>1. /\ 1 \in DOMAIN down /\ down[1] \in FrameSet
      /\ \A i \in DOMAIN down' : i \in Nat /\ i + 1 \in DOMAIN down /\ down'[i] = down[i + 1] /\ 1 < i + 1
      /\ \A i \in DOMAIN down : i \in Nat \ {0} /\ (i = 1 \/ (i - 1 \in DOMAIN down' /\ down'[i - 1] = down[i]))
  <2>1. /\ Len(down) \in Nat \ {0} /\ down[1] \in FrameSet
        /\ DOMAIN down = 1 .. Len(down) /\ DOMAIN down' = 1 .. Len(down) - 1
        /\ \A i \in 1 .. Len(down) - 1 : down'[i] = down[i + 1]
    BY TailFacts DEF UploadType
  <2> QED  BY <2>1
<1>2. FramesInv(w)
  BY DEF UInv
<1>3. \A i \in DOMAIN down' : ~Of(i, w, "init")'
  BY <1>1, <1>2 DEF FramesInv, Of
<1>4. Live(w)' <=> session'[w] # NoFile
  BY <1>3 DEF Live
<1>5. job[w].stage \notin {"none", "init"}
  BY <1>1, <1>2 DEF FramesInv
<1>6. down[1].k = "chunk" => down[1].c \in 1 .. job[w].size
  BY <1>1, <1>2 DEF FramesInv, Of
<1>7. down[1].k = "chunk" => \A i \in DOMAIN down' : Of(i, w, "chunk")' => down[1].c < down'[i].c
  BY <1>1, <1>2 DEF FramesInv, Of
<1>8. down[1].k = "eof" => \A i \in DOMAIN down' : down'[i].u # w
  BY <1>1, <1>2 DEF FramesInv
<1>9. FramesInv(w)'
  <2>1. \A i, j \in DOMAIN down' : i < j => i + 1 < j + 1
    BY <1>1
  <2> QED  BY <1>1, <1>2, <2>1 DEF FramesInv, Of
<1>10. NewInv(w)'
  BY <1>3, <1>5 DEF NewInv
<1> QED  BY <1>1, <1>3, <1>4, <1>5, <1>6, <1>7, <1>8, <1>9, <1>10

\* A frame after which the agent has nothing open for the upload.
LEMMA CloseStep ==
  ASSUME UploadType, down # <<>>, down' = Tail(down), NEW w \in Uploads, w = down[1].u,
         UInv(w), UNCHANGED <<conn, up>>, job'[w] = job[w],
         session'[w] = NoFile, content'[w] = content[w],
         \/ waiter'[w] = waiter[w]
         \/ waiter'[w].ok => waiter'[w].bytes = Len(content[w])
  PROVE  UInv(w)'
<1>1. ~Live(w)' /\ FramesInv(w)' /\ NewInv(w)'
  BY ReadFacts
<1>2. JobInv(w)'
  BY <1>1 DEF UInv, JobInv
<1>3. ContentInv(w)'
  BY DEF UInv, ContentInv
<1>4. FlowInv(w)' /\ ClosedInv(w)'
  BY <1>1 DEF FlowInv, ClosedInv
<1>5. ResultInv(w)'
  BY <1>1 DEF UInv, ResultInv
<1> QED  BY <1>1, <1>2, <1>3, <1>4, <1>5 DEF UInv

\* dedupe_path gave the upload a name of its own, and its file is open.
LEMMA OpenStep ==
  ASSUME UploadType, down # <<>>, down' = Tail(down), NEW w \in Uploads, w = down[1].u,
         UInv(w), UNCHANGED <<conn, up>>, job'[w] = job[w], waiter'[w] = waiter[w],
         down[1].k = "init", session'[w] = w, content'[w] = <<>>
  PROVE  UInv(w)'
<1>1. /\ 1 \in DOMAIN down
      /\ \A i \in DOMAIN down' : i \in Nat /\ i + 1 \in DOMAIN down /\ down'[i] = down[i + 1] /\ 1 < i + 1
      /\ \A i \in DOMAIN down : i \in Nat \ {0} /\ (i = 1 \/ (i - 1 \in DOMAIN down' /\ down'[i - 1] = down[i]))
      /\ FramesInv(w)' /\ NewInv(w)'
  BY ReadFacts
<1>2. Live(w) /\ content[w] = <<>>
  BY <1>1 DEF Live, Of, UInv, NewInv
<1>3. JobInv(w)'
  BY <1>2 DEF UInv, JobInv
<1>4. ContentInv(w)'
  BY <1>2 DEF UInv, ContentInv
<1>5. FlowInv(w)'
  <2>1. FlowInv(w)
    BY DEF UInv
  <2>2. ASSUME NEW i \in DOMAIN down', Of(i, w, "chunk")'
        PROVE  \/ down'[i].c = Len(content'[w]) + 1
               \/ \E j \in DOMAIN down' : j < i /\ Of(j, w, "chunk")' /\ down'[i].c = down'[j].c + 1
    <3>1. Of(i + 1, w, "chunk") /\ down[i + 1] = down'[i]
      BY <1>1, <2>2 DEF Of
    <3>2. ASSUME NEW j \in DOMAIN down, j < i + 1, Of(j, w, "chunk"), down[i + 1].c = down[j].c + 1
          PROVE  \E k \in DOMAIN down' : k < i /\ Of(k, w, "chunk")' /\ down'[i].c = down'[k].c + 1
      <4>1. j # 1
        BY <3>2 DEF Of
      <4>2. j - 1 \in DOMAIN down' /\ down'[j - 1] = down[j] /\ j - 1 < i
        BY <1>1, <3>2, <4>1
      <4> QED  BY <3>1, <3>2, <4>2 DEF Of
    <3> QED  BY <1>2, <2>1, <3>1, <3>2 DEF FlowInv, Of
  <2>3. ASSUME job'[w].stage = "stream", Online(job[w].conn)'
        PROVE  \/ job'[w].sent = Len(content'[w])
               \/ \E j \in DOMAIN down' : Of(j, w, "chunk")' /\ down'[j].c = job'[w].sent
    <3>1. job[w].stage = "stream" /\ Online(job[w].conn)
      BY <2>3 DEF Online
    <3>2. CASE job[w].sent = Len(content[w])
      BY <1>2, <3>2
    <3>3. ASSUME NEW j \in DOMAIN down, Of(j, w, "chunk"), down[j].c = job[w].sent
          PROVE  \E k \in DOMAIN down' : Of(k, w, "chunk")' /\ down'[k].c = job'[w].sent
      <4>1. j # 1
        BY <3>3 DEF Of
      <4>2. j - 1 \in DOMAIN down' /\ down'[j - 1] = down[j]
        BY <1>1, <4>1
      <4> QED  BY <3>3, <4>2 DEF Of
    <3> QED  BY <1>2, <2>1, <3>1, <3>2, <3>3 DEF FlowInv
  <2> QED  BY <2>2, <2>3 DEF FlowInv
<1>6. ResultInv(w)'
  BY <1>2 DEF UInv, ResultInv
<1>7. ClosedInv(w)'
  <2>1. \A i \in DOMAIN down : Of(i, w, "eof") => i # 1
    BY DEF Of
  <2>2. (\E i \in DOMAIN down : Of(i, w, "eof")) => \E i \in DOMAIN down' : Of(i, w, "eof")'
    BY <1>1, <2>1, ZenonT(30) DEF Of
  <2> QED  BY <1>2, <2>2 DEF UInv, ClosedInv, Online
<1> QED  BY <1>1, <1>3, <1>4, <1>5, <1>6, <1>7 DEF UInv

\* How many chunks a task has sent.
LEMMA SentIsCount == ASSUME UploadType, NEW w \in Uploads PROVE job[w].sent \in Nat
<1>1. job[w] \in Job
  BY DEF UploadType
<1> QED  BY <1>1 DEF Job

\* What a write leaves in the file.
LEMMA WrittenFacts ==
  ASSUME UploadType, NEW w \in Uploads, NEW n, content'[w] = Append(content[w], <<w, n>>)
  PROVE  /\ Len(content[w]) \in Nat /\ Len(content'[w]) = Len(content[w]) + 1
         /\ DOMAIN content[w] = 1 .. Len(content[w]) /\ DOMAIN content'[w] = 1 .. Len(content[w]) + 1
         /\ \A p \in 1 .. Len(content[w]) : content'[w][p] = content[w][p]
         /\ content'[w][Len(content[w]) + 1] = <<w, n>>
<1>1. content[w] \in Seq(Files \X Nat)
  BY DEF UploadType, Files
<1>2. PICK s \in Seq(Files \X Nat) : s = content[w]
  BY <1>1, Zenon
<1>3. PICK e : e = <<w, n>>
  BY Zenon
<1>4. PICK t : t = content'[w]
  BY Zenon
<1>5. t = Append(s, e)
  BY <1>2, <1>3, <1>4, Zenon
<1>6. /\ Len(t) = Len(s) + 1 /\ Len(s) \in Nat
      /\ DOMAIN s = 1 .. Len(s) /\ DOMAIN t = 1 .. Len(s) + 1
      /\ \A i \in 1 .. Len(s) : t[i] = s[i]
      /\ t[Len(s) + 1] = e
  BY <1>5, AppendedFacts
<1> QED  BY <1>2, <1>3, <1>4, <1>6, Zenon

\* The next chunk of the source is written.
LEMMA WriteStep ==
  ASSUME UploadType, down # <<>>, down' = Tail(down), NEW w \in Uploads, w = down[1].u,
         UInv(w), UNCHANGED <<conn, up>>, job'[w] = job[w], waiter'[w] = waiter[w],
         down[1].k = "chunk", session[w] # NoFile, session'[w] = session[w],
         content'[w] = Append(content[w], <<w, down[1].c>>)
  PROVE  down[1].c = Len(content[w]) + 1 /\ UInv(w)'
<1>1. /\ 1 \in DOMAIN down
      /\ \A i \in DOMAIN down' : i \in Nat /\ i + 1 \in DOMAIN down /\ down'[i] = down[i + 1] /\ 1 < i + 1
      /\ \A i \in DOMAIN down : i \in Nat \ {0} /\ (i = 1 \/ (i - 1 \in DOMAIN down' /\ down'[i - 1] = down[i]))
      /\ \A i \in DOMAIN down' : Of(i, w, "chunk")' => down[1].c < down'[i].c
      /\ down[1].c \in 1 .. job[w].size
      /\ FramesInv(w)' /\ NewInv(w)'
  BY ReadFacts
<1>2. Live(w) /\ Live(w)'
  BY DEF Live
<1>3. down[1].c = Len(content[w]) + 1
  <2>1. FlowInv(w)
    BY DEF UInv
  <2>2. Of(1, w, "chunk") /\ \A j \in DOMAIN down : ~(j < 1)
    <3>1. Of(1, w, "chunk")
      BY <1>1 DEF Of
    <3>2. \A j \in Nat \ {0} : ~(j < 1)
      OBVIOUS
    <3> QED  BY <1>1, <3>1, <3>2
  <2> QED  BY <1>1, <1>2, <2>1, <2>2 DEF FlowInv
<1>4. /\ Len(content[w]) \in Nat /\ Len(content'[w]) = Len(content[w]) + 1
      /\ DOMAIN content[w] = 1 .. Len(content[w]) /\ DOMAIN content'[w] = 1 .. Len(content[w]) + 1
      /\ \A p \in 1 .. Len(content[w]) : content'[w][p] = content[w][p]
      /\ content'[w][Len(content[w]) + 1] = <<w, down[1].c>>
  BY WrittenFacts, Zenon
<1>5. JobInv(w)'
  BY <1>2 DEF UInv, JobInv
<1>6. ContentInv(w)'
  <2>1. /\ session[w] \in {NoFile, w} /\ Len(content[w]) <= job[w].size
        /\ \A p \in DOMAIN content[w] : content[w][p] = <<w, p>>
    BY Zenon DEF UInv, ContentInv
  <2>2. PICK n \in Nat : n = Len(content[w])
    <3>1. Len(content[w]) \in Nat
      BY <1>4, Zenon
    <3> QED  BY <3>1, Zenon
  <2>3. \A p \in 1 .. n : content'[w][p] = <<w, p>>
    BY <1>4, <2>1, <2>2, Zenon
  <2>4. content'[w][n + 1] = <<w, n + 1>>
    BY <1>3, <1>4, <2>2, Zenon
  <2>5. \A p \in DOMAIN content'[w] : p \in 1 .. n \/ p = n + 1
    <3>1. DOMAIN content'[w] = 1 .. n + 1
      BY <1>4, <2>2, Zenon
    <3> QED  BY <3>1
  <2>6. \A p \in DOMAIN content'[w] : content'[w][p] = <<w, p>>
    BY <2>3, <2>4, <2>5, Zenon
  <2>7. Len(content'[w]) <= job'[w].size
    <3>1. n + 1 \in 1 .. job[w].size /\ Len(content'[w]) = n + 1
      BY <1>1, <1>3, <1>4, <2>2, Zenon
    <3>2. job'[w].size = job[w].size
      OBVIOUS
    <3>3. PICK m : m = job[w].size
      OBVIOUS
    <3>4. n + 1 \in 1 .. m
      BY <3>1, <3>3
    <3>5. n + 1 <= m
      BY <3>4
    <3> QED  BY <3>1, <3>2, <3>3, <3>5, Zenon
  <2>8. session'[w] \in {NoFile, w}
    BY <2>1, Zenon
  <2> QED  BY <2>6, <2>7, <2>8, Zenon DEF ContentInv
<1>7. FlowInv(w)'
  <2>1. FlowInv(w)
    BY DEF UInv
  <2>2. ASSUME NEW i \in DOMAIN down', Of(i, w, "chunk")'
        PROVE  \/ down'[i].c = Len(content'[w]) + 1
               \/ \E j \in DOMAIN down' : j < i /\ Of(j, w, "chunk")' /\ down'[i].c = down'[j].c + 1
    <3>1. Of(i + 1, w, "chunk") /\ down[i + 1] = down'[i] /\ down[i + 1].c # Len(content[w]) + 1
      <4>1. /\ i + 1 \in DOMAIN down /\ down[i + 1] = down'[i]
            /\ down'[i].u = w /\ down'[i].k = "chunk" /\ down[1].c < down'[i].c
        BY <1>1, <2>2, Zenon DEF Of
      <4>2. Of(i + 1, w, "chunk") /\ down[1].c < down[i + 1].c
        BY <4>1, Zenon DEF Of
      <4>3. down[1].c \in Nat
        <5>1. Len(content[w]) \in Nat
          BY <1>4, Zenon
        <5> QED  BY <5>1, <1>3
      <4>4. down[1].c # down[i + 1].c
        BY <4>2, <4>3
      <4> QED  BY <4>1, <4>2, <4>4, <1>3, Zenon
    <3>2. PICK j \in DOMAIN down : j < i + 1 /\ Of(j, w, "chunk") /\ down[i + 1].c = down[j].c + 1
      <4>1. i + 1 \in DOMAIN down
        BY <3>1, Zenon DEF Of
      <4> QED  BY <1>2, <2>1, <3>1, <4>1, Zenon DEF FlowInv
    <3>3. CASE j = 1
      BY <1>3, <1>4, <3>1, <3>2, <3>3
    <3>4. CASE j # 1
      <4>1. j - 1 \in DOMAIN down' /\ down'[j - 1] = down[j] /\ j - 1 < i
        BY <1>1, <3>2, <3>4
      <4> QED  BY <3>1, <3>2, <4>1 DEF Of
    <3> QED  BY <3>3, <3>4
  <2>3. ASSUME job'[w].stage = "stream", Online(job[w].conn)'
        PROVE  \/ job'[w].sent = Len(content'[w])
               \/ \E j \in DOMAIN down' : Of(j, w, "chunk")' /\ down'[j].c = job'[w].sent
    <3>1. job[w].stage = "stream" /\ Online(job[w].conn)
      BY <2>3 DEF Online
    <3>2. down[1].c <= job[w].sent
      BY <1>1, <3>1 DEF UInv, FramesInv, Of
    <3>3. job[w].sent # Len(content[w])
      <4>1. job[w].sent \in Nat
        BY SentIsCount, Zenon
      <4>2. Len(content[w]) \in Nat
        BY <1>4
      <4> QED  BY <1>3, <3>2, <4>1, <4>2
    <3>4. PICK j \in DOMAIN down : Of(j, w, "chunk") /\ down[j].c = job[w].sent
      BY <1>2, <2>1, <3>1, <3>3 DEF FlowInv
    <3> QED  BY <1>1, <1>3, <1>4, <3>4, ZenonT(30) DEF Of
  <2> QED  BY <2>2, <2>3 DEF FlowInv
<1>8. ResultInv(w)'
  BY <1>2 DEF UInv, ResultInv
<1>9. ClosedInv(w)'
  <2>1. \A i \in DOMAIN down : Of(i, w, "eof") => i # 1
    BY DEF Of
  <2>2. (\E i \in DOMAIN down : Of(i, w, "eof")) => \E i \in DOMAIN down' : Of(i, w, "eof")'
    BY <1>1, <2>1, ZenonT(30) DEF Of
  <2> QED  BY <1>2, <2>2 DEF UInv, ClosedInv, Online
<1> QED  BY <1>1, <1>3, <1>5, <1>6, <1>7, <1>8, <1>9 DEF UInv

\* The agent counts the bytes of this upload: all the file has.
LEMMA EofCount ==
  ASSUME UploadType, NEW u \in Uploads, ContentInv(u)
  PROVE  Cardinality({p \in DOMAIN content[u] : content[u][p][1] = u}) = Len(content[u])
<1>1. {p \in DOMAIN content[u] : content[u][p][1] = u} = DOMAIN content[u]
  BY DEF ContentInv
<1>2. content[u] \in Seq(Files \X Nat)
  BY DEF UploadType, Files
<1>3. PICK n \in Nat : n = Len(content[u])
  BY <1>2
<1>4. DOMAIN content[u] = 1 .. n
  BY <1>2, <1>3
<1>5. Cardinality(1 .. n) = n
  BY FS_Interval, 1 \in Int, n \in Int
<1> QED  BY <1>1, <1>3, <1>4, <1>5

\* A step of upload w: what it leaves of the others.
Mine(w) ==
  /\ UNCHANGED <<conn, up>> /\ Frames(w)
  /\ \A u \in Uploads \ {w} :
       /\ job'[u] = job[u] /\ waiter'[u] = waiter[u]
       /\ session'[u] = session[u] /\ content'[u] = content[u]
       /\ \A n \in Names : disk'[n] = u => disk[n] = u

\* Result only touches the upload it is for.
LEMMA ResultFacts ==
  ASSUME UploadType, NEW u \in Uploads, NEW ok \in BOOLEAN, NEW n \in 0 .. MaxSize, Result(u, ok, n)
  PROVE  /\ waiter' \in [Uploads -> Waiter]
         /\ \A v \in Uploads \ {u} : waiter'[v] = waiter[v]
         /\ \/ waiter'[u] = waiter[u]
            \/ waiter'[u] = [state |-> "filled", ok |-> ok, bytes |-> n]
<1>1. [state |-> "filled", ok |-> ok, bytes |-> n] \in Waiter
  BY DEF Waiter
<1> QED  BY <1>1 DEF Result, UploadType

\* The frame that is read is the first one.
LEMMA FirstFrame ==
  ASSUME UploadType, NEW i \in DOMAIN down, Frame(i)
  PROVE  i = 1 /\ up /\ down # <<>> /\ down[1] \in FrameSet /\ down[1].u \in Uploads
         /\ RemoveAt(down, i) = Tail(down)
<1>1. i = 1 /\ up
  BY DEF Frame, NextFrame
<1>2. down # <<>> /\ down \in Seq(FrameSet)
  BY <1>1 DEF UploadType
<1>3. down[1] \in FrameSet /\ RemoveAt(down, 1) = Tail(down)
  BY <1>2, RemoveHead, TailFacts
<1> QED  BY <1>1, <1>2, <1>3 DEF FrameSet

\* FsWriteInit: the file that is created is a new one.
LEMMA InitFrame ==
  ASSUME UploadInv, WriteInit
  PROVE  UploadType' /\ DiskInv' /\ \E w \in Uploads : Mine(w) /\ UInv(w)'
<1> USE DEF linkVars, hubVars, agentVars, UploadInv
<1>1. PICK i \in DOMAIN down : WriteInit!(i)
  BY DEF WriteInit
<1>2. /\ i = 1 /\ up /\ down # <<>> /\ down[1] \in FrameSet /\ down[1].u \in Uploads
      /\ down' = Tail(down)
  BY <1>1, FirstFrame
<1>3. PICK w \in Uploads : w = down[1].u
  BY <1>2
<1>4. down[1].k = "init" /\ UNCHANGED <<conn, up, job>> /\ UInv(w)
  BY <1>1, <1>2
<1>5. content[w] = <<>> /\ session[w] = NoFile /\ \A m \in Names : disk[m] # w
  <2>1. Of(1, w, "init")
    BY <1>2, <1>3, <1>4 DEF Of
  <2> QED  BY <2>1, <1>2, <1>4 DEF UInv, NewInv, Of
<1>6. PICK n \in Names : n = Free(disk) /\ disk[n] = NoFile
  <2>1. disk \in [Names -> Uploads \cup {Old, NoFile}]
    BY DEF UploadType, Files
  <2>2. \A m, n \in Names : m # n /\ disk[m] # NoFile => disk[m] # disk[n]
    BY DEF DiskInv
  <2> QED  BY <1>5, <2>1, <2>2, NameFound, UploadAssumption
<1>7. Old \notin Uploads /\ NoFile \notin Uploads /\ Old # NoFile
  BY UploadAssumption, FS_CardinalityType DEF Old, NoFile
<1>8. Frames(w) /\ down' \in Seq(FrameSet)
  BY <1>2, <1>3 DEF Frames, UploadType
<1>9. CASE /\ disk' = [disk EXCEPT ![n] = w] /\ content' = [content EXCEPT ![w] = <<>>]
           /\ session' = [session EXCEPT ![w] = w] /\ UNCHANGED waiter
  <2>1. UploadType'
    BY <1>4, <1>6, <1>8, <1>9 DEF UploadType, Files
  <2>2. DiskInv'
    <3>1. content'[Old] = content[Old]
      BY <1>2, <1>7, <1>9 DEF UploadType, Files
    <3>2. disk'[n] = w /\ \A m \in Names \ {n} : disk'[m] = disk[m]
      BY <1>6, <1>9 DEF UploadType
    <3> QED  BY <3>1, <3>2, <1>5, <1>6 DEF DiskInv
  <2>3. Mine(w)
    BY <1>2, <1>3, <1>4, <1>6, <1>8, <1>9 DEF Mine, UploadType, Files
  <2>4. UInv(w)'
    <3>1. session'[w] = w /\ content'[w] = <<>>
      BY <1>2, <1>9 DEF UploadType, Files
    <3> QED  BY <1>2, <1>3, <1>4, <1>9, <3>1, OpenStep
  <2> QED  BY <2>1, <2>2, <2>3, <2>4
<1>10. CASE Result(w, FALSE, 0) /\ UNCHANGED agentVars
  <2>1. 0 \in 0 .. MaxSize
    BY UploadAssumption
  <2>2. PICK ok \in BOOLEAN : ok = FALSE
    OBVIOUS
  <2>3. /\ waiter' \in [Uploads -> Waiter]
        /\ \A v \in Uploads \ {w} : waiter'[v] = waiter[v]
        /\ waiter'[w] = waiter[w] \/ waiter'[w] = [state |-> "filled", ok |-> ok, bytes |-> 0]
    BY <1>2, <1>10, <2>1, <2>2, ResultFacts
  <2>4. UploadType'
    BY <1>4, <1>8, <1>10, <2>3 DEF UploadType
  <2>5. DiskInv'
    BY <1>10 DEF DiskInv
  <2>6. Mine(w)
    BY <1>4, <1>8, <1>10, <2>3 DEF Mine
  <2>7. UInv(w)'
    <3>1. session'[w] = NoFile /\ content'[w] = content[w]
      BY <1>5, <1>10
    <3>2. waiter'[w] = waiter[w] \/ ~waiter'[w].ok
      BY <2>2, <2>3
    <3> QED  BY <1>2, <1>3, <1>4, <3>1, <3>2, CloseStep
  <2> QED  BY <2>4, <2>5, <2>6, <2>7
<1>11. \/ /\ disk' = [disk EXCEPT ![n] = w] /\ content' = [content EXCEPT ![w] = <<>>]
          /\ session' = [session EXCEPT ![w] = w] /\ UNCHANGED waiter
       \/ Result(w, FALSE, 0) /\ UNCHANGED agentVars
  BY <1>1, <1>2, <1>3, <1>6
<1> QED  BY <1>9, <1>10, <1>11

\* A frame that changes nothing of the directory and the files, and after
\* which nothing is open for the upload; the result it may give is the right one.
LEMMA ClosingFrame ==
  ASSUME UploadInv, NEW w \in Uploads, up, down # <<>>, w = down[1].u, down' = Tail(down),
         UNCHANGED <<conn, up, job, disk, content>>, session' = [session EXCEPT ![w] = NoFile],
         NEW ok \in BOOLEAN, NEW n \in 0 .. MaxSize, Result(w, ok, n), ok => n = Len(content[w])
  PROVE  UploadType' /\ DiskInv' /\ Mine(w) /\ UInv(w)'
<1> USE DEF UploadInv
<1>1. /\ waiter' \in [Uploads -> Waiter]
      /\ \A v \in Uploads \ {w} : waiter'[v] = waiter[v]
      /\ waiter'[w] = waiter[w] \/ waiter'[w] = [state |-> "filled", ok |-> ok, bytes |-> n]
  BY ResultFacts
<1>2. down' \in Seq(FrameSet) /\ Frames(w)
  BY DEF UploadType, Frames
<1>3. UploadType'
  BY <1>1, <1>2 DEF UploadType
<1>4. DiskInv'
  BY DEF DiskInv
<1>5. Mine(w)
  BY <1>1, <1>2 DEF Mine, UploadType
<1>6. UInv(w)'
  <2>1. session'[w] = NoFile
    BY DEF UploadType
  <2>2. waiter'[w] = waiter[w] \/ (waiter'[w].ok => waiter'[w].bytes = Len(content[w]))
    BY <1>1
  <2> QED  BY <2>1, <2>2, CloseStep
<1> QED  BY <1>3, <1>4, <1>5, <1>6

\* FsWriteChunk with data.
LEMMA ChunkFrame ==
  ASSUME UploadInv, WriteChunk
  PROVE  UploadType' /\ DiskInv' /\ \E w \in Uploads : Mine(w) /\ UInv(w)'
<1> USE DEF linkVars, hubVars, agentVars, UploadInv
<1>1. PICK i \in DOMAIN down : WriteChunk!(i)
  BY DEF WriteChunk
<1>2. /\ i = 1 /\ up /\ down # <<>> /\ down[1] \in FrameSet /\ down[1].u \in Uploads
      /\ down' = Tail(down)
  BY <1>1, FirstFrame
<1>3. PICK w \in Uploads : w = down[1].u
  BY <1>2
<1>4. down[1].k = "chunk" /\ UNCHANGED <<conn, up, job, disk>> /\ UInv(w)
  BY <1>1, <1>2
<1>5. CASE /\ session[w] # NoFile /\ content' = [content EXCEPT ![session[w]] = Append(@, <<w, down[1].c>>)]
           /\ UNCHANGED <<session, waiter>>
  <2>1. session[w] = w
    BY <1>4, <1>5 DEF UInv, ContentInv
  <2>2. content' = [content EXCEPT ![w] = Append(content[w], <<w, down[1].c>>)]
    BY <1>5, <2>1
  <2>3. content[w] \in Seq(Files \X Nat) /\ <<w, down[1].c>> \in Files \X Nat
    BY <1>2, <1>3 DEF UploadType, Files, FrameSet
  <2>4. down' \in Seq(FrameSet) /\ Frames(w)
    BY <1>2, <1>3 DEF UploadType, Frames
  <2>5. Append(content[w], <<w, down[1].c>>) \in Seq(Files \X Nat)
    BY <2>3, AppendProperties
  <2>6. UploadType'
    BY <1>4, <1>5, <2>2, <2>4, <2>5 DEF UploadType, Files
  <2>7. DiskInv'
    <3>1. Old \notin Uploads
      BY UploadAssumption, FS_CardinalityType DEF Old
    <3>2. content'[Old] = content[Old]
      BY <2>2, <3>1 DEF UploadType, Files
    <3> QED  BY <1>4, <3>2 DEF DiskInv
  <2>8. Mine(w)
    BY <1>4, <1>5, <2>2, <2>4 DEF Mine, UploadType, Files
  <2>9. UInv(w)'
    <3>1. content'[w] = Append(content[w], <<w, down[1].c>>)
      BY <2>2 DEF UploadType, Files
    <3> QED  BY <1>2, <1>3, <1>4, <1>5, <3>1, WriteStep
  <2> QED  BY <2>6, <2>7, <2>8, <2>9
<1>6. CASE session' = [session EXCEPT ![w] = NoFile] /\ Result(w, FALSE, 0) /\ UNCHANGED content
  <2>1. 0 \in 0 .. MaxSize
    BY UploadAssumption
  <2>2. PICK ok \in BOOLEAN : ok = FALSE
    OBVIOUS
  <2> QED  BY <1>2, <1>3, <1>4, <1>6, <2>1, <2>2, ClosingFrame
<1> QED  BY <1>1, <1>2, <1>3, <1>5, <1>6

\* FsWriteChunk with eof.
LEMMA EofFrame ==
  ASSUME UploadInv, WriteEof
  PROVE  UploadType' /\ DiskInv' /\ \E w \in Uploads : Mine(w) /\ UInv(w)'
<1> USE DEF linkVars, hubVars, agentVars, UploadInv
<1>1. PICK i \in DOMAIN down : WriteEof!(i)
  BY DEF WriteEof
<1>2. /\ i = 1 /\ up /\ down # <<>> /\ down[1] \in FrameSet /\ down[1].u \in Uploads
      /\ down' = Tail(down)
  BY <1>1, FirstFrame
<1>3. PICK w \in Uploads : w = down[1].u
  BY <1>2
<1>4. UNCHANGED <<conn, up, job, disk, content>> /\ UInv(w) /\ session' = [session EXCEPT ![w] = NoFile]
  BY <1>1, <1>2, <1>3
<1>5. CASE session[w] # NoFile
           /\ Result(w, TRUE, Cardinality({p \in DOMAIN content[session[w]] : content[session[w]][p][1] = w}))
  <2>1. session[w] = w
    BY <1>4, <1>5 DEF UInv, ContentInv
  <2>2. PICK n \in Nat : n = Len(content[w])
    BY DEF UploadType, Files
  <2>3. Result(w, TRUE, n)
    BY <1>4, <1>5, <2>1, <2>2, EofCount DEF UInv
  <2>4. n \in 0 .. MaxSize
    <3>1. n <= job[w].size
      BY <1>4, <2>2 DEF UInv, ContentInv
    <3>2. job[w].size \in 0 .. MaxSize
      BY DEF UploadType, Job
    <3> QED  BY <3>1, <3>2, UploadAssumption
  <2>5. PICK ok \in BOOLEAN : ok = TRUE
    OBVIOUS
  <2> QED  BY <1>2, <1>3, <1>4, <2>2, <2>3, <2>4, <2>5, ClosingFrame
<1>6. CASE Result(w, FALSE, 0)
  <2>1. 0 \in 0 .. MaxSize
    BY UploadAssumption
  <2>2. PICK ok \in BOOLEAN : ok = FALSE
    OBVIOUS
  <2> QED  BY <1>2, <1>3, <1>4, <1>6, <2>1, <2>2, ClosingFrame
<1> QED  BY <1>1, <1>2, <1>3, <1>5, <1>6

-----------------------------------------------------------------------------
(* Uploads: the invariant                                                  *)

\* Every step of a task of the hub is a step of its upload.
LEMMA TaskStep ==
  ASSUME UploadInv, NEW u \in Uploads,
         \/ StartUpload(u) \/ RefuseUpload(u) \/ HubTask(u) \/ HandlerDropped(u)
         \/ ForwardChunk(u) \/ GiveEof(u) \/ GiveUp(u) \/ UserLeaves(u)
  PROVE  UploadType' /\ DiskInv' /\ Mine(u) /\ UInv(u)'
<1> USE DEF linkVars, hubVars, agentVars, UploadInv
<1>1. UInv(u)'
  BY StartStep, QuietSteps, SendSteps DEF HubTask
<1>2. UNCHANGED <<conn, up, session, disk, content>>
  BY DEF StartUpload, RefuseUpload, HubTask, HandlerDropped, ForwardChunk, GiveEof, GiveUp, UserLeaves,
         SendInit, ForwardEof, ForwardFailure, TakeResult, MissResult
<1>3. DiskInv'
  BY <1>2 DEF DiskInv
<1>4. \/ waiter' = waiter
      \/ \E s \in {"none", "armed"} : waiter' = [waiter EXCEPT ![u] = AWaiter(s)]
  BY DEF StartUpload, RefuseUpload, HubTask, HandlerDropped, ForwardChunk, GiveEof, GiveUp, UserLeaves,
         SendInit, ForwardEof, ForwardFailure, TakeResult, MissResult, Finish
<1>5. waiter' \in [Uploads -> Waiter] /\ \A v \in Uploads \ {u} : waiter'[v] = waiter[v]
  <2>1. \A s \in {"none", "armed"} : AWaiter(s) \in Waiter
    BY UploadAssumption DEF AWaiter, Waiter
  <2> QED  BY <1>4, <2>1 DEF UploadType
<1>6. down' = down \/ \E r \in FrameSet : r.u = u /\ down' = Append(down, r)
  <2>1. [k |-> "init", u |-> u, c |-> 0] \in FrameSet /\ [k |-> "eof", u |-> u, c |-> 0] \in FrameSet
    BY DEF FrameSet
  <2>2. [k |-> "chunk", u |-> u, c |-> job[u].sent + 1] \in FrameSet
    BY DEF FrameSet, UploadType, Job
  <2> QED  BY <2>1, <2>2 DEF StartUpload, RefuseUpload, HubTask, HandlerDropped, ForwardChunk, GiveEof,
              GiveUp, UserLeaves, SendInit, ForwardEof, ForwardFailure, TakeResult, MissResult
<1>7. down' \in Seq(FrameSet) /\ Frames(u)
  <2>1. \A r \in FrameSet : Append(down, r) \in Seq(FrameSet)
    BY AppendProperties DEF UploadType
  <2> QED  BY <1>6, <2>1 DEF UploadType, Frames
<1>8. \E j \in Job : job' = [job EXCEPT ![u] = j]
  <2>1. job[u] \in Job /\ JobInv(u)
    BY DEF UploadType, UInv
  <2>2. CASE StartUpload(u)
    <3>1. PICK n \in Sizes : job' = [job EXCEPT ![u] = [NoJob EXCEPT !.size = n, !.conn = conn, !.stage = "init"]]
      BY <2>2 DEF StartUpload
    <3>2. n \in 0 .. MaxSize /\ conn \in 0 .. MaxConn /\ 0 \in 0 .. MaxSize
      BY UploadAssumption DEF UploadType
    <3>3. [NoJob EXCEPT !.size = n, !.conn = conn, !.stage = "init"] \in Job
      BY <3>2 DEF NoJob, Job
    <3> QED  BY <3>1, <3>3
  <2>3. ASSUME NEW ok \in BOOLEAN, NEW s \in {"over", "dropped"}, job' = [job EXCEPT ![u] = Over(@, s, ok)]
        PROVE  \E j \in Job : job' = [job EXCEPT ![u] = j]
    <3>1. Over(job[u], s, ok) \in Job
      BY <2>1, <2>3, OverFacts
    <3> QED  BY <2>3, <3>1
  <2>4. CASE \E ok \in BOOLEAN : Finish(u, ok)
    BY <2>3, <2>4 DEF Finish
  <2>5. CASE HandlerDropped(u)
    BY <2>3, <2>5, FALSE \in BOOLEAN DEF HandlerDropped
  <2>6. CASE RefuseUpload(u)
    BY <2>1, <2>6 DEF RefuseUpload, Job
  <2>7. CASE SendInit(u) \/ ForwardEof(u)
    BY <2>1, <2>4, <2>7 DEF SendInit, ForwardEof, Job
  <2>8. CASE ForwardFailure(u) \/ MissResult(u) \/ TakeResult(u)
    BY <2>4, <2>8 DEF ForwardFailure, MissResult, TakeResult, Accepts
  <2>9. CASE ForwardChunk(u)
    <3>1. job[u].sent + 1 \in 0 .. MaxSize
      <4>1. job[u].sent \in Nat /\ job[u].size \in 0 .. MaxSize /\ job[u].sent < job[u].size
        <5>1. job[u].sent < job[u].size
          BY <2>9 DEF ForwardChunk
        <5> QED  BY <2>1, <5>1 DEF Job
      <4>2. MaxSize \in Nat
        BY UploadAssumption
      <4> QED  BY <4>1, <4>2
    <3> QED  BY <2>1, <2>4, <2>9, <3>1 DEF ForwardChunk, Job
  <2>10. CASE GiveEof(u) \/ GiveUp(u)
    BY <2>1, <2>10 DEF GiveEof, GiveUp, Job
  <2>11. CASE UserLeaves(u)
    BY <2>1, <2>11, ZenonT(30) DEF UserLeaves, SourceCut, Job
  <2> QED  BY <2>2, <2>4, <2>5, <2>6, <2>7, <2>8, <2>9, <2>10, <2>11 DEF HubTask
<1> QED  BY <1>1, <1>2, <1>3, <1>5, <1>7, <1>8 DEF Mine, UploadType

\* The link breaks: every frame is lost, and with a restart every open file.
LEMMA BreakStep ==
  ASSUME UploadInv, LinkBreaks
  PROVE  UploadInv'
<1> USE DEF UploadInv
<1>1. /\ UNCHANGED <<conn, job, disk, content>> /\ up' = FALSE /\ down' = <<>>
      /\ session' \in {session, [u \in Uploads |-> NoFile]}
  BY DEF LinkBreaks
<1>2. \A u \in Uploads : waiter'[u] \in {waiter[u], AWaiter("lost")}
  BY DEF LinkBreaks
<1>3. UploadType'
  <2>1. AWaiter("lost") \in Waiter
    BY UploadAssumption DEF AWaiter, Waiter
  <2>2. waiter' \in [Uploads -> Waiter]
    BY <2>1 DEF LinkBreaks, UploadType
  <2>3. session' \in [Uploads -> Uploads \cup {NoFile}]
    BY <1>1 DEF UploadType
  <2>4. down' \in Seq(FrameSet)
    BY <1>1
  <2> QED  BY <1>1, <2>2, <2>3, <2>4 DEF UploadType
<1>4. DiskInv'
  BY <1>1 DEF DiskInv
<1>5. ASSUME NEW u \in Uploads PROVE UInv(u)'
  <2>1. UInv(u) /\ session'[u] \in {session[u], NoFile} /\ \A i \in DOMAIN down' : FALSE
    BY <1>1
  <2>2. Live(u)' => Live(u)
    BY <2>1 DEF Live
  <2>3. ~Online(job[u].conn)'
    BY <1>1 DEF Online
  <2>4. JobInv(u)'
    BY <1>1, <2>1, <2>2 DEF UInv, JobInv
  <2>5. FramesInv(u)'
    BY <2>1 DEF FramesInv
  <2>6. NewInv(u)'
    BY <1>1, <1>2, <2>1 DEF UInv, NewInv, AWaiter
  <2>7. ContentInv(u)'
    BY <1>1, <2>1 DEF UInv, ContentInv
  <2>8. FlowInv(u)' /\ ClosedInv(u)'
    BY <1>1, <2>1, <2>3 DEF FlowInv, ClosedInv
  <2>9. ResultInv(u)'
    BY <1>1, <1>2, <2>1, <2>2 DEF UInv, ResultInv, AWaiter
  <2> QED  BY <2>4, <2>5, <2>6, <2>7, <2>8, <2>9 DEF UInv
<1> QED  BY <1>3, <1>4, <1>5

\* The agent is back, with what it has open, on a connection no upload has.
LEMMA ReconnectStep ==
  ASSUME UploadInv, Reconnect
  PROVE  UploadInv'
<1> USE DEF UploadInv
<1>1. UNCHANGED <<job, waiter, down, session, disk, content>> /\ conn' = conn + 1 /\ conn < MaxConn /\ up' /\ ~up
  BY DEF Reconnect, hubVars, agentVars
<1>2. UploadType'
  BY <1>1, UploadAssumption DEF UploadType
<1>3. DiskInv'
  BY <1>1 DEF DiskInv
<1>4. ASSUME NEW u \in Uploads PROVE UInv(u)'
  <2>1. UInv(u) /\ conn \in Nat /\ job[u].conn \in Nat
    BY DEF UploadType, Job
  <2>2. job[u].conn <= conn
    BY <2>1 DEF UInv, JobInv
  <2>3. ~Online(job[u].conn)'
    BY <1>1, <2>1, <2>2 DEF Online
  <2>4. \A i \in DOMAIN down : down[i].u # u
    BY <1>1, <2>1 DEF UInv, FramesInv
  <2>5. \A i, k : Of(i, u, k)' = Of(i, u, k)
    BY <1>1 DEF Of
  <2>6. Live(u)' = Live(u)
    BY <1>1, <2>5 DEF Live
  <2>7. JobInv(u)'
    BY <1>1, <2>1, <2>2, <2>6 DEF UInv, JobInv
  <2>8. FramesInv(u)'
    BY <1>1, <2>4 DEF FramesInv, Of
  <2>9. NewInv(u)'
    BY <1>1, <2>1, <2>5 DEF UInv, NewInv
  <2>10. ContentInv(u)'
    BY <1>1, <2>1 DEF UInv, ContentInv
  <2>11. FlowInv(u)' /\ ClosedInv(u)'
    BY <1>1, <2>3, <2>4 DEF FlowInv, ClosedInv, Of
  <2>12. ResultInv(u)'
    BY <1>1, <2>1, <2>6 DEF UInv, ResultInv
  <2> QED  BY <2>7, <2>8, <2>9, <2>10, <2>11, <2>12 DEF UInv
<1> QED  BY <1>2, <1>3, <1>4

\* A name goes: nothing else does.
LEMMA DeleteStep ==
  ASSUME UploadInv, NEW n \in Names, Delete(n)
  PROVE  UploadInv'
<1> USE DEF UploadInv
<1>1. UNCHANGED <<conn, up, job, waiter, down, session, content>> /\ disk' = [disk EXCEPT ![n] = NoFile]
  BY DEF Delete, linkVars, hubVars
<1>2. UploadType'
  BY <1>1 DEF UploadType
<1>3. DiskInv'
  BY <1>1 DEF DiskInv, UploadType
<1>4. ASSUME NEW u \in Uploads PROVE UInv(u)'
  <2>1. \A m \in Names : disk'[m] = u => disk[m] = u
    <3>1. u # NoFile
      BY UploadAssumption, FS_CardinalityType DEF NoFile
    <3> QED  BY <1>1, <3>1 DEF UploadType
  <2>2. UInv(u) /\ (\A i, k : Of(i, u, k)' = Of(i, u, k)) /\ Live(u)' = Live(u)
    BY <1>1 DEF Of, Live
  <2>3. JobInv(u)' /\ ContentInv(u)' /\ ResultInv(u)'
    BY <1>1, <2>2 DEF UInv, JobInv, ContentInv, ResultInv
  <2>4. FramesInv(u)'
    BY <1>1, <2>2 DEF UInv, FramesInv
  <2>5. NewInv(u)'
    BY <1>1, <2>1, <2>2 DEF UInv, NewInv
  <2>6. FlowInv(u)' /\ ClosedInv(u)'
    BY <1>1, <2>2 DEF UInv, FlowInv, ClosedInv, Online
  <2> QED  BY <2>3, <2>4, <2>5, <2>6 DEF UInv
<1> QED  BY <1>2, <1>3, <1>4

\* Initially no upload has begun.
LEMMA UploadInit ==
  ASSUME Init PROVE UploadInv
<1>1. Old \notin Uploads /\ NoFile \notin Uploads /\ Old # NoFile
  BY UploadAssumption, FS_CardinalityType DEF Old, NoFile
<1>2. NoJob \in Job /\ AWaiter("none") \in Waiter /\ MaxSize \in Nat /\ MaxConn \in Nat \ {0}
  BY UploadAssumption DEF NoJob, Job, AWaiter, Waiter
<1>3. UploadType
  <2>1. content \in [Files -> Seq(Files \X Nat)]
    <3>1. <<<<Old, 1>>>> \in Seq(Files \X Nat) /\ <<>> \in Seq(Files \X Nat)
      BY DEF Files
    <3> QED  BY <3>1 DEF Init, Files
  <2>2. disk \in [Names -> Files \cup {NoFile}]
    BY DEF Init, Files
  <2> QED  BY <1>2, <2>1, <2>2 DEF Init, UploadType
<1>4. DiskInv
  BY <1>1 DEF Init, DiskInv
<1>5. ASSUME NEW u \in Uploads PROVE UInv(u)
  <2>1. /\ job[u] = NoJob /\ waiter[u].state = "none" /\ session[u] = NoFile /\ content[u] = <<>>
        /\ conn = 1 /\ down = <<>> /\ \A n \in Names : disk[n] # u
    BY <1>1 DEF Init, AWaiter
  <2>2. \A i \in DOMAIN down : FALSE
    BY <2>1
  <2>3. ~Live(u)
    BY <2>1, <2>2 DEF Live
  <2>4. JobInv(u)
    BY <2>1, <2>3 DEF JobInv, NoJob
  <2>5. ContentInv(u) /\ NewInv(u) /\ ResultInv(u)
    BY <2>1, <2>2 DEF ContentInv, NewInv, ResultInv, NoJob
  <2>6. FramesInv(u) /\ FlowInv(u) /\ ClosedInv(u)
    BY <2>2, <2>3 DEF FramesInv, FlowInv, ClosedInv
  <2> QED  BY <2>4, <2>5, <2>6 DEF UInv
<1> QED  BY <1>3, <1>4, <1>5 DEF UploadInv

\* A step of one upload keeps the invariant of all.
LEMMA MineStep ==
  ASSUME UploadInv, NEW w \in Uploads, Mine(w), UInv(w)', UploadType', DiskInv'
  PROVE  UploadInv'
<1>1. ASSUME NEW u \in Uploads \ {w} PROVE UInv(u)'
  BY <1>1, Elsewhere DEF UploadInv, Mine
<1> QED  BY <1>1 DEF UploadInv

\* The invariant of the uploads is inductive.
LEMMA UploadStep ==
  ASSUME UploadInv, [Next]_vars
  PROVE  UploadInv'
<1>1. CASE UNCHANGED vars
  <2>1. UNCHANGED <<conn, up, job, waiter, down, session, disk, content>>
    BY <1>1 DEF vars, linkVars, hubVars, agentVars
  <2>2. ASSUME NEW u \in Uploads PROVE UInv(u)'
    <3>1. UInv(u) /\ (\A i, k : Of(i, u, k)' = Of(i, u, k)) /\ Live(u)' = Live(u)
      BY <2>1 DEF Of, Live, UploadInv
    <3> QED  BY <2>1, <3>1 DEF UInv, JobInv, FramesInv, NewInv, ContentInv, FlowInv, ResultInv,
              ClosedInv, Online
  <2> QED  BY <2>1, <2>2 DEF UploadInv, UploadType, DiskInv
<1>2. ASSUME NEW u \in Uploads,
             \/ StartUpload(u) \/ RefuseUpload(u) \/ HubTask(u) \/ HandlerDropped(u)
             \/ ForwardChunk(u) \/ GiveEof(u) \/ GiveUp(u) \/ UserLeaves(u)
      PROVE  UploadInv'
  BY <1>2, TaskStep, MineStep
<1>3. CASE WriteInit \/ WriteChunk \/ WriteEof
  BY <1>3, InitFrame, ChunkFrame, EofFrame, MineStep
<1>4. ASSUME NEW n \in Deleted \cap Names, Delete(n) PROVE UploadInv'
  BY <1>4, DeleteStep
<1>5. CASE LinkBreaks \/ Reconnect
  BY <1>5, BreakStep, ReconnectStep
<1> QED  BY <1>1, <1>2, <1>3, <1>4, <1>5 DEF Next, Transfer

-----------------------------------------------------------------------------
(* Uploads: the refinement of FileDelivery                                 *)

Stored == [u \in Uploads |-> [i \in DOMAIN content[u] |->
             IF content[u][i][1] = u THEN content[u][i][2] ELSE 0]]
SizeOf == [u \in Uploads |-> job[u].size]
Told   == [u \in Uploads |-> job[u].told]

\* What is stored of an upload: its chunks, in order.
LEMMA StoredFacts ==
  ASSUME UploadInv, NEW u \in Uploads
  PROVE  /\ Stored[u] = [i \in 1 .. Len(content[u]) |-> i]
         /\ Len(content[u]) \in Nat /\ Stored[u] \in Seq(Nat) /\ Len(Stored[u]) = Len(content[u])
<1>1. content[u] \in Seq(Files \X Nat) /\ ContentInv(u)
  BY DEF UploadInv, UploadType, UInv, Files
<1>2. PICK n \in Nat : n = Len(content[u]) /\ DOMAIN content[u] = 1 .. n
  BY <1>1
<1>3. Stored[u] = [i \in 1 .. n |-> i]
  BY <1>1, <1>2, SMTT(30) DEF Stored, ContentInv
<1>4. [i \in 1 .. n |-> i] \in Seq(Nat) /\ Len([i \in 1 .. n |-> i]) = n
  OBVIOUS
<1> QED  BY <1>2, <1>3, <1>4

\* Whoever uploads is told once, and "ok" only when the file is whole.
LEMMA TellRefines ==
  ASSUME UploadInv, NEW u \in Uploads, UNCHANGED content,
         \A v \in Uploads : job'[v].size = job[v].size,
         \A v \in Uploads \ {u} : job'[v].told = job[v].told,
         \/ job'[u].told = job[u].told
         \/ job[u].told = "no" /\ job'[u].told = "error"
         \/ job[u].told = "no" /\ job'[u].told = "ok" /\ Len(content[u]) = job[u].size
  PROVE  [Delivery!Next]_(Delivery!vars)
<1>1. Stored' = Stored /\ SizeOf' = SizeOf
  BY DEF Stored, SizeOf
<1>2. CASE job'[u].told = job[u].told
  <2>1. Told' = Told
    BY <1>2 DEF Told
  <2> QED  BY <1>1, <2>1 DEF Delivery!vars, Stored, SizeOf, Told
<1>3. CASE job'[u].told # job[u].told
  <2>1. Told[u] = "no"
    BY <1>3 DEF Told
  <2>2. \/ Told' = [Told EXCEPT ![u] = "error"]
        \/ Len(Stored[u]) = SizeOf[u] /\ Told' = [Told EXCEPT ![u] = "ok"]
    BY <1>3, StoredFacts DEF Told, SizeOf
  <2>3. Delivery!Tell(u)
    BY <1>1, <2>1, <2>2 DEF Delivery!Tell, Stored, SizeOf, Told
  <2> QED  BY <2>3 DEF Delivery!Next
<1> QED  BY <1>2, <1>3

\* What a task tells, other than by its beginning.
LEMMA TaskTells ==
  ASSUME UploadInv, NEW u \in Uploads,
         \/ RefuseUpload(u) \/ HubTask(u) \/ HandlerDropped(u)
         \/ ForwardChunk(u) \/ GiveEof(u) \/ GiveUp(u) \/ UserLeaves(u)
  PROVE  /\ UNCHANGED content /\ \A v \in Uploads \ {u} : job'[v] = job[v]
         /\ job'[u].size = job[u].size
         /\ \/ job'[u].told = job[u].told
            \/ job[u].told = "no" /\ job'[u].told = "error"
            \/ job[u].told = "no" /\ job'[u].told = "ok" /\ Len(content[u]) = job[u].size
<1> USE DEF agentVars
<1>1. job[u] \in Job /\ JobInv(u)
  BY DEF UploadInv, UploadType, UInv
<1>2. UNCHANGED content /\ \A v \in Uploads \ {u} : job'[v] = job[v]
  <2>1. \E j : job' = [job EXCEPT ![u] = j]
    BY DEF RefuseUpload, HubTask, HandlerDropped, ForwardChunk, GiveEof, GiveUp, UserLeaves,
           SendInit, ForwardEof, ForwardFailure, TakeResult, MissResult, Finish
  <2>2. UNCHANGED content
    BY DEF RefuseUpload, HubTask, HandlerDropped, ForwardChunk, GiveEof, GiveUp, UserLeaves,
           SendInit, ForwardEof, ForwardFailure, TakeResult, MissResult
  <2> QED  BY <2>1, <2>2 DEF UploadInv, UploadType
<1>3. ASSUME NEW ok \in BOOLEAN, NEW s \in {"over", "dropped"}, job' = [job EXCEPT ![u] = Over(@, s, ok)],
             ok => job[u].stage = "wait" /\ Len(content[u]) = job[u].sent
      PROVE  /\ job'[u].size = job[u].size
             /\ \/ job'[u].told = job[u].told
                \/ job[u].told = "no" /\ job'[u].told = "error"
                \/ job[u].told = "no" /\ job'[u].told = "ok" /\ Len(content[u]) = job[u].size
  <2>1. job'[u] = Over(job[u], s, ok)
    BY <1>3 DEF UploadInv, UploadType
  <2>2. /\ job'[u].size = job[u].size
        /\ job[u].user = "gone" \/ job[u].told # "no" => job'[u].told = job[u].told
        /\ ~(job[u].user = "gone" \/ job[u].told # "no") =>
             job'[u].told = IF ok THEN "ok" ELSE "error"
    BY <1>1, <2>1, OverFacts
  <2>3. ok /\ job[u].user # "gone" => Len(content[u]) = job[u].size
    BY <1>1, <1>3 DEF JobInv, Job
  <2> QED  BY <2>2, <2>3
<1>4. CASE Finish(u, FALSE) \/ HandlerDropped(u)
  <2>1. PICK ok \in BOOLEAN : ok = FALSE
    OBVIOUS
  <2>2. PICK s \in {"over", "dropped"} : job' = [job EXCEPT ![u] = Over(@, s, ok)]
    BY <1>4, <2>1 DEF Finish, HandlerDropped
  <2> QED  BY <1>2, <1>3, <2>1, <2>2
<1>5. CASE TakeResult(u)
  <2>1. PICK ok \in BOOLEAN : ok = Accepts(job[u], waiter[u])
    BY DEF Accepts
  <2>2. ok => job[u].stage = "wait" /\ Len(content[u]) = job[u].sent
    BY <1>5, <2>1 DEF TakeResult, Accepts, UploadInv, UInv, ResultInv
  <2>3. PICK s \in {"over", "dropped"} : job' = [job EXCEPT ![u] = Over(@, s, ok)]
    BY <1>5, <2>1 DEF TakeResult, Finish
  <2> QED  BY <1>2, <1>3, <2>2, <2>3
<1>6. CASE RefuseUpload(u)
  <2>1. job[u].told = "no"
    BY <1>1, <1>6 DEF RefuseUpload, JobInv, NoJob
  <2>2. job'[u].size = job[u].size /\ job'[u].told = "error"
    BY <1>1, <1>6 DEF RefuseUpload, UploadInv, UploadType, Job
  <2> QED  BY <1>2, <2>1, <2>2
<1>7. CASE SendInit(u) \/ ForwardEof(u) \/ ForwardChunk(u)
  <2>1. CASE Finish(u, FALSE)
    BY <1>2, <1>4, <2>1
  <2>2. CASE ~Finish(u, FALSE)
    <3>1. \/ job' = [job EXCEPT ![u].stage = "stream"]
          \/ job' = [job EXCEPT ![u].stage = "wait"]
          \/ job' = [job EXCEPT ![u].sent = @ + 1]
      BY <1>7, <2>2 DEF SendInit, ForwardEof, ForwardChunk
    <3>2. job'[u].size = job[u].size /\ job'[u].told = job[u].told
      BY <1>1, <3>1 DEF UploadInv, UploadType, Job
    <3> QED  BY <1>2, <3>2
  <2> QED  BY <2>1, <2>2
<1>8. CASE GiveEof(u) \/ UserLeaves(u)
  BY <1>1, <1>2, <1>8 DEF GiveEof, UserLeaves, UploadInv, UploadType, Job
<1>9. CASE GiveUp(u)
  <2>1. job[u].told # "ok"
    BY <1>1, <1>9 DEF GiveUp, JobInv
  <2>2. job'[u].size = job[u].size /\ job'[u].told = "error" /\ job[u].told \in {"no", "ok", "error"}
    BY <1>1, <1>9 DEF GiveUp, UploadInv, UploadType, Job
  <2> QED  BY <1>2, <2>1, <2>2
<1>10. CASE ForwardFailure(u) \/ MissResult(u)
  BY <1>2, <1>4, <1>10 DEF ForwardFailure, MissResult
<1> QED  BY <1>2, <1>4, <1>5, <1>6, <1>7, <1>8, <1>9, <1>10 DEF HubTask

\* A new upload begins.
LEMMA BeginRefines ==
  ASSUME UploadInv, NEW u \in Uploads, StartUpload(u)
  PROVE  Delivery!Begin(u)
<1>1. PICK n \in Sizes : job' = [job EXCEPT ![u] = [NoJob EXCEPT !.size = n, !.conn = conn, !.stage = "init"]]
  BY DEF StartUpload
<1>2. job[u].stage = "none" /\ UNCHANGED content
  BY DEF StartUpload, agentVars
<1>3. job[u] = NoJob /\ content[u] = <<>>
  BY <1>2 DEF UploadInv, UInv, JobInv, NewInv
<1>4. Told[u] = "no" /\ Stored[u] = <<>>
  BY <1>3 DEF Told, NoJob, Stored
<1>5. n \in 0 .. MaxSize /\ SizeOf' = [SizeOf EXCEPT ![u] = n]
  BY <1>1, UploadAssumption DEF SizeOf, UploadInv, UploadType, NoJob
<1>6. Told' = Told
  BY <1>1, <1>3 DEF Told, UploadInv, UploadType, NoJob
<1>7. Stored' = Stored
  BY <1>2 DEF Stored
<1> QED  BY <1>4, <1>5, <1>6, <1>7 DEF Delivery!Begin, Told, Stored, SizeOf

\* The agent writes the next chunk, or nothing that anybody has written changes.
LEMMA AgentRefines ==
  ASSUME UploadInv, UploadInv', WriteInit \/ WriteChunk \/ WriteEof
  PROVE  [Delivery!Next]_(Delivery!vars)
<1> USE DEF linkVars, hubVars, agentVars
<1>1. job' = job
  BY DEF WriteInit, WriteChunk, WriteEof
<1>2. SizeOf' = SizeOf /\ Told' = Told
  BY <1>1 DEF SizeOf, Told
<1>3. CASE content' = content
  BY <1>2, <1>3 DEF Delivery!vars, Stored, SizeOf, Told
<1>4. CASE WriteInit
  <2>1. PICK i \in DOMAIN down : WriteInit!(i)
    BY <1>4 DEF WriteInit
  <2>2. i = 1 /\ down[1].u \in Uploads
    BY <2>1, FirstFrame DEF UploadInv
  <2>3. PICK w \in Uploads : w = down[1].u
    BY <2>2
  <2>4. content[w] = <<>> /\ \A m \in Names : disk[m] # w
    <3>1. Of(1, w, "init")
      BY <2>1, <2>2, <2>3 DEF Of
    <3> QED  BY <3>1, <2>1, <2>2 DEF UploadInv, UInv, NewInv, Of
  <2>5. disk[Free(disk)] = NoFile
    <3>1. disk \in [Names -> Uploads \cup {Old, NoFile}]
      BY DEF UploadInv, UploadType, Files
    <3>2. \A m, n \in Names : m # n /\ disk[m] # NoFile => disk[m] # disk[n]
      BY DEF UploadInv, DiskInv
    <3> QED  BY <2>4, <3>1, <3>2, NameFound, UploadAssumption
  <2>6. content' = content \/ content' = [content EXCEPT ![w] = <<>>]
    BY <2>1, <2>2, <2>3, <2>5
  <2>7. content' = content
    BY <2>4, <2>6 DEF UploadInv, UploadType, Files
  <2> QED  BY <1>3, <2>7
<1>5. CASE WriteChunk /\ content' # content
  <2>1. PICK i \in DOMAIN down : WriteChunk!(i)
    BY <1>5 DEF WriteChunk
  <2>2. /\ i = 1 /\ up /\ down # <<>> /\ down[1] \in FrameSet /\ down[1].u \in Uploads
        /\ down' = Tail(down)
    BY <2>1, FirstFrame DEF UploadInv
  <2>3. PICK w \in Uploads : w = down[1].u
    BY <2>2
  <2>4. /\ session[w] # NoFile /\ content' = [content EXCEPT ![session[w]] = Append(@, <<w, down[1].c>>)]
        /\ UNCHANGED <<session, waiter, conn, up, job>> /\ down[1].k = "chunk"
    BY <1>5, <2>1, <2>2, <2>3
  <2>5. session[w] = w /\ UInv(w)
    BY <2>4 DEF UploadInv, UInv, ContentInv
  <2>6. content'[w] = Append(content[w], <<w, down[1].c>>)
        /\ \A v \in Uploads \ {w} : content'[v] = content[v]
    BY <2>4, <2>5 DEF UploadInv, UploadType, Files
  <2>7. Len(content'[w]) = Len(content[w]) + 1
    <3>1. content[w] \in Seq(Files \X Nat)
      BY DEF UploadInv, UploadType, Files
    <3> QED  BY <2>6, <3>1, AppendFacts
  <2>8. Told[w] # "ok"
    <3>1. Live(w)
      BY <2>4 DEF Live
    <3> QED  BY <2>5, <3>1 DEF Told, UInv, JobInv
  <2>9. Len(Stored[w]) < SizeOf[w]
    <3>1. Len(content'[w]) <= job[w].size
      BY <1>1 DEF UploadInv, UInv, ContentInv
    <3>2. Len(content[w]) < job[w].size
      <4>1. Len(content[w]) \in Nat /\ job[w].size \in Nat
        BY StoredFacts, SMTT(30) DEF UploadInv, UploadType, Job
      <4> QED  BY <2>7, <3>1, <4>1
    <3> QED  BY <3>2, StoredFacts DEF SizeOf
  <2>10. Stored' = [Stored EXCEPT ![w] = Append(Stored[w], Len(Stored[w]) + 1)]
    <3>1. PICK n \in Nat : n = Len(content[w])
      BY StoredFacts
    <3>2. Stored[w] = [k \in 1 .. n |-> k] /\ Len(Stored[w]) = n
      BY <3>1, StoredFacts
    <3>3. Stored'[w] = [k \in 1 .. n + 1 |-> k]
      <4>1. ContentInv(w)' /\ content'[w] \in Seq(Files \X Nat)
        BY DEF UploadInv, UInv, UploadType, Files
      <4>2. DOMAIN content'[w] = 1 .. n + 1
        BY <2>7, <3>1, <4>1
      <4>3. \A p \in DOMAIN content'[w] : content'[w][p] = <<w, p>>
        BY <4>1 DEF ContentInv
      <4> QED  BY <4>2, <4>3 DEF Stored
    <3>4. [k \in 1 .. n + 1 |-> k] = Append([k \in 1 .. n |-> k], n + 1)
      OBVIOUS
    <3>5. \A v \in Uploads \ {w} : Stored'[v] = Stored[v]
      BY <2>6 DEF Stored
    <3>6. Stored = [v \in Uploads |-> Stored[v]] /\ Stored' = [v \in Uploads |-> Stored'[v]]
      BY DEF Stored
    <3> QED  BY <3>2, <3>3, <3>4, <3>5, <3>6
  <2>11. Delivery!Grow(w)
    BY <1>2, <2>8, <2>9, <2>10 DEF Delivery!Grow, Stored, SizeOf, Told
  <2> QED  BY <2>11 DEF Delivery!Next
<1>6. CASE WriteEof
  BY <1>3, <1>6 DEF WriteEof
<1> QED  BY <1>3, <1>4, <1>5, <1>6

\* A step of the uploads is a step of FileDelivery, or leaves it as it is.
LEMMA DeliveryStep ==
  ASSUME UploadInv, UploadInv', [Next]_vars
  PROVE  [Delivery!Next]_(Delivery!vars)
<1>1. ASSUME UNCHANGED <<job, content>> PROVE [Delivery!Next]_(Delivery!vars)
  BY <1>1 DEF Delivery!vars
<1>2. CASE UNCHANGED vars
  BY <1>1, <1>2 DEF vars, hubVars, agentVars
<1>3. ASSUME NEW u \in Uploads, StartUpload(u) PROVE [Delivery!Next]_(Delivery!vars)
  BY <1>3, BeginRefines DEF Delivery!Next
<1>4. ASSUME NEW u \in Uploads,
             \/ RefuseUpload(u) \/ HubTask(u) \/ HandlerDropped(u)
             \/ ForwardChunk(u) \/ GiveEof(u) \/ GiveUp(u) \/ UserLeaves(u)
      PROVE  [Delivery!Next]_(Delivery!vars)
  BY <1>4, TaskTells, TellRefines
<1>5. CASE WriteInit \/ WriteChunk \/ WriteEof
  BY <1>5, AgentRefines
<1>6. ASSUME NEW n \in Deleted \cap Names, Delete(n) PROVE [Delivery!Next]_(Delivery!vars)
  BY <1>1, <1>6 DEF Delete, hubVars
<1>7. CASE LinkBreaks \/ Reconnect
  BY <1>1, <1>7 DEF LinkBreaks, Reconnect, hubVars, agentVars
<1> QED  BY <1>2, <1>3, <1>4, <1>5, <1>6, <1>7 DEF Next, Transfer

\* Initially nothing is stored and nobody was told.
LEMMA DeliveryInit ==
  ASSUME Init PROVE Delivery!Init
<1>1. \A u \in Uploads : job[u] = NoJob
  BY DEF Init
<1>2. \A u \in Uploads : content[u] = <<>>
  <2>1. Old \notin Uploads
    BY UploadAssumption, FS_CardinalityType DEF Old
  <2> QED  BY <2>1 DEF Init
<1> QED  BY <1>1, <1>2 DEF Delivery!Init, NoJob

-----------------------------------------------------------------------------
(* Uploads and downloads side by side                                      *)

\* A step of the whole is a step of the uploads or leaves them as they are,
\* and so for the downloads.
LEMMA TransferSplit ==
  ASSUME [TransferNext]_<<vars, downloadVars>>
  PROVE  [Next]_vars /\ [Down!Next]_(Down!vars)
<1> USE DEF vars, linkVars, hubVars, agentVars, uploadVars, downloadVars, Down!vars, Down!linkVars
<1>1. CASE UNCHANGED <<vars, downloadVars>>
  BY <1>1
<1>2. CASE Transfer /\ UNCHANGED downloadVars
  <2>1. UNCHANGED <<conn, up>>
    BY <1>2 DEF Transfer, StartUpload, RefuseUpload, HubTask, HandlerDropped, ForwardChunk, GiveEof, GiveUp,
       UserLeaves, SendInit, ForwardEof, ForwardFailure, TakeResult, MissResult, WriteInit, WriteChunk,
       WriteEof, Delete
  <2> QED  BY <1>2, <2>1 DEF Next
<1>3. CASE Down!Transfer /\ UNCHANGED uploadVars
  <2>1. UNCHANGED <<conn, up>>
    BY <1>3 DEF Down!Transfer, Down!StartLoad, Down!StartArchive, Down!Reader, Down!Body, Down!HangUp,
       Down!MakeArchive, Down!ReadChunk, Down!ReadEnd, Down!ReadFails, Down!BodyTakes, Down!BodyEnds,
       Down!HubReceives
  <2> QED  BY <1>3, <2>1 DEF Down!Next
<1>4. CASE LinkBreaks /\ Down!LinkBreaks
  BY <1>4 DEF Next, Down!Next
<1>5. CASE Reconnect /\ Down!Reconnect
  BY <1>5 DEF Next, Down!Next
<1> QED  BY <1>1, <1>2, <1>3, <1>4, <1>5 DEF TransferNext

\* What the proofs about uploads rest on: every frame, file, waiter and chunk of
\* fs.rs and of the two upload handlers belongs to the upload it names.
THEOREM UploadsCorrect == TransferSpec => []UploadInv
<1>1. TransferInit => UploadInv
  BY UploadInit DEF TransferInit
<1>2. UploadInv /\ [TransferNext]_<<vars, downloadVars>> => UploadInv'
  BY TransferSplit, UploadStep
<1> QED  BY <1>1, <1>2, PTL DEF TransferSpec

\* No upload writes a file of another or one that was there before, and every
\* file in the directory has one name.
THEOREM FilesAreKept == TransferSpec => []FilesKept
<1>1. UploadInv => FilesKept
  <2> SUFFICES ASSUME UploadInv PROVE FilesKept
    OBVIOUS
  <2>1. \A u \in Uploads : session[u] \in {NoFile, u}
    BY DEF UploadInv, UInv, ContentInv
  <2> QED  BY <2>1 DEF UploadInv, DiskInv, FilesKept
<1> QED  BY <1>1, UploadsCorrect, PTL

\* An upload is a FileDelivery: in order, without gaps, nobody else's bytes,
\* and "ok" only when the file is whole.
THEOREM FilesAreDelivered == TransferSpec => DeliversFiles
<1>1. TransferInit => Delivery!Init
  BY DeliveryInit DEF TransferInit
<1>2. UploadInv /\ UploadInv' /\ [TransferNext]_<<vars, downloadVars>> => [Delivery!Next]_(Delivery!vars)
  BY TransferSplit, DeliveryStep
<1> QED  BY <1>1, <1>2, UploadsCorrect, PTL DEF TransferSpec, DeliversFiles, Delivery!Spec

-----------------------------------------------------------------------------
(* Downloads: the inductive invariant.  It is about one download d, its     *)
(* state l and the frames r on their way to the hub.                        *)

Item  == [chunk : 0 .. MaxSize, eof : BOOLEAN, error : BOOLEAN]
Reply == [id : Downloads, chunk : 0 .. MaxSize, eof : BOOLEAN, error : BOOLEAN]

\* Frame i is for d.
For(i, d, r) == i \in DOMAIN r /\ r[i].id = d

\* The reader is one chunk ahead of what it has sent.
ReaderInv(d, l, r) ==
  /\ l.read <= l.size /\ (l.peek <=> l.read > 0)
  /\ (l.body = "none" <=> l.reader = "none") /\ (l.body = "none" => l = Down!NoLoad)
  /\ l.reader = "zipping" => l.read = 0
  /\ l.eof => l.reader = "over"
  /\ l.reader # "over" /\ l.read = 0 =>
       l.chan = <<>> /\ l.got = <<>> /\ \A i \in DOMAIN r : ~For(i, d, r)

\* A terminal chunk is the last one, and takes the route away; unless it tells
\* an error it carries the last chunk of the file.
LastFrame(d, l, r) ==
  \A i \in DOMAIN r : For(i, d, r) =>
    /\ ~r[i].eof => r[i].chunk # 0 /\ ~r[i].error
    /\ r[i].eof => l.reader = "over" /\ \A j \in DOMAIN r : For(j, d, r) => j <= i
    /\ r[i].eof /\ ~r[i].error => r[i].chunk = l.size

LastItem(l) ==
  \A i \in DOMAIN l.chan :
    /\ ~l.chan[i].eof => l.chan[i].chunk # 0 /\ ~l.chan[i].error
    /\ l.chan[i].eof => ~l.route /\ l.reader = "over" /\ i = Len(l.chan)
    /\ l.chan[i].eof /\ ~l.chan[i].error => l.chan[i].chunk = l.size

\* From the browser back to the reader, the numbers of the chunks rise.
RisingGot(l) ==
  \A j \in DOMAIN l.got :
    /\ l.got[j] <= l.size
    /\ \A i \in DOMAIN l.got : i < j => l.got[i] < l.got[j]

RisingChan(l) ==
  \A j \in DOMAIN l.chan : l.chan[j].chunk # 0 =>
    /\ l.chan[j].chunk <= l.size
    /\ \A i \in DOMAIN l.got : l.got[i] < l.chan[j].chunk
    /\ \A i \in DOMAIN l.chan : i < j => l.chan[i].chunk < l.chan[j].chunk

\* Everything that went before chunk c of d, and before frame n, has a lower number.
Above(c, d, l, r, n) ==
  /\ c <= l.size
  /\ \A i \in DOMAIN l.got : l.got[i] < c
  /\ \A i \in DOMAIN l.chan : l.chan[i].chunk < c
  /\ \A i \in DOMAIN r : For(i, d, r) /\ i < n => r[i].chunk < c

RisingFrames(d, l, r) ==
  \A j \in DOMAIN r : For(j, d, r) /\ r[j].chunk # 0 => Above(r[j].chunk, d, l, r, j)

RisingRead(d, l, r) ==
  l.reader = "reading" /\ l.read > 0 => Above(l.read, d, l, r, Len(r) + 1)

\* While no chunk was dropped none is missing, on the whole way: chunk c
\* follows the last one in the channel or one that is in a frame before n.
Follows(c, d, l, r, n) ==
  \/ c = Len(l.got) + Len(l.chan) + 1
  \/ \E i \in DOMAIN r : For(i, d, r) /\ i < n /\ c = r[i].chunk + 1

GaplessGot(l) ==
  ~l.dropped =>
    /\ \A i \in DOMAIN l.got : l.got[i] = i
    /\ l.eof => Len(l.got) = l.size

GaplessChan(l) ==
  l.body = "open" =>
    /\ ~l.eof
    /\ ~l.dropped => \A i \in DOMAIN l.chan : l.chan[i].chunk # 0 => l.chan[i].chunk = Len(l.got) + i

Whole(l) == ~l.dropped /\ l.body = "open" /\ l.route

GaplessFrames(d, l, r) ==
  Whole(l) => \A j \in DOMAIN r : For(j, d, r) /\ r[j].chunk # 0 => Follows(r[j].chunk, d, l, r, j)

GaplessRead(d, l, r) ==
  Whole(l) /\ l.reader = "reading" /\ l.read > 0 => Follows(l.read, d, l, r, Len(r) + 1)

\* A route has a reader that goes on or a terminal chunk on its way.
RouteInv(d, l, r) == l.route =>
  \/ l.reader \in {"zipping", "reading"}
  \/ \E i \in DOMAIN r : For(i, d, r) /\ r[i].eof

DInv(d, l, r) ==
  /\ ReaderInv(d, l, r) /\ RouteInv(d, l, r)
  /\ LastFrame(d, l, r) /\ LastItem(l)
  /\ RisingGot(l) /\ RisingChan(l) /\ RisingFrames(d, l, r) /\ RisingRead(d, l, r)
  /\ GaplessGot(l) /\ GaplessChan(l) /\ GaplessFrames(d, l, r) /\ GaplessRead(d, l, r)

LoadType == reply \in Seq(Reply) /\ load \in [Downloads -> Down!Load]

DownloadInv == LoadType /\ \A d \in Downloads : DInv(d, load[d], reply)

-----------------------------------------------------------------------------
(* Downloads: what the steps do to a download and to the frames             *)

\* The fields of a download have their types.
LEMMA LoadFields ==
  ASSUME NEW l \in Down!Load
  PROVE  /\ l.size \in Nat /\ l.read \in Nat /\ l.size \in 0 .. MaxSize /\ l.read \in 0 .. MaxSize
         /\ l.chan \in Seq(Item) /\ l.got \in Seq(1 .. MaxSize)
         /\ Len(l.chan) \in Nat /\ DOMAIN l.chan = 1 .. Len(l.chan)
         /\ Len(l.got) \in Nat /\ DOMAIN l.got = 1 .. Len(l.got)
         /\ \A i \in DOMAIN l.chan : l.chan[i] \in Item /\ l.chan[i].chunk \in Nat
         /\ \A i \in DOMAIN l.got : l.got[i] \in 1 .. MaxSize /\ l.got[i] \in Nat
<1>1. l.size \in 0 .. MaxSize /\ l.read \in 0 .. MaxSize
      /\ l.chan \in Seq(Item) /\ l.got \in Seq(1 .. MaxSize)
  BY DEF Down!Load, Item
<1>2. ASSUME NEW S, NEW s \in Seq(S)
      PROVE  Len(s) \in Nat /\ DOMAIN s = 1 .. Len(s) /\ \A i \in DOMAIN s : s[i] \in S
  OBVIOUS
<1>3. Len(l.chan) \in Nat /\ DOMAIN l.chan = 1 .. Len(l.chan)
      /\ \A i \in DOMAIN l.chan : l.chan[i] \in Item
  BY <1>1, <1>2, Zenon
<1>4. Len(l.got) \in Nat /\ DOMAIN l.got = 1 .. Len(l.got)
      /\ \A i \in DOMAIN l.got : l.got[i] \in 1 .. MaxSize
  BY <1>1, <1>2, Zenon
<1>5. \A x \in Item : x.chunk \in Nat
  BY DEF Item
<1>6. \A x \in 1 .. MaxSize : x \in Nat
  BY UploadAssumption DEF UploadAssumption
<1> QED  BY <1>1, <1>3, <1>4, <1>5, <1>6

\* Frames have their types.
LEMMA ReplyFields ==
  ASSUME NEW r \in Seq(Reply)
  PROVE  /\ Len(r) \in Nat /\ DOMAIN r = 1 .. Len(r)
         /\ \A i \in DOMAIN r : r[i] \in Reply /\ r[i].chunk \in Nat /\ r[i].eof \in BOOLEAN
<1>1. \A x \in Reply : x.chunk \in Nat /\ x.eof \in BOOLEAN
  BY DEF Reply
<1>2. Len(r) \in Nat /\ DOMAIN r = 1 .. Len(r) /\ \A i \in DOMAIN r : r[i] \in Reply
  OBVIOUS
<1> QED  BY <1>1, <1>2

\* What a step does to the replies: nothing, one more, or one less, for e.
Replies(e, r, s) ==
  \/ s = r
  \/ \E x \in Reply : x.id = e /\ s = Append(r, x)
  \/ r # <<>> /\ r[1].id = e /\ s = Tail(r)

\* A step of download e leaves the invariant of another download alone.
LEMMA ElsewhereDown ==
  ASSUME NEW l \in Down!Load, NEW r \in Seq(Reply), NEW s \in Seq(Reply),
         NEW d, NEW e, d # e, DInv(d, l, r), Replies(e, r, s)
  PROVE  DInv(d, l, s)
<1>0. /\ DOMAIN r = 1 .. Len(r) /\ Len(r) \in Nat /\ DOMAIN s = 1 .. Len(s) /\ Len(s) \in Nat
  OBVIOUS
<1>1. PICK k \in {0, 1} :
        /\ \A i \in DOMAIN s : s[i].id = d => i + k \in DOMAIN r /\ r[i + k] = s[i]
        /\ \A i \in DOMAIN r : r[i].id = d => i - k \in DOMAIN s /\ s[i - k] = r[i]
  <2> DEFINE P(k) ==
        /\ \A i \in DOMAIN s : s[i].id = d => i + k \in DOMAIN r /\ r[i + k] = s[i]
        /\ \A i \in DOMAIN r : r[i].id = d => i - k \in DOMAIN s /\ s[i - k] = r[i]
  <2>1. CASE s = r
    <3>1. P(0)
      BY <2>1
    <3> QED  BY <3>1
  <2>2. ASSUME NEW x \in Reply, x.id = e, s = Append(r, x)
        PROVE  P(0)
    <3>1. /\ DOMAIN s = 1 .. Len(r) + 1
          /\ \A i \in 1 .. Len(r) : s[i] = r[i]
          /\ s[Len(r) + 1] = x
      BY <2>2, AppendFacts
    <3> QED  BY <3>1, <2>2, <1>0
  <2>3. CASE r # <<>> /\ r[1].id = e /\ s = Tail(r)
    <3>1. /\ DOMAIN s = 1 .. Len(r) - 1
          /\ \A i \in 1 .. Len(r) - 1 : s[i] = r[i + 1]
      BY <2>3, TailFacts
    <3>2. P(1)
      BY <3>1, <2>3, <1>0
    <3> QED  BY <3>2
  <2> QED  BY <2>1, <2>2, <2>3 DEF Replies
<1>2. /\ \A i : For(i, d, s) => For(i + k, d, r) /\ r[i + k] = s[i] /\ i \in Nat
      /\ \A i : For(i, d, r) => For(i - k, d, s) /\ s[i - k] = r[i] /\ i \in Nat /\ i < Len(r) + 1
  BY <1>1, <1>0 DEF For
<1>3. ReaderInv(d, l, s)
  BY <1>2 DEF DInv, ReaderInv, For
<1>4. RouteInv(d, l, s)
  BY <1>2 DEF DInv, RouteInv, For
<1>5. LastFrame(d, l, s)
  BY <1>2, <1>0 DEF DInv, LastFrame, For
<1>6. ASSUME NEW c, NEW i, For(i, d, s), Above(c, d, l, r, i + k)
      PROVE  Above(c, d, l, s, i)
  BY <1>6, <1>2, <1>0 DEF Above, For
<1>7. RisingFrames(d, l, s)
  BY <1>2, <1>6 DEF DInv, RisingFrames, For
<1>8. RisingRead(d, l, s)
  BY <1>2, <1>0 DEF DInv, RisingRead, Above, For
<1>9. GaplessFrames(d, l, s)
  <2> SUFFICES ASSUME Whole(l), NEW j \in DOMAIN s, For(j, d, s), s[j].chunk # 0
               PROVE  Follows(s[j].chunk, d, l, s, j)
    BY DEF GaplessFrames
  <2>1. For(j + k, d, r) /\ r[j + k] = s[j]
    BY <1>2
  <2>2. Follows(r[j + k].chunk, d, l, r, j + k)
    BY <2>1 DEF DInv, GaplessFrames, For
  <2>3. ASSUME NEW i \in DOMAIN r, For(i, d, r), i < j + k, s[j].chunk = r[i].chunk + 1
        PROVE  For(i - k, d, s) /\ i - k < j /\ s[j].chunk = s[i - k].chunk + 1
    BY <2>3, <1>2, <1>0
  <2> QED  BY <2>1, <2>2, <2>3 DEF Follows, For
<1>10. GaplessRead(d, l, s)
  <2> SUFFICES ASSUME Whole(l), l.reader = "reading", l.read > 0
               PROVE  Follows(l.read, d, l, s, Len(s) + 1)
    BY DEF GaplessRead
  <2>1. Follows(l.read, d, l, r, Len(r) + 1)
    BY DEF DInv, GaplessRead
  <2>2. ASSUME NEW i \in DOMAIN r, For(i, d, r), l.read = r[i].chunk + 1
        PROVE  For(i - k, d, s) /\ i - k < Len(s) + 1 /\ l.read = s[i - k].chunk + 1
    BY <2>2, <1>2, <1>0 DEF For
  <2> QED  BY <2>1, <2>2 DEF Follows, For
<1> QED  BY <1>3, <1>4, <1>5, <1>7, <1>8, <1>9, <1>10 DEF DInv

-----------------------------------------------------------------------------
(* Downloads: the reader                                                    *)

\* A request makes the route before the reader begins.
LEMMA RequestStep ==
  ASSUME NEW l \in Down!Load, NEW r \in Seq(Reply), NEW d, DInv(d, l, r), l.body = "none",
         NEW n \in 0 .. MaxSize, NEW reader \in {"zipping", "reading"}
  PROVE  Down!Requested(n, reader) \in Down!Load /\ DInv(d, Down!Requested(n, reader), r)
<1>1. PICK m : m = Down!Requested(n, reader)
  OBVIOUS
<1>2. /\ m.size = n /\ m.reader = reader /\ m.read = 0 /\ m.peek = FALSE /\ m.route = TRUE
      /\ m.chan = <<>> /\ m.body = "open" /\ m.eof = FALSE /\ m.got = <<>> /\ m.dropped = FALSE
  BY <1>1 DEF Down!Requested, Down!NoLoad
<1>3. \A i \in DOMAIN r : ~For(i, d, r)
  BY DEF DInv, ReaderInv, Down!NoLoad
<1>4. m \in Down!Load
  <2>1. <<>> \in Seq(1 .. MaxSize) /\ <<>> \in Seq(Item) /\ 0 \in 0 .. MaxSize
    BY UploadAssumption DEF UploadAssumption
  <2> QED  BY <1>1, <2>1 DEF Down!Requested, Down!NoLoad, Down!Load, Item
<1>5. ReaderInv(d, m, r) /\ RouteInv(d, m, r) /\ LastFrame(d, m, r) /\ LastItem(m)
  BY <1>2, <1>3, UploadAssumption DEF ReaderInv, RouteInv, LastFrame, LastItem
<1>6. RisingGot(m) /\ RisingChan(m) /\ RisingFrames(d, m, r) /\ RisingRead(d, m, r)
  BY <1>2, <1>3 DEF RisingGot, RisingChan, RisingFrames, RisingRead
<1>7. GaplessGot(m) /\ GaplessChan(m) /\ GaplessFrames(d, m, r) /\ GaplessRead(d, m, r)
  BY <1>2, <1>3 DEF GaplessGot, GaplessChan, GaplessFrames, GaplessRead
<1> QED  BY <1>1, <1>4, <1>5, <1>6, <1>7 DEF DInv

\* The archive is there: its first chunk can be read.
LEMMA ArchiveStep ==
  ASSUME NEW l \in Down!Load, NEW r \in Seq(Reply), NEW d, DInv(d, l, r), l.reader = "zipping",
         NEW n \in 1 .. MaxSize, NEW m, m = [l EXCEPT !.size = n, !.reader = "reading"]
  PROVE  m \in Down!Load /\ DInv(d, m, r)
<1>1. /\ m.size = n /\ m.reader = "reading" /\ m.read = l.read /\ m.peek = l.peek
      /\ m.route = l.route /\ m.chan = l.chan /\ m.body = l.body
      /\ m.eof = l.eof /\ m.got = l.got /\ m.dropped = l.dropped
  BY DEF Down!Load
<1>2. /\ l.read = 0 /\ l.chan = <<>> /\ l.got = <<>> /\ l.body # "none" /\ ~l.peek /\ ~l.eof
      /\ \A i \in DOMAIN r : ~For(i, d, r)
  BY LoadFields DEF DInv, ReaderInv
<1>3. m \in Down!Load
  <2>1. n \in 0 .. MaxSize
    BY UploadAssumption DEF UploadAssumption
  <2> QED  BY <2>1 DEF Down!Load
<1>4. ReaderInv(d, m, r) /\ RouteInv(d, m, r) /\ LastFrame(d, m, r) /\ LastItem(m)
  BY <1>1, <1>2 DEF ReaderInv, RouteInv, LastFrame, LastItem
<1>5. RisingGot(m) /\ RisingChan(m) /\ RisingFrames(d, m, r) /\ RisingRead(d, m, r)
  BY <1>1, <1>2 DEF RisingGot, RisingChan, RisingFrames, RisingRead
<1>6. GaplessFrames(d, m, r) /\ GaplessRead(d, m, r)
  BY <1>1, <1>2 DEF GaplessFrames, GaplessRead
<1>7. GaplessChan(m)
  BY <1>1, <1>2 DEF DInv, GaplessChan
<1>8. GaplessGot(m)
  BY <1>1, <1>2 DEF GaplessGot
<1> QED  BY <1>3, <1>4, <1>5, <1>6, <1>7, <1>8 DEF DInv

\* What the reader becomes when it sends x: one chunk further, or over.
Sends(l, m, x) ==
  \/ /\ m = [l EXCEPT !.read = @ + 1, !.peek = TRUE]
     /\ l.reader = "reading" /\ l.read < l.size
     /\ l.read # 0 /\ x.chunk = l.read /\ ~x.eof /\ ~x.error
  \/ /\ m = [l EXCEPT !.reader = "over"]
     /\ x.eof /\ x.chunk \in {0, l.read}
     /\ x.chunk # 0 => l.reader = "reading"
     /\ ~x.error => x.chunk = l.size

\* The reader sends a chunk: the one it holds, or that the read failed.
LEMMA SendChunk ==
  ASSUME NEW l \in Down!Load, NEW r \in Seq(Reply), NEW d, DInv(d, l, r),
         l.reader \in {"zipping", "reading"},
         NEW x \in Reply, x.id = d, NEW s, s = Append(r, x), NEW m, Sends(l, m, x)
  PROVE  m \in Down!Load /\ s \in Seq(Reply) /\ DInv(d, m, s)
<1>1. /\ m.size = l.size /\ m.chan = l.chan /\ m.got = l.got /\ m.route = l.route
      /\ m.body = l.body /\ m.eof = l.eof /\ m.dropped = l.dropped
      /\ \/ x.eof /\ m.reader = "over" /\ m.read = l.read /\ m.peek = l.peek
         \/ ~x.eof /\ m.reader = "reading" /\ m.read = l.read + 1 /\ m.peek = TRUE
  BY DEF Down!Load, Sends
<1>2. m \in Down!Load /\ s \in Seq(Reply)
  <2>1. l.read < l.size => l.read + 1 \in 0 .. MaxSize
    BY LoadFields, UploadAssumption DEF UploadAssumption
  <2>2. m \in Down!Load
    BY <2>1, ZenonT(30) DEF Down!Load, Sends
  <2> QED  BY <2>2
<1>3. /\ Len(r) \in Nat /\ Len(s) = Len(r) + 1 /\ DOMAIN r = 1 .. Len(r) /\ DOMAIN s = 1 .. Len(r) + 1
      /\ \A i \in DOMAIN r : s[i] = r[i]
      /\ s[Len(r) + 1] = x
  BY AppendFacts
<1>4. /\ \A i : For(i, d, s) <=> For(i, d, r) \/ i = Len(r) + 1
      /\ \A i : For(i, d, r) => i \in Nat /\ i < Len(r) + 1 /\ s[i] = r[i] /\ ~r[i].eof
  BY <1>3 DEF For, DInv, LastFrame
<1>5. /\ l.read \in Nat /\ l.size \in Nat /\ x.chunk \in Nat /\ l.body # "none"
      /\ l.read <= l.size /\ (l.peek <=> l.read > 0) /\ ~l.eof
      /\ \/ l.reader = "reading" /\ l.read > 0
         \/ x.chunk = 0
      /\ x.chunk \in {0, l.read}
      /\ ~x.eof => l.reader = "reading" /\ l.read < l.size /\ x.chunk = l.read /\ x.chunk # 0 /\ ~x.error
      /\ x.eof /\ ~x.error => x.chunk = l.size
  BY LoadFields DEF DInv, ReaderInv, Reply, Sends
<1>6. ReaderInv(d, m, s)
  BY <1>1, <1>5, <1>3 DEF DInv, ReaderInv
<1>7. RouteInv(d, m, s)
  <2>1. For(Len(r) + 1, d, s) /\ Len(r) + 1 \in DOMAIN s
    BY <1>3, <1>4
  <2> QED  BY <1>1, <1>3, <2>1 DEF RouteInv
<1>8. LastFrame(d, m, s)
  BY <1>1, <1>3, <1>4, <1>5 DEF DInv, LastFrame
<1>9. LastItem(m)
  BY <1>1, <1>5 DEF DInv, LastItem
<1>10. RisingGot(m) /\ RisingChan(m) /\ GaplessGot(m) /\ GaplessChan(m)
  BY <1>1 DEF DInv, RisingGot, RisingChan, GaplessGot, GaplessChan
<1>11. ASSUME NEW c, NEW j, Above(c, d, l, r, j), j <= Len(r) + 1, j \in Nat
       PROVE  Above(c, d, m, s, j)
  BY <1>11, <1>1, <1>3, <1>4 DEF Above, For
<1>12. RisingFrames(d, m, s)
  <2> SUFFICES ASSUME NEW j, For(j, d, s), s[j].chunk # 0
               PROVE  Above(s[j].chunk, d, m, s, j)
    BY DEF RisingFrames
  <2>1. CASE For(j, d, r)
    BY <2>1, <1>4, <1>11 DEF DInv, RisingFrames, For
  <2>2. CASE j = Len(r) + 1
    <3>1. x.chunk = l.read /\ Above(l.read, d, l, r, j)
      BY <2>2, <1>3, <1>5 DEF DInv, RisingRead
    <3> QED  BY <3>1, <2>2, <1>3, <1>11
  <2> QED  BY <2>1, <2>2, <1>4
<1>13. RisingRead(d, m, s)
  <2> SUFFICES ASSUME m.reader = "reading", m.read > 0
               PROVE  Above(m.read, d, m, s, Len(s) + 1)
    BY DEF RisingRead
  <2>1. Above(l.read, d, l, r, Len(r) + 1) /\ m.read = l.read + 1 /\ x.chunk = l.read /\ l.read < l.size
    BY <1>1, <1>5 DEF DInv, RisingRead
  <2>2. /\ \A i \in DOMAIN l.got : l.got[i] \in Nat
        /\ \A i \in DOMAIN l.chan : l.chan[i].chunk \in Nat
        /\ \A i \in DOMAIN r : r[i].chunk \in Nat
    BY LoadFields, ReplyFields
  <2> QED  BY <2>1, <2>2, <1>1, <1>3, <1>4, <1>5 DEF Above, For
<1>14. ASSUME NEW c, NEW j, Follows(c, d, l, r, j), j <= Len(r) + 1, j \in Nat
       PROVE  Follows(c, d, m, s, j)
  <2>1. ASSUME NEW i \in DOMAIN r, For(i, d, r), i < j, c = r[i].chunk + 1
        PROVE  i \in DOMAIN s /\ For(i, d, s) /\ i < j /\ c = s[i].chunk + 1
    BY <2>1, <1>3, <1>4
  <2> QED  BY <1>14, <2>1, <1>1 DEF Follows
<1>15. GaplessFrames(d, m, s)
  <2> SUFFICES ASSUME Whole(m), NEW j, For(j, d, s), s[j].chunk # 0
               PROVE  Follows(s[j].chunk, d, m, s, j)
    BY DEF GaplessFrames
  <2>1. Whole(l)
    BY <1>1 DEF Whole
  <2>2. CASE For(j, d, r)
    BY <2>1, <2>2, <1>4, <1>14 DEF DInv, GaplessFrames, For
  <2>3. CASE j = Len(r) + 1
    <3>1. x.chunk = l.read /\ Follows(l.read, d, l, r, j)
      BY <2>1, <2>3, <1>3, <1>5 DEF DInv, GaplessRead
    <3> QED  BY <3>1, <2>3, <1>3, <1>14
  <2> QED  BY <2>2, <2>3, <1>4
<1>16. GaplessRead(d, m, s)
  <2> SUFFICES ASSUME m.reader = "reading", m.read > 0
               PROVE  Follows(m.read, d, m, s, Len(s) + 1)
    BY DEF GaplessRead
  <2>1. m.read = x.chunk + 1
    BY <1>1, <1>5
  <2>2. Len(r) + 1 \in DOMAIN s /\ For(Len(r) + 1, d, s) /\ Len(r) + 1 < Len(s) + 1 /\ m.read = s[Len(r) + 1].chunk + 1
    BY <2>1, <1>3, <1>4
  <2> QED  BY <2>2 DEF Follows
<1> QED  BY <1>2, <1>6, <1>7, <1>8, <1>9, <1>10, <1>12, <1>13, <1>15, <1>16 DEF DInv

\* The reader takes the first chunk of the file, and sends nothing yet.
LEMMA FirstChunk ==
  ASSUME NEW l \in Down!Load, NEW r \in Seq(Reply), NEW d, DInv(d, l, r),
         l.reader = "reading", l.read < l.size, ~l.peek,
         NEW m, m = [l EXCEPT !.read = @ + 1, !.peek = TRUE]
  PROVE  m \in Down!Load /\ DInv(d, m, r)
<1>1. /\ l.read = 0 /\ l.chan = <<>> /\ l.got = <<>> /\ l.body # "none" /\ l.size \in Nat /\ ~l.eof
      /\ \A i \in DOMAIN r : ~For(i, d, r)
  BY LoadFields DEF DInv, ReaderInv
<1>2. /\ m.size = l.size /\ m.reader = "reading" /\ m.read = 1 /\ m.peek = TRUE
      /\ m.route = l.route /\ m.chan = <<>> /\ m.body = l.body
      /\ m.eof = l.eof /\ m.got = <<>> /\ m.dropped = l.dropped
  BY <1>1 DEF Down!Load
<1>3. m \in Down!Load
  <2>1. l.read + 1 \in 0 .. MaxSize
    BY LoadFields, UploadAssumption DEF UploadAssumption
  <2> QED  BY <2>1 DEF Down!Load
<1>4. ReaderInv(d, m, r) /\ RouteInv(d, m, r) /\ LastFrame(d, m, r) /\ LastItem(m)
  BY <1>1, <1>2 DEF ReaderInv, RouteInv, LastFrame, LastItem
<1>5. RisingGot(m) /\ RisingChan(m) /\ RisingFrames(d, m, r)
  BY <1>1, <1>2 DEF RisingGot, RisingChan, RisingFrames
<1>6. RisingRead(d, m, r)
  BY <1>1, <1>2 DEF RisingRead, Above
<1>7. GaplessFrames(d, m, r) /\ GaplessChan(m)
  BY <1>1, <1>2 DEF GaplessFrames, GaplessChan
<1>8. GaplessRead(d, m, r)
  <2>1. PICK g, c : g = 0 /\ c = 0 /\ g = Len(m.got) /\ c = Len(m.chan)
    <3>1. Len(<<>>) = 0
      OBVIOUS
    <3> QED  BY <3>1, <1>2
  <2>2. m.read = g + c + 1
    BY <1>2, <2>1
  <2> QED  BY <2>1, <2>2, Zenon DEF GaplessRead, Follows
<1>9. GaplessGot(m)
  BY <1>1, <1>2 DEF GaplessGot
<1> QED  BY <1>3, <1>4, <1>5, <1>6, <1>7, <1>8, <1>9 DEF DInv

-----------------------------------------------------------------------------
(* Downloads: the registry of the hub                                       *)

\* The chunk of a frame, as it is put on the channel.
Carried(x) == [chunk |-> x.chunk, eof |-> x.eof, error |-> x.error]

\* How a frame x of download d is taken: the frames move up, and the chunk may
\* be put on the channel, which then has one more.
Took(d, l, r, m, s, x, taken) ==
  /\ \A i : For(i, d, s) => For(i + 1, d, r) /\ r[i + 1] = s[i] /\ i \in Nat /\ i >= 1
  /\ \A i : For(i, d, r) => i = 1 \/ (For(i - 1, d, s) /\ s[i - 1] = r[i] /\ i \in Nat /\ i > 1)
  /\ For(1, d, r) /\ 1 \in DOMAIN r /\ r[1] = x /\ \A i \in DOMAIN r : i \in Nat /\ i >= 1
  /\ Len(s) \in Nat /\ Len(r) = Len(s) + 1
  /\ m.size = l.size /\ m.got = l.got /\ m.read = l.read /\ m.peek = l.peek
  /\ m.body = l.body /\ m.eof = l.eof /\ m.reader = l.reader
  /\ m.route = (l.route /\ ~x.eof)
  /\ taken => /\ l.route /\ l.body = "open" /\ m.dropped = l.dropped
              /\ Len(m.chan) = Len(l.chan) + 1 /\ m.chan[Len(l.chan) + 1] = Carried(x)
  /\ ~taken => m.chan = l.chan
  /\ l.route /\ l.body = "open" /\ ~m.dropped => taken
  /\ ~m.dropped => ~l.dropped
  /\ \A i \in 1 .. Len(l.chan) : m.chan[i] = l.chan[i]
  /\ \A i \in DOMAIN m.chan : i \in 1 .. Len(l.chan) \/ (taken /\ i = Len(l.chan) + 1)

\* The registry takes the first frame, which is for this download.
LEMMA RoutedFacts ==
  ASSUME DownloadAssumption,
         NEW l \in Down!Load, NEW r \in Seq(Reply), r # <<>>, NEW d, r[1].id = d
  PROVE  /\ Down!Routed(l, r[1]) \in Down!Load /\ Tail(r) \in Seq(Reply)
         /\ \E taken \in BOOLEAN : Took(d, l, r, Down!Routed(l, r[1]), Tail(r), r[1], taken)
<1>1. PICK s : s = Tail(r)
  OBVIOUS
<1>2. PICK x : x = r[1]
  OBVIOUS
<1>3. /\ s \in Seq(Reply) /\ Len(r) \in Nat \ {0} /\ Len(s) = Len(r) - 1 /\ DOMAIN r = 1 .. Len(r)
      /\ DOMAIN s = 1 .. Len(r) - 1 /\ \A i \in 1 .. Len(r) - 1 : s[i] = r[i + 1]
      /\ x \in Reply /\ Len(s) \in Nat
  BY <1>1, <1>2, TailFacts
<1>4. /\ x.eof \in BOOLEAN /\ Carried(x) \in Item
  BY <1>3 DEF Reply, Item, Carried
<1>5. PICK n \in Nat : n = Len(r) /\ n # 0
  BY <1>3
<1>6. DOMAIN r = 1 .. n /\ DOMAIN s = 1 .. n - 1 /\ \A i \in 1 .. n - 1 : s[i] = r[i + 1]
  BY <1>3, <1>5
<1>7. /\ \A i : For(i, d, s) => For(i + 1, d, r) /\ r[i + 1] = s[i] /\ i \in Nat /\ i >= 1
      /\ \A i : For(i, d, r) => i = 1 \/ (For(i - 1, d, s) /\ s[i - 1] = r[i] /\ i \in Nat /\ i > 1)
  <2>1. ASSUME NEW i, i \in 1 .. n - 1, s[i].id = d
        PROVE  i + 1 \in 1 .. n /\ r[i + 1].id = d /\ r[i + 1] = s[i] /\ i \in Nat /\ i >= 1
    BY <2>1, <1>5, <1>6
  <2>2. ASSUME NEW i, i \in 1 .. n, r[i].id = d, i # 1
        PROVE  i - 1 \in 1 .. n - 1 /\ s[i - 1].id = d /\ s[i - 1] = r[i] /\ i \in Nat /\ i > 1
    <3>1. i - 1 \in 1 .. n - 1 /\ i - 1 + 1 = i /\ i \in Nat /\ i > 1
      BY <2>2, <1>5
    <3>2. s[i - 1] = r[i - 1 + 1]
      BY <3>1, <1>6
    <3> QED  BY <3>1, <3>2, <2>2
  <2>3. \A i : For(i, d, s) => For(i + 1, d, r) /\ r[i + 1] = s[i] /\ i \in Nat /\ i >= 1
    <3> SUFFICES ASSUME NEW i, For(i, d, s) PROVE For(i + 1, d, r) /\ r[i + 1] = s[i] /\ i \in Nat /\ i >= 1
      OBVIOUS
    <3>1. i \in 1 .. n - 1 /\ s[i].id = d
      BY <1>6, Zenon DEF For
    <3> QED  BY <3>1, <2>1, <1>6, Zenon DEF For
  <2>4. \A i : For(i, d, r) => i = 1 \/ (For(i - 1, d, s) /\ s[i - 1] = r[i] /\ i \in Nat /\ i > 1)
    <3> SUFFICES ASSUME NEW i, For(i, d, r), i # 1 PROVE For(i - 1, d, s) /\ s[i - 1] = r[i] /\ i \in Nat /\ i > 1
      OBVIOUS
    <3>1. i \in 1 .. n /\ r[i].id = d
      BY <1>6, Zenon DEF For
    <3> QED  BY <3>1, <2>2, <1>6, Zenon DEF For
  <2> QED  BY <2>3, <2>4
<1>8. For(1, d, r) /\ 1 \in DOMAIN r /\ r[1] = x /\ \A i \in DOMAIN r : i \in Nat /\ i >= 1
  BY <1>2, <1>5, <1>6 DEF For
<1>9. PICK m : m = Down!Routed(l, x)
  OBVIOUS
<1>10. PICK full \in BOOLEAN : full <=> Len(l.chan) >= DownCap
  OBVIOUS
<1>11. PICK taken \in BOOLEAN : taken <=> l.route /\ l.body = "open" /\ ~full
  OBVIOUS
<1>12. /\ l.chan \in Seq(Item) /\ Len(l.chan) \in Nat /\ DOMAIN l.chan = 1 .. Len(l.chan)
       /\ l.route \in BOOLEAN /\ l.dropped \in BOOLEAN
  <2>1. l.route \in BOOLEAN /\ l.dropped \in BOOLEAN
    BY DEF Down!Load
  <2> QED  BY <2>1, LoadFields
<1>13. PICK c : c = IF taken THEN Append(l.chan, Carried(x)) ELSE l.chan
  OBVIOUS
<1>14. /\ c \in Seq(Item)
       /\ taken => Len(c) = Len(l.chan) + 1 /\ c[Len(l.chan) + 1] = Carried(x)
       /\ ~taken => c = l.chan
       /\ \A i \in 1 .. Len(l.chan) : c[i] = l.chan[i]
       /\ \A i \in DOMAIN c : i \in 1 .. Len(l.chan) \/ (taken /\ i = Len(l.chan) + 1)
  <2>1. CASE taken
    <3>1. c = Append(l.chan, Carried(x)) /\ c \in Seq(Item)
      BY <2>1, <1>4, <1>12, <1>13
    <3>2. /\ Len(c) = Len(l.chan) + 1 /\ DOMAIN c = 1 .. Len(l.chan) + 1
          /\ \A i \in 1 .. Len(l.chan) : c[i] = l.chan[i]
          /\ c[Len(l.chan) + 1] = Carried(x)
      BY <3>1, <1>12, AppendFacts
    <3>3. \A i \in 1 .. Len(l.chan) + 1 : i \in 1 .. Len(l.chan) \/ i = Len(l.chan) + 1
      BY <1>12
    <3> QED  BY <2>1, <3>1, <3>2, <3>3
  <2>2. CASE ~taken
    BY <2>2, <1>12, <1>13
  <2> QED  BY <2>1, <2>2
<1>15. m = [l EXCEPT !.chan = c, !.dropped = l.dropped \/ (l.route /\ l.body = "open" /\ full),
                     !.route = l.route /\ ~x.eof]
  <2>1. CASE ~l.route
    <3>1. m = l /\ c = l.chan
      BY <2>1, <1>9, <1>11, <1>13 DEF Down!Routed
    <3> QED  BY <2>1, <3>1, <1>12 DEF Down!Load
  <2>2. CASE l.route
    <3>1. m = [l EXCEPT !.chan = IF l.body = "open" /\ ~full THEN Append(@, Carried(x)) ELSE @,
                        !.dropped = @ \/ (l.body = "open" /\ full), !.route = ~x.eof]
      BY <2>2, <1>9, <1>10 DEF Down!Routed, Carried
    <3> QED  BY <2>2, <3>1, <1>4, <1>11, <1>12, <1>13 DEF Down!Load
  <2> QED  BY <2>1, <2>2
<1>16. /\ m.size = l.size /\ m.got = l.got /\ m.read = l.read /\ m.peek = l.peek
       /\ m.body = l.body /\ m.eof = l.eof /\ m.reader = l.reader
       /\ m.route = (l.route /\ ~x.eof) /\ m.chan = c
       /\ m.dropped = (l.dropped \/ (l.route /\ l.body = "open" /\ full))
  BY <1>15 DEF Down!Load
<1>17. m \in Down!Load
  <2>1. /\ (l.dropped \/ (l.route /\ l.body = "open" /\ full)) \in BOOLEAN
        /\ (l.route /\ ~x.eof) \in BOOLEAN
    OBVIOUS
  <2> QED  BY <2>1, <1>14, <1>15 DEF Down!Load, Item
<1>18. /\ taken => l.route /\ l.body = "open" /\ m.dropped = l.dropped
       /\ l.route /\ l.body = "open" /\ ~m.dropped => taken
       /\ ~m.dropped => ~l.dropped
  BY <1>11, <1>12, <1>16
<1>19. Len(r) = Len(s) + 1
  BY <1>3
<1>20. Took(d, l, r, m, s, x, taken)
  BY <1>3, <1>7, <1>8, <1>14, <1>16, <1>18, <1>19, Zenon DEF Took
<1> QED  BY <1>1, <1>2, <1>3, <1>9, <1>17, <1>20

\* Then the invariant holds.
LEMMA RoutedStep ==
  ASSUME NEW l \in Down!Load, NEW m \in Down!Load, NEW r \in Seq(Reply), NEW s, NEW d, NEW x,
         DInv(d, l, r), NEW taken \in BOOLEAN, Took(d, l, r, m, s, x, taken)
  PROVE  DInv(d, m, s)
<1>1. /\ Len(s) \in Nat /\ Len(r) = Len(s) + 1 /\ 1 \in DOMAIN r /\ r[1] = x /\ For(1, d, r)
  BY DEF Took
<1>2. /\ x.chunk \in Nat /\ x.eof \in BOOLEAN
      /\ Carried(x).chunk = x.chunk /\ Carried(x).eof = x.eof /\ Carried(x).error = x.error
  BY <1>1, ReplyFields DEF Carried
<1>3. /\ \A i : For(i, d, s) => For(i + 1, d, r) /\ r[i + 1] = s[i] /\ i \in Nat /\ i >= 1
      /\ \A i : For(i, d, r) => i = 1 \/ (For(i - 1, d, s) /\ s[i - 1] = r[i] /\ i \in Nat /\ i > 1)
  BY DEF Took
<1>4. /\ Len(l.chan) \in Nat /\ DOMAIN l.chan = 1 .. Len(l.chan)
      /\ Len(l.got) \in Nat /\ l.read \in Nat /\ l.size \in Nat
      /\ \A i \in DOMAIN l.chan : l.chan[i].chunk \in Nat
  BY LoadFields
<1>5. /\ m.size = l.size /\ m.got = l.got /\ m.read = l.read /\ m.peek = l.peek
      /\ m.body = l.body /\ m.eof = l.eof /\ m.reader = l.reader
      /\ m.route = (l.route /\ ~x.eof)
  BY DEF Took
<1>a. /\ taken => l.route /\ l.body = "open" /\ m.dropped = l.dropped
      /\ l.route /\ l.body = "open" /\ ~m.dropped => taken
      /\ ~m.dropped => ~l.dropped
  BY DEF Took
<1>b. \A i \in DOMAIN m.chan : i \in 1 .. Len(l.chan) \/ (taken /\ i = Len(l.chan) + 1)
  BY DEF Took
<1>c. /\ taken => Len(m.chan) = Len(l.chan) + 1 /\ m.chan[Len(l.chan) + 1] = Carried(x)
      /\ ~taken => m.chan = l.chan
      /\ \A i \in 1 .. Len(l.chan) : m.chan[i] = l.chan[i]
  BY DEF Took
<1>e. PICK g \in Nat : g = Len(l.got) /\ g = Len(m.got)
  BY <1>4, <1>5
<1>f. PICK n \in Nat : n = Len(l.chan) /\ (taken => Len(m.chan) = n + 1)
  BY <1>4, <1>c
<1>d. \A i \in DOMAIN r : i \in Nat /\ ~(i < 1)
  BY DEF Took
<1>8. ReaderInv(d, m, s)
  <2>1. For(1, d, r) /\ 1 \in DOMAIN r
    BY <1>1, <1>2
  <2>2. l.reader = "over" \/ l.read > 0
    BY <2>1, <1>4 DEF DInv, ReaderInv
  <2>3. l.body # "none"
    BY <2>1 DEF DInv, ReaderInv, Down!NoLoad
  <2> QED  BY <2>2, <2>3, <1>5 DEF DInv, ReaderInv
<1>9. RouteInv(d, m, s)
  <2> SUFFICES ASSUME m.route, ~(m.reader \in {"zipping", "reading"})
               PROVE  \E i \in DOMAIN s : For(i, d, s) /\ s[i].eof
    BY DEF RouteInv
  <2>1. l.route /\ ~x.eof
    BY <1>5
  <2>2. PICK i \in DOMAIN r : For(i, d, r) /\ r[i].eof
    BY <2>1, <1>5 DEF DInv, RouteInv
  <2>3. i # 1
    BY <2>1, <2>2, <1>1
  <2> QED  BY <2>2, <2>3, <1>3 DEF For
<1>10. LastFrame(d, m, s)
  <2> SUFFICES ASSUME NEW i, For(i, d, s)
               PROVE  /\ ~s[i].eof => s[i].chunk # 0 /\ ~s[i].error
                      /\ s[i].eof => m.reader = "over" /\ \A j \in DOMAIN s : For(j, d, s) => j <= i
                      /\ s[i].eof /\ ~s[i].error => s[i].chunk = m.size
    BY DEF LastFrame
  <2>1. For(i + 1, d, r) /\ r[i + 1] = s[i] /\ i + 1 \in DOMAIN r
    BY <1>3 DEF For
  <2>2. \A j \in DOMAIN s : For(j, d, s) /\ s[i].eof => j <= i
    <3> SUFFICES ASSUME NEW j \in DOMAIN s, For(j, d, s), s[i].eof PROVE j <= i
      OBVIOUS
    <3>1. For(j + 1, d, r) /\ j + 1 \in DOMAIN r /\ j \in Nat /\ i \in Nat
      BY <1>3 DEF For
    <3>2. j + 1 <= i + 1
      BY <2>1, <3>1 DEF DInv, LastFrame
    <3> QED  BY <3>1, <3>2
  <2> QED  BY <2>1, <2>2, <1>5 DEF DInv, LastFrame
<1>11. /\ ~x.eof => x.chunk # 0 /\ ~x.error
       /\ x.eof => l.reader = "over" /\ \A j \in DOMAIN r : For(j, d, r) => j <= 1
       /\ x.eof /\ ~x.error => x.chunk = l.size
  BY <1>1, <1>2 DEF DInv, LastFrame
<1>12. LastItem(m)
  <2>1. ASSUME NEW i \in 1 .. Len(l.chan)
        PROVE  /\ ~m.chan[i].eof => m.chan[i].chunk # 0 /\ ~m.chan[i].error
               /\ m.chan[i].eof => ~m.route /\ m.reader = "over" /\ i = Len(m.chan)
               /\ m.chan[i].eof /\ ~m.chan[i].error => m.chan[i].chunk = m.size
    <3>1. /\ ~l.chan[i].eof => l.chan[i].chunk # 0 /\ ~l.chan[i].error
          /\ l.chan[i].eof => ~l.route /\ l.reader = "over" /\ i = Len(l.chan)
          /\ l.chan[i].eof /\ ~l.chan[i].error => l.chan[i].chunk = l.size
      BY <1>4 DEF DInv, LastItem
    <3>2. m.chan[i] = l.chan[i] /\ (~l.route => ~m.route /\ m.chan = l.chan)
      BY <1>c, <1>a, <1>5
    <3> QED  BY <3>1, <3>2, <1>5
  <2>2. ASSUME taken, NEW i, i = Len(l.chan) + 1
        PROVE  /\ ~m.chan[i].eof => m.chan[i].chunk # 0 /\ ~m.chan[i].error
               /\ m.chan[i].eof => ~m.route /\ m.reader = "over" /\ i = Len(m.chan)
               /\ m.chan[i].eof /\ ~m.chan[i].error => m.chan[i].chunk = m.size
    BY <2>2, <1>2, <1>5, <1>c, <1>11
  <2> QED  BY <2>1, <2>2, <1>b DEF LastItem
<1>13. RisingGot(m)
  BY <1>5 DEF DInv, RisingGot
<1>14. x.chunk # 0 => Above(x.chunk, d, l, r, 1)
  BY <1>1 DEF DInv, RisingFrames
<1>15. RisingChan(m)
  <2> SUFFICES ASSUME NEW j \in DOMAIN m.chan, m.chan[j].chunk # 0
               PROVE  /\ m.chan[j].chunk <= m.size
                      /\ \A i \in DOMAIN m.got : m.got[i] < m.chan[j].chunk
                      /\ \A i \in DOMAIN m.chan : i < j => m.chan[i].chunk < m.chan[j].chunk
    BY DEF RisingChan
  <2>1. CASE j \in 1 .. Len(l.chan)
    <3>1. \A i \in DOMAIN m.chan : i < j => i \in DOMAIN l.chan /\ m.chan[i] = l.chan[i]
      BY <2>1, <1>4, <1>b, <1>c
    <3>2. j \in DOMAIN l.chan /\ m.chan[j] = l.chan[j]
      BY <2>1, <1>4, <1>c
    <3> QED  BY <3>1, <3>2, <1>5 DEF DInv, RisingChan
  <2>2. CASE taken /\ j = Len(l.chan) + 1
    <3>1. \A i \in DOMAIN m.chan : i < j => i \in DOMAIN l.chan /\ m.chan[i] = l.chan[i]
      BY <2>2, <1>4, <1>b, <1>c
    <3>2. m.chan[j].chunk = x.chunk
      BY <2>2, <1>2, <1>c
    <3>3. Above(x.chunk, d, l, r, 1)
      BY <3>2, <1>14
    <3> QED  BY <3>1, <3>2, <3>3, <1>5 DEF Above
  <2> QED  BY <2>1, <2>2, <1>b
<1>16. ASSUME NEW c \in Nat, NEW j \in Nat, j >= 1, Above(c, d, l, r, j + 1) PROVE Above(c, d, m, s, j)
  <2>1. x.chunk < c
    BY <1>16, <1>1, <1>2 DEF Above, For
  <2>2. \A i \in DOMAIN m.chan : m.chan[i].chunk < c
    <3> SUFFICES ASSUME NEW i \in DOMAIN m.chan PROVE m.chan[i].chunk < c
      OBVIOUS
    <3>1. CASE i \in 1 .. Len(l.chan)
      <4>1. i \in DOMAIN l.chan /\ m.chan[i] = l.chan[i]
        BY <3>1, <1>4, <1>c
      <4> QED  BY <4>1, <1>16 DEF Above
    <3>2. CASE taken /\ i = Len(l.chan) + 1
      <4>1. m.chan[i].chunk = x.chunk
        BY <3>2, <1>2, <1>c
      <4> QED  BY <4>1, <2>1
    <3> QED  BY <3>1, <3>2, <1>b
  <2>3. \A i \in DOMAIN s : For(i, d, s) /\ i < j => s[i].chunk < c
    BY <1>16, <1>3 DEF Above, For
  <2> QED  BY <2>2, <2>3, <1>16, <1>5 DEF Above
<1>17. RisingFrames(d, m, s)
  <2> SUFFICES ASSUME NEW j, For(j, d, s), s[j].chunk # 0
               PROVE  Above(s[j].chunk, d, m, s, j)
    BY DEF RisingFrames
  <2>1. For(j + 1, d, r) /\ j + 1 \in DOMAIN r /\ r[j + 1] = s[j] /\ j \in Nat /\ j >= 1
    BY <1>3 DEF For
  <2>2. Above(r[j + 1].chunk, d, l, r, j + 1) /\ r[j + 1].chunk \in Nat
    BY <2>1, ReplyFields DEF DInv, RisingFrames
  <2> QED  BY <2>1, <2>2, <1>16
<1>18. RisingRead(d, m, s)
  <2> SUFFICES ASSUME m.reader = "reading", m.read > 0 PROVE Above(m.read, d, m, s, Len(s) + 1)
    BY DEF RisingRead
  <2>1. Above(l.read, d, l, r, Len(s) + 1 + 1)
    BY <1>1, <1>5 DEF DInv, RisingRead
  <2> QED  BY <2>1, <1>1, <1>4, <1>5, <1>16
<1>19. GaplessGot(m)
  BY <1>5, <1>a DEF DInv, GaplessGot
<1>20. taken /\ ~l.dropped /\ x.chunk # 0 => x.chunk = Len(l.got) + Len(l.chan) + 1
  <2> SUFFICES ASSUME taken, ~l.dropped, x.chunk # 0 PROVE x.chunk = Len(l.got) + Len(l.chan) + 1
    OBVIOUS
  <2>1. Whole(l)
    BY <1>a DEF Whole
  <2>2. Follows(x.chunk, d, l, r, 1)
    BY <2>1, <1>1 DEF DInv, GaplessFrames
  <2> QED  BY <2>2, <1>d DEF Follows
<1>21. GaplessChan(m)
  <2> SUFFICES ASSUME m.body = "open"
               PROVE  ~m.eof /\ (~m.dropped => \A i \in DOMAIN m.chan : m.chan[i].chunk # 0 => m.chan[i].chunk = Len(m.got) + i)
    BY DEF GaplessChan
  <2>1. ~l.eof
    BY <1>5 DEF DInv, GaplessChan
  <2>2. ASSUME ~m.dropped, NEW i \in DOMAIN m.chan, m.chan[i].chunk # 0
        PROVE  m.chan[i].chunk = Len(m.got) + i
    <3>1. CASE i \in 1 .. Len(l.chan)
      <4>1. i \in DOMAIN l.chan /\ m.chan[i] = l.chan[i] /\ ~l.dropped /\ l.body = "open"
        BY <3>1, <2>2, <1>4, <1>5, <1>a, <1>c
      <4> QED  BY <4>1, <2>2, <1>5 DEF DInv, GaplessChan
    <3>2. CASE taken /\ i = Len(l.chan) + 1
      <4>1. m.chan[i].chunk = x.chunk /\ ~l.dropped
        BY <3>2, <2>2, <1>2, <1>a, <1>c
      <4>2. x.chunk = g + n + 1
        BY <4>1, <3>2, <2>2, <1>2, <1>20, <1>c, <1>e, <1>f
      <4>3. i = n + 1
        BY <3>2, <1>f
      <4>4. m.chan[i].chunk = g + i
        BY <4>1, <4>2, <4>3
      <4> QED  BY <4>4, <1>e
    <3> QED  BY <3>1, <3>2, <1>b
  <2> QED  BY <2>1, <2>2, <1>5
<1>22. ASSUME NEW c \in Nat, NEW j \in Nat, j >= 1, Whole(m), Above(c, d, l, r, j + 1), Follows(c, d, l, r, j + 1)
       PROVE  Follows(c, d, m, s, j)
  <2>1. Whole(l) /\ taken /\ ~x.eof /\ x.chunk # 0 /\ ~l.dropped
    BY <1>22, <1>5, <1>11, <1>a DEF Whole
  <2>2. x.chunk = g + n + 1
    BY <2>1, <1>20, <1>e, <1>f
  <2>3. x.chunk < c
    BY <1>22, <1>1, <1>2 DEF Above, For
  <2>4. PICK i \in DOMAIN r : For(i, d, r) /\ i < j + 1 /\ c = r[i].chunk + 1
    <3>1. c # g + n + 1
      BY <2>2, <2>3, <1>2
    <3> QED  BY <3>1, <1>22, <1>e, <1>f DEF Follows
  <2>5. CASE i = 1
    <3>1. c = x.chunk + 1
      BY <2>4, <2>5, <1>1
    <3>2. c = g + (n + 1) + 1
      BY <3>1, <2>2
    <3>3. c = Len(m.got) + Len(m.chan) + 1
      BY <3>2, <2>1, <1>e, <1>f
    <3> QED  BY <3>3 DEF Follows
  <2>6. CASE i # 1
    <3>1. For(i - 1, d, s) /\ i - 1 \in DOMAIN s /\ i - 1 < j /\ c = s[i - 1].chunk + 1
      BY <2>4, <2>6, <1>3 DEF For
    <3> QED  BY <3>1 DEF Follows
  <2> QED  BY <2>5, <2>6
<1>23. Whole(m) => Whole(l)
  BY <1>5, <1>a DEF Whole
<1>24. GaplessFrames(d, m, s)
  <2> SUFFICES ASSUME Whole(m), NEW j, For(j, d, s), s[j].chunk # 0
               PROVE  Follows(s[j].chunk, d, m, s, j)
    BY DEF GaplessFrames
  <2>1. For(j + 1, d, r) /\ j + 1 \in DOMAIN r /\ r[j + 1] = s[j] /\ j \in Nat /\ j >= 1
    BY <1>3 DEF For
  <2>2. Above(r[j + 1].chunk, d, l, r, j + 1) /\ r[j + 1].chunk \in Nat
    BY <2>1, ReplyFields DEF DInv, RisingFrames
  <2>3. Follows(r[j + 1].chunk, d, l, r, j + 1)
    BY <2>1, <1>23 DEF DInv, GaplessFrames
  <2> QED  BY <2>1, <2>2, <2>3, <1>22
<1>25. GaplessRead(d, m, s)
  <2> SUFFICES ASSUME Whole(m), m.reader = "reading", m.read > 0 PROVE Follows(m.read, d, m, s, Len(s) + 1)
    BY DEF GaplessRead
  <2>1. Above(l.read, d, l, r, Len(s) + 1 + 1)
    BY <1>1, <1>5 DEF DInv, RisingRead
  <2>2. Follows(l.read, d, l, r, Len(s) + 1 + 1)
    BY <1>1, <1>5, <1>23 DEF DInv, GaplessRead
  <2> QED  BY <2>1, <2>2, <1>1, <1>4, <1>5, <1>22
<1> QED  BY <1>8, <1>9, <1>10, <1>12, <1>13, <1>15, <1>17, <1>18, <1>19, <1>21, <1>24, <1>25 DEF DInv

-----------------------------------------------------------------------------
(* Downloads: the body of the response, and the link                        *)

\* The body is over: its channel is gone, and the route too unless the browser
\* hung up.
LEMMA OverStep ==
  ASSUME NEW l \in Down!Load, NEW r \in Seq(Reply), NEW d, DInv(d, l, r), l.body = "open",
         NEW m \in Down!Load, m.chan = <<>>, m.body \in {"ended", "hungup"},
         m.route \in {l.route, FALSE}, m.size = l.size, m.reader = l.reader, m.read = l.read,
         m.peek = l.peek, m.eof => l.reader = "over", RisingGot(m), GaplessGot(m),
         l.reader # "over" /\ l.read = 0 => m.got = <<>>,
         \A c \in Nat : c # 0 /\ (\A j \in DOMAIN l.got : l.got[j] < c)
                              /\ (\A j \in DOMAIN l.chan : l.chan[j].chunk < c)
                        => \A j \in DOMAIN m.got : m.got[j] < c
  PROVE  DInv(d, m, r)
<1>1. m.body # "none" /\ m.body # "open" /\ l.read \in Nat
      /\ \A i \in DOMAIN r : r[i].chunk \in Nat
  BY LoadFields, ReplyFields
<1>2. ReaderInv(d, m, r)
  BY <1>1 DEF DInv, ReaderInv
<1>3. RouteInv(d, m, r) /\ LastFrame(d, m, r)
  BY DEF DInv, RouteInv, LastFrame
<1>4. LastItem(m) /\ RisingChan(m)
  BY DEF LastItem, RisingChan
<1>5. ASSUME NEW c \in Nat, c # 0, NEW j, Above(c, d, l, r, j) PROVE Above(c, d, m, r, j)
  BY <1>5 DEF Above
<1>6. RisingFrames(d, m, r)
  BY <1>1, <1>5 DEF DInv, RisingFrames
<1>7. RisingRead(d, m, r)
  BY <1>1, <1>5 DEF DInv, RisingRead
<1>8. GaplessChan(m) /\ GaplessFrames(d, m, r) /\ GaplessRead(d, m, r)
  BY <1>1 DEF GaplessChan, GaplessFrames, GaplessRead, Whole
<1> QED  BY <1>2, <1>3, <1>4, <1>6, <1>7, <1>8 DEF DInv

\* The body ends without the eof, at an error, the idle timeout, or because the
\* sender is gone.
LEMMA EndedStep ==
  ASSUME NEW l \in Down!Load, NEW r \in Seq(Reply), NEW d, DInv(d, l, r), l.body = "open",
         NEW m, \/ m = Down!Ended(l, FALSE)
                \/ m = [l EXCEPT !.body = "hungup", !.chan = <<>>]
  PROVE  m \in Down!Load /\ DInv(d, m, r)
<1>1. /\ m.size = l.size /\ m.got = l.got /\ m.read = l.read /\ m.peek = l.peek
      /\ m.reader = l.reader /\ m.dropped = l.dropped /\ m.chan = <<>>
      /\ m.body \in {"ended", "hungup"} /\ m.route \in {l.route, FALSE} /\ m.eof \in {l.eof, FALSE}
  BY DEF Down!Ended, Down!Load
<1>2. m \in Down!Load
  <2>1. <<>> \in Seq(Item)
    OBVIOUS
  <2> QED  BY <2>1, ZenonT(30) DEF Down!Ended, Down!Load, Item
<1>3. RisingGot(m) /\ GaplessGot(m)
  BY <1>1 DEF DInv, RisingGot, GaplessGot
<1>4. /\ m.eof => l.reader = "over"
      /\ l.reader # "over" /\ l.read = 0 => m.got = <<>>
  BY <1>1 DEF DInv, ReaderInv
<1> QED  BY <1>1, <1>2, <1>3, <1>4, OverStep

\* The browser gets the first chunk of the channel.
LEMMA TakesStep ==
  ASSUME NEW l \in Down!Load, NEW r \in Seq(Reply), NEW d, DInv(d, l, r), l.body = "open",
         l.chan # <<>>, ~Head(l.chan).error, NEW more,
         more = [l EXCEPT !.chan = Tail(@), !.got = IF Head(l.chan).chunk = 0 THEN @ ELSE Append(@, Head(l.chan).chunk)],
         NEW m, m = IF Head(l.chan).eof THEN Down!Ended(more, TRUE) ELSE more
  PROVE  m \in Down!Load /\ DInv(d, m, r)
<1>1. PICK n \in Nat, g \in Nat, c \in Item, k \in Nat :
        /\ n = Len(l.chan) /\ n # 0 /\ DOMAIN l.chan = 1 .. n
        /\ g = Len(l.got) /\ DOMAIN l.got = 1 .. g
        /\ c = Head(l.chan) /\ c = l.chan[1] /\ c \in Item /\ k = c.chunk /\ c.eof \in BOOLEAN
  <2>1. l.chan \in Seq(Item) /\ l.got \in Seq(1 .. MaxSize)
    BY LoadFields
  <2>2. /\ Len(l.chan) \in Nat \ {0} /\ DOMAIN l.chan = 1 .. Len(l.chan)
        /\ Head(l.chan) = l.chan[1] /\ l.chan[1] \in Item
    BY <2>1, TailFacts
  <2>3. Len(l.got) \in Nat /\ DOMAIN l.got = 1 .. Len(l.got)
    BY <2>1
  <2>4. l.chan[1].chunk \in Nat /\ l.chan[1].eof \in BOOLEAN
    BY <2>2 DEF Item
  <2>5. Head(l.chan) \in Item /\ Head(l.chan).chunk \in Nat
    BY <2>2, <2>4
  <2> USE <2>5
  <2> WITNESS Len(l.chan) \in Nat, Len(l.got) \in Nat, Head(l.chan) \in Item, Head(l.chan).chunk \in Nat
  <2> QED  BY <2>2, <2>3, <2>4, <2>5
<1>0. n \in Nat /\ n # 0 /\ g \in Nat /\ k \in Nat
  BY <1>1
<1>2. PICK tl \in Seq(Item) : /\ tl = Tail(l.chan) /\ Len(tl) = n - 1 /\ DOMAIN tl = 1 .. n - 1
                              /\ \A i \in 1 .. n - 1 : tl[i] = l.chan[i + 1]
  BY <1>1, LoadFields, TailFacts
<1>3. PICK got \in Seq(1 .. MaxSize) :
        /\ got = IF k = 0 THEN l.got ELSE Append(l.got, k)
        /\ \A i \in 1 .. g : got[i] = l.got[i]
        /\ k = 0 => Len(got) = g /\ DOMAIN got = 1 .. g
        /\ k # 0 => Len(got) = g + 1 /\ DOMAIN got = 1 .. g + 1 /\ got[g + 1] = k
  <2>1. CASE k = 0
    BY <2>1, <1>1, LoadFields
  <2>2. CASE k # 0
    <3>1. k \in 1 .. MaxSize
      BY <2>2, <1>1, UploadAssumption DEF UploadAssumption, Item
    <3>2. l.got \in Seq(1 .. MaxSize) /\ Append(l.got, k) \in Seq(1 .. MaxSize)
      BY <3>1, LoadFields
    <3>3. /\ Len(Append(l.got, k)) = g + 1 /\ DOMAIN Append(l.got, k) = 1 .. g + 1
          /\ \A i \in 1 .. g : Append(l.got, k)[i] = l.got[i]
          /\ Append(l.got, k)[g + 1] = k
      BY <3>2, <1>1, AppendFacts
    <3> QED  BY <2>2, <3>2, <3>3
  <2> QED  BY <2>1, <2>2
<1>4. more = [l EXCEPT !.chan = tl, !.got = got]
  BY <1>1, <1>2, <1>3
<1>17. ASSUME NEW j \in DOMAIN got PROVE j \in 1 .. g \/ (k # 0 /\ j = g + 1)
  <2>1. CASE k = 0
    BY <1>3, <1>17, <2>1
  <2>2. CASE k # 0
    <3>1. j \in 1 .. g + 1
      BY <1>3, <1>17, <2>2
    <3>2. g \in Nat
      BY <1>1
    <3> QED  BY <2>2, <3>1, <3>2
  <2> QED  BY <2>1, <2>2
<1>5. more \in Down!Load
  BY <1>4 DEF Down!Load, Item
<1>6. /\ more.size = l.size /\ more.read = l.read /\ more.peek = l.peek /\ more.route = l.route
      /\ more.reader = l.reader /\ more.dropped = l.dropped /\ more.chan = tl /\ more.got = got
      /\ more.body = "open" /\ more.eof = l.eof
  BY <1>4 DEF Down!Load
<1>7. /\ ~c.eof => k # 0
      /\ c.eof => ~l.route /\ l.reader = "over" /\ n = 1 /\ k = l.size
      /\ \A i \in 1 .. n : ~l.chan[i].eof => l.chan[i].chunk # 0 /\ ~l.chan[i].error
      /\ \A i \in 1 .. n : l.chan[i].eof => ~l.route /\ l.reader = "over" /\ i = n
      /\ \A i \in 1 .. n : l.chan[i].eof /\ ~l.chan[i].error => l.chan[i].chunk = l.size
  <2>1. \A i \in 1 .. n :
          /\ ~l.chan[i].eof => l.chan[i].chunk # 0 /\ ~l.chan[i].error
          /\ l.chan[i].eof => ~l.route /\ l.reader = "over" /\ i = n
          /\ l.chan[i].eof /\ ~l.chan[i].error => l.chan[i].chunk = l.size
    BY <1>1 DEF DInv, LastItem
  <2>2. 1 \in 1 .. n
    BY <1>1
  <2>3. ~c.error
    BY <1>1
  <2> QED  BY <2>1, <2>2, <2>3, <1>1
<1>8. /\ l.size \in Nat /\ l.read \in Nat /\ \A i \in 1 .. n : l.chan[i].chunk \in Nat
      /\ \A i \in 1 .. g : l.got[i] \in 1 .. MaxSize /\ l.got[i] \in Nat
      /\ \A i \in DOMAIN r : r[i].chunk \in Nat
  BY <1>1, LoadFields, ReplyFields
<1>9. /\ k # 0 => k <= l.size /\ \A i \in 1 .. g : l.got[i] < k
      /\ \A j \in 1 .. n : l.chan[j].chunk # 0 =>
           /\ l.chan[j].chunk <= l.size
           /\ \A i \in 1 .. g : l.got[i] < l.chan[j].chunk
           /\ \A i \in 1 .. n : i < j => l.chan[i].chunk < l.chan[j].chunk
  BY <1>1 DEF DInv, RisingChan
<1>10. ASSUME NEW j \in 1 .. n - 1 PROVE j + 1 \in 1 .. n /\ tl[j] = l.chan[j + 1] /\ 1 < j + 1
  BY <1>1, <1>2
<1>11. RisingGot(more)
  <2> SUFFICES ASSUME NEW j \in DOMAIN got
               PROVE  got[j] <= l.size /\ \A i \in DOMAIN got : i < j => got[i] < got[j]
    BY <1>6 DEF RisingGot
  <2>1. \A j2 \in 1 .. g : l.got[j2] <= l.size /\ \A i \in 1 .. g : i < j2 => l.got[i] < l.got[j2]
    BY <1>1 DEF DInv, RisingGot
  <2>2. CASE j \in 1 .. g
    <3>1. \A i \in DOMAIN got : i < j => i \in 1 .. g
      BY <2>2, <1>1, <1>3
    <3> QED  BY <3>1, <2>1, <2>2, <1>3
  <2>3. CASE k # 0 /\ j = g + 1
    <3>1. \A i \in DOMAIN got : i < j => i \in 1 .. g
      BY <2>3, <1>1, <1>3
    <3> QED  BY <3>1, <2>3, <1>3, <1>9
  <2> QED  BY <2>2, <2>3, <1>17
<1>12. ~l.eof /\ (~l.dropped => (k # 0 => k = g + 1) /\ \A i \in 1 .. g : l.got[i] = i)
  <2>1. \A i \in 1 .. n : ~l.dropped /\ l.chan[i].chunk # 0 => l.chan[i].chunk = g + i
    BY <1>1 DEF DInv, GaplessChan
  <2>2. 1 \in 1 .. n
    BY <1>1
  <2>3. ~l.dropped /\ k # 0 => k = g + 1
    BY <1>1, <2>1, <2>2
  <2> QED  BY <2>3, <1>1 DEF DInv, GaplessChan, GaplessGot
<1>13. ~l.dropped => \A i \in DOMAIN got : got[i] = i
  <2> SUFFICES ASSUME ~l.dropped, NEW i \in DOMAIN got PROVE got[i] = i
    OBVIOUS
  <2>1. CASE i \in 1 .. g
    BY <2>1, <1>3, <1>12
  <2>2. CASE k # 0 /\ i = g + 1
    BY <2>2, <1>3, <1>12
  <2> QED  BY <2>1, <2>2, <1>1, <1>3
<1>14. ASSUME NEW x \in Nat, x # 0, \A j \in DOMAIN l.got : l.got[j] < x,
              \A j \in DOMAIN l.chan : l.chan[j].chunk < x
       PROVE  /\ \A j \in DOMAIN got : got[j] < x
              /\ \A j \in DOMAIN tl : tl[j].chunk < x
  <2>1. k < x
    <3>1. 1 \in DOMAIN l.chan
      BY <1>1
    <3> QED  BY <3>1, <1>14, <1>1
  <2>2. ASSUME NEW j \in DOMAIN got PROVE got[j] < x
    <3>1. CASE j \in 1 .. g
      BY <3>1, <1>14, <1>1, <1>3
    <3>2. CASE k # 0 /\ j = g + 1
      <4>1. got[j] = k
        BY <3>2, <1>3
      <4> QED  BY <4>1, <2>1, Zenon
    <3> QED  BY <3>1, <3>2, <1>17
  <2>3. ASSUME NEW j \in DOMAIN tl PROVE tl[j].chunk < x
    BY <1>14, <1>1, <1>2, <1>10
  <2> QED  BY <2>2, <2>3
<1>15. CASE c.eof
  <2>1. m = Down!Ended(more, TRUE)
    BY <1>1, <1>15
  <2>2. m \in Down!Load
    <3>1. <<>> \in Seq(Item)
      OBVIOUS
    <3> QED  BY <2>1, <3>1, <1>5, ZenonT(30) DEF Down!Ended, Down!Load, Item
  <2>3. /\ m.size = l.size /\ m.read = l.read /\ m.peek = l.peek /\ m.route = FALSE
        /\ m.reader = l.reader /\ m.dropped = l.dropped /\ m.chan = <<>> /\ m.got = got
        /\ m.body = "ended" /\ m.eof = TRUE
    BY <2>1, <1>5, <1>6, ZenonT(30) DEF Down!Ended, Down!Load
  <2>4. RisingGot(m)
    <3>1. m.got = more.got /\ m.size = more.size
      BY <2>3, <1>6
    <3> QED  BY <3>1, <1>11 DEF RisingGot
  <2>5. ~l.dropped => Len(got) = l.size
    <3>1. CASE k # 0
      BY <3>1, <1>3, <1>7, <1>12, <1>15
    <3>2. CASE k = 0
      <4>1. l.size = 0
        BY <3>2, <1>7, <1>15
      <4>2. \A i \in 1 .. g : l.got[i] <= l.size /\ l.got[i] >= 1
        <5>1. \A i \in 1 .. g : l.got[i] <= l.size
          BY <1>1 DEF DInv, RisingGot
        <5>2. \A i \in 1 .. MaxSize : i >= 1
          OBVIOUS
        <5> QED  BY <5>1, <5>2, <1>8
      <4>3. g = 0
        <5>1. g # 0 => 1 \in 1 .. g
          BY <1>1
        <5> QED  BY <4>1, <4>2, <5>1, <1>8
      <4> QED  BY <3>2, <4>1, <4>3, <1>3
    <3> QED  BY <3>1, <3>2
  <2>6. GaplessGot(m)
    BY <2>3, <2>5, <1>13 DEF GaplessGot
  <2> QED  BY <2>2, <2>3, <2>4, <2>6, <1>7, <1>14, <1>15, <1>1, OverStep
<1>16. CASE ~c.eof
  <2>1. m = more /\ k # 0
    BY <1>1, <1>7, <1>16
  <2>2. l.reader = "over" \/ l.read > 0
    BY <1>8 DEF DInv, ReaderInv
  <2>3. ReaderInv(d, more, r)
    BY <2>2, <1>6, <1>8 DEF DInv, ReaderInv, Down!NoLoad
  <2>4. RouteInv(d, more, r) /\ LastFrame(d, more, r)
    BY <1>6 DEF DInv, RouteInv, LastFrame
  <2>5. LastItem(more)
    BY <1>1, <1>2, <1>6, <1>7, <1>10 DEF LastItem
  <2>6. RisingChan(more)
    <3> SUFFICES ASSUME NEW j \in 1 .. n - 1, tl[j].chunk # 0
                 PROVE  /\ tl[j].chunk <= l.size
                        /\ \A i \in DOMAIN got : got[i] < tl[j].chunk
                        /\ \A i \in 1 .. n - 1 : i < j => tl[i].chunk < tl[j].chunk
      BY <1>2, <1>6 DEF RisingChan
    <3>1. j + 1 \in 1 .. n /\ tl[j] = l.chan[j + 1] /\ 1 < j + 1 /\ 1 \in 1 .. n
      BY <1>1, <1>10, SMTT(30)
    <3>2. tl[j].chunk <= l.size /\ k < tl[j].chunk /\ \A i \in 1 .. g : l.got[i] < tl[j].chunk
      BY <3>1, <1>1, <1>9
    <3>3. \A i \in 1 .. n - 1 : i < j => tl[i].chunk < tl[j].chunk
      <4> SUFFICES ASSUME NEW i \in 1 .. n - 1, i < j PROVE tl[i].chunk < tl[j].chunk
        OBVIOUS
      <4>1. i + 1 \in 1 .. n /\ tl[i] = l.chan[i + 1]
        BY <1>10
      <4>2. i + 1 < j + 1
        BY <1>0
      <4> QED  BY <4>1, <4>2, <3>1, <1>9
    <3>4. ASSUME NEW i \in DOMAIN got PROVE got[i] < tl[j].chunk
      <4>1. CASE i \in 1 .. g
        BY <4>1, <3>2, <1>3
      <4>2. CASE i = g + 1
        BY <4>2, <2>1, <3>2, <1>3
      <4> QED  BY <4>1, <4>2, <2>1, <1>17
    <3> QED  BY <3>2, <3>3, <3>4
  <2>7. ASSUME NEW x \in Nat, x # 0, NEW j, Above(x, d, l, r, j) PROVE Above(x, d, more, r, j)
    BY <2>7, <1>6, <1>14 DEF Above
  <2>8. RisingFrames(d, more, r)
    BY <2>7, <1>8 DEF DInv, RisingFrames
  <2>9. RisingRead(d, more, r)
    <3> SUFFICES ASSUME l.reader = "reading", l.read > 0 PROVE Above(l.read, d, more, r, Len(r) + 1)
      BY <1>6 DEF RisingRead
    <3>1. Above(l.read, d, l, r, Len(r) + 1)
      BY DEF DInv, RisingRead
    <3>2. l.read # 0 /\ l.read \in Nat
      BY <1>8
    <3> QED  BY <3>1, <3>2, <2>7
  <2>10. GaplessGot(more)
    BY <1>6, <1>12, <1>13 DEF GaplessGot
  <2>11. GaplessChan(more)
    <3> SUFFICES ASSUME ~l.dropped, NEW i \in 1 .. n - 1, tl[i].chunk # 0
                 PROVE  tl[i].chunk = Len(got) + i
      BY <1>2, <1>6, <1>12 DEF GaplessChan
    <3>1. tl[i].chunk = g + (i + 1)
      <4>1. i + 1 \in DOMAIN l.chan /\ tl[i] = l.chan[i + 1]
        BY <1>1, <1>10
      <4> QED  BY <4>1, <1>1 DEF DInv, GaplessChan
    <3>2. PICK h \in Nat : h = Len(got) /\ h = g + 1
      BY <2>1, <1>3
    <3>3. tl[i].chunk = h + i
      BY <3>1, <3>2, <1>0
    <3> QED  BY <3>2, <3>3
  <2>12. PICK t \in Nat : t = g + n /\ t = Len(l.got) + Len(l.chan) /\ t = Len(more.got) + Len(more.chan)
    <3>1. Len(more.got) = g + 1 /\ Len(more.chan) = n - 1
      BY <2>1, <1>2, <1>3, <1>6
    <3>2. g + 1 + (n - 1) = g + n /\ g + n \in Nat
      BY <1>0
    <3>3. g + n = Len(l.got) + Len(l.chan)
      BY <1>1
    <3> QED  BY <3>1, <3>2, <3>3
  <2>13. \A x, j : Follows(x, d, l, r, j) => Follows(x, d, more, r, j)
    BY <2>12, Zenon DEF Follows
  <2>14. GaplessFrames(d, more, r) /\ GaplessRead(d, more, r)
    BY <2>13, <1>6 DEF DInv, GaplessFrames, GaplessRead, Whole
  <2> QED  BY <2>1, <2>3, <2>4, <2>5, <2>6, <2>8, <2>9, <2>10, <2>11, <2>14, <1>5, <1>11 DEF DInv
<1> QED  BY <1>1, <1>15, <1>16

\* The link breaks: the frames are lost, the reader stops and an open body is
\* told, if there is room.
LEMMA CutStep ==
  ASSUME NEW l \in Down!Load, NEW r \in Seq(Reply), NEW d, DInv(d, l, r),
         NEW m, m = Down!Cut(l)
  PROVE  m \in Down!Load /\ DInv(d, m, <<>>)
<1>1. PICK cut : cut = [chunk |-> 0, eof |-> TRUE, error |-> TRUE]
  OBVIOUS
<1>2. PICK chan \in Seq(Item), taken \in BOOLEAN, n \in Nat :
        /\ chan = IF l.route /\ l.body = "open" /\ Len(l.chan) < DownCap THEN Append(l.chan, cut) ELSE l.chan
        /\ taken => l.route /\ l.body = "open" /\ chan[n + 1] = cut
        /\ n = Len(l.chan) /\ DOMAIN l.chan = 1 .. n /\ Len(chan) = IF taken THEN n + 1 ELSE n
        /\ DOMAIN chan = 1 .. Len(chan) /\ \A i \in 1 .. n : chan[i] = l.chan[i]
        /\ \A i \in DOMAIN chan : i \in 1 .. n \/ (taken /\ i = n + 1)
  <2>1. cut \in Item
    BY <1>1, UploadAssumption DEF Item, UploadAssumption
  <2>2. l.chan \in Seq(Item)
    BY LoadFields
  <2>3. CASE l.route /\ l.body = "open" /\ Len(l.chan) < DownCap
    <3>1. PICK n \in Nat : n = Len(l.chan) /\ DOMAIN l.chan = 1 .. n
      BY LoadFields
    <3>2. PICK c : c = Append(l.chan, cut)
      OBVIOUS
    <3>3. /\ c \in Seq(Item) /\ c[n + 1] = cut /\ Len(c) = n + 1 /\ DOMAIN c = 1 .. n + 1
          /\ \A i \in 1 .. n : c[i] = l.chan[i]
      BY <2>1, <2>2, <3>1, <3>2, AppendFacts
    <3>4. \A i \in DOMAIN c : i \in 1 .. n \/ i = n + 1
      BY <3>1, <3>3
    <3> QED  BY <2>3, <3>1, <3>2, <3>3, <3>4
  <2>4. CASE ~(l.route /\ l.body = "open" /\ Len(l.chan) < DownCap)
    BY <2>2, <2>4, LoadFields
  <2> QED  BY <2>3, <2>4
<1>3. m = [l EXCEPT !.route = FALSE, !.reader = IF l.reader = "none" THEN "none" ELSE "over", !.chan = chan]
  BY <1>1, <1>2 DEF Down!Cut
<1>4. /\ m.size = l.size /\ m.got = l.got /\ m.read = l.read /\ m.peek = l.peek /\ m.body = l.body
      /\ m.eof = l.eof /\ m.dropped = l.dropped /\ m.route = FALSE /\ m.chan = chan
      /\ m.reader = IF l.reader = "none" THEN "none" ELSE "over"
  BY <1>3 DEF Down!Load
<1>5. m \in Down!Load
  BY <1>3 DEF Down!Load, Item
<1>6. DOMAIN <<>> = {} /\ \A i : ~For(i, d, <<>>)
  BY DEF For
<1>7. ReaderInv(d, m, <<>>)
  <2>1. l.body = "none" => m = Down!NoLoad
    <3> SUFFICES ASSUME l.body = "none" PROVE m = Down!NoLoad
      OBVIOUS
    <3>1. l = Down!NoLoad
      BY DEF DInv, ReaderInv
    <3>2. l.route = FALSE /\ l.reader = "none" /\ l.chan = <<>>
      BY <3>1 DEF Down!NoLoad
    <3>3. chan = l.chan
      BY <1>2, <3>2
    <3> QED  BY <1>3, <3>1, <3>2, <3>3 DEF Down!NoLoad
  <2>2. l.body = "none" => Down!NoLoad.chan = <<>> /\ Down!NoLoad.got = <<>>
    BY DEF Down!NoLoad
  <2> QED  BY <1>4, <1>6, <2>1, <2>2 DEF DInv, ReaderInv
<1>8. RouteInv(d, m, <<>>) /\ LastFrame(d, m, <<>>)
  BY <1>4, <1>6 DEF RouteInv, LastFrame
<1>9. cut.chunk = 0 /\ cut.eof /\ cut.error
  BY <1>1
<1>10. LastItem(m)
  <2>1. \A i \in 1 .. n :
          /\ ~l.chan[i].eof => l.chan[i].chunk # 0 /\ ~l.chan[i].error
          /\ l.chan[i].eof => ~l.route /\ l.reader = "over" /\ i = n
          /\ l.chan[i].eof /\ ~l.chan[i].error => l.chan[i].chunk = l.size
    BY <1>2 DEF DInv, LastItem
  <2>2. taken => l.reader # "none"
    BY <1>2 DEF DInv, ReaderInv
  <2>3. ~taken => Len(chan) = n
    BY <1>2
  <2> SUFFICES ASSUME NEW i \in DOMAIN chan
               PROVE  /\ ~chan[i].eof => chan[i].chunk # 0 /\ ~chan[i].error
                      /\ chan[i].eof => m.reader = "over" /\ i = Len(chan)
                      /\ chan[i].eof /\ ~chan[i].error => chan[i].chunk = l.size
    BY <1>4 DEF LastItem
  <2>4. CASE i \in 1 .. n
    BY <2>1, <2>3, <2>4, <1>2, <1>4
  <2>5. CASE taken /\ i = n + 1
    BY <2>2, <2>5, <1>2, <1>4, <1>9
  <2> QED  BY <2>4, <2>5, <1>2
<1>11. RisingGot(m) /\ GaplessGot(m) /\ RisingFrames(d, m, <<>>) /\ GaplessFrames(d, m, <<>>)
  BY <1>4, <1>6 DEF DInv, RisingGot, GaplessGot, RisingFrames, GaplessFrames
<1>12. RisingRead(d, m, <<>>) /\ GaplessRead(d, m, <<>>)
  BY <1>4 DEF RisingRead, GaplessRead
<1>13. RisingChan(m)
  <2> SUFFICES ASSUME NEW j \in DOMAIN chan, chan[j].chunk # 0
               PROVE  /\ chan[j].chunk <= l.size
                      /\ \A i \in DOMAIN l.got : l.got[i] < chan[j].chunk
                      /\ \A i \in DOMAIN chan : i < j => chan[i].chunk < chan[j].chunk
    BY <1>4 DEF RisingChan
  <2>1. j \in 1 .. n
    BY <1>2, <1>9
  <2>2. \A i \in DOMAIN chan : i < j => i \in 1 .. n
    BY <2>1, <1>2
  <2> QED  BY <2>1, <2>2, <1>2 DEF DInv, RisingChan
<1>14. GaplessChan(m)
  <2> SUFFICES ASSUME l.body = "open", ~l.dropped, NEW i \in DOMAIN chan, chan[i].chunk # 0
               PROVE  chan[i].chunk = Len(l.got) + i
    BY <1>4 DEF DInv, GaplessChan
  <2>1. i \in 1 .. n
    BY <1>2, <1>9
  <2> QED  BY <2>1, <1>2 DEF DInv, GaplessChan
<1> QED  BY <1>5, <1>7, <1>8, <1>10, <1>11, <1>12, <1>13, <1>14 DEF DInv

-----------------------------------------------------------------------------
(* Downloads: together                                                      *)

\* A step of one download d, which becomes m, leaves the others alone.
LEMMA OneDownload ==
  ASSUME DownloadInv, NEW d \in Downloads, NEW m \in Down!Load, NEW s \in Seq(Reply),
         DInv(d, m, s), Replies(d, reply, s),
         load' = [load EXCEPT ![d] = m], reply' = s
  PROVE  DownloadInv'
<1>1. load' \in [Downloads -> Down!Load] /\ load'[d] = m /\ \A v \in Downloads \ {d} : load'[v] = load[v]
  BY DEF DownloadInv, LoadType
<1>2. ASSUME NEW v \in Downloads PROVE DInv(v, load'[v], reply')
  <2>1. CASE v = d
    BY <2>1, <1>1
  <2>2. CASE v # d
    <3>1. load[v] \in Down!Load /\ reply \in Seq(Reply) /\ DInv(v, load[v], reply)
      BY DEF DownloadInv, LoadType
    <3>2. DInv(v, load[v], s)
      BY <2>2, <3>1, ElsewhereDown
    <3> QED  BY <2>2, <3>2, <1>1
  <2> QED  BY <2>1, <2>2
<1> QED  BY <1>1, <1>2 DEF DownloadInv, LoadType

\* The steps of a reader.
LEMMA ReaderStep ==
  ASSUME DownloadInv, NEW d \in Downloads, Down!Reader(d)
  PROVE  DownloadInv'
<1> DEFINE l == load[d]
<1>1. l \in Down!Load /\ reply \in Seq(Reply) /\ DInv(d, l, reply)
  BY DEF DownloadInv, LoadType
<1>2. CASE Down!MakeArchive(d)
  <2>1. PICK n \in 1 .. MaxSize : load' = [load EXCEPT ![d].size = n, ![d].reader = "reading"]
    BY <1>2 DEF Down!MakeArchive
  <2>2. PICK m : m = [l EXCEPT !.size = n, !.reader = "reading"]
    OBVIOUS
  <2>3. m \in Down!Load /\ DInv(d, m, reply)
    BY <1>1, <1>2, <2>2, ArchiveStep DEF Down!MakeArchive
  <2>4. load' = [load EXCEPT ![d] = m] /\ reply' = reply
    BY <1>2, <2>1, <2>2 DEF Down!MakeArchive, DownloadInv, LoadType
  <2> QED  BY <1>1, <2>3, <2>4, OneDownload DEF Replies
<1>3. CASE Down!ReadChunk(d)
  <2>1. PICK m : m = [l EXCEPT !.read = @ + 1, !.peek = TRUE]
    OBVIOUS
  <2>2. /\ load' = [load EXCEPT ![d] = m] /\ l.reader = "reading" /\ l.read < l.size
        /\ reply' = IF l.peek THEN Append(reply, Down!Chunk(d, l.read, FALSE, FALSE)) ELSE reply
    BY <1>3, <2>1 DEF Down!ReadChunk, DownloadInv, LoadType
  <2>3. CASE ~l.peek
    <3>1. m \in Down!Load /\ DInv(d, m, reply)
      BY <1>1, <2>1, <2>2, <2>3, FirstChunk
    <3> QED  BY <1>1, <2>2, <2>3, <3>1, OneDownload DEF Replies
  <2>4. CASE l.peek
    <3>1. PICK x \in Reply : x = Down!Chunk(d, l.read, FALSE, FALSE)
      BY <1>1, LoadFields DEF Down!Chunk, Reply
    <3>2. x.id = d /\ x.chunk = l.read /\ ~x.eof /\ ~x.error
      BY <3>1 DEF Down!Chunk
    <3>3. l.read # 0
      BY <1>1, <2>4 DEF DInv, ReaderInv
    <3>4. m \in Down!Load /\ Append(reply, x) \in Seq(Reply) /\ DInv(d, m, Append(reply, x))
      <4>1. PICK s : s = Append(reply, x)
        OBVIOUS
      <4>2. m \in Down!Load /\ s \in Seq(Reply) /\ DInv(d, m, s)
        <5>1. Sends(l, m, x)
          BY <2>1, <2>2, <3>2, <3>3 DEF Sends
        <5>2. l.reader \in {"zipping", "reading"} /\ x \in Reply /\ x.id = d
          BY <2>2, <3>1, <3>2
        <5> HIDE DEF l
        <5> QED  BY <1>1, <4>1, <5>1, <5>2, SendChunk
      <4> QED  BY <4>1, <4>2
    <3> QED  BY <1>1, <2>2, <2>4, <3>1, <3>2, <3>4, OneDownload DEF Replies
  <2> QED  BY <2>3, <2>4
<1>4. CASE Down!ReadEnd(d) \/ Down!ReadFails(d)
  <2>1. PICK m : m = [l EXCEPT !.reader = "over"]
    OBVIOUS
  <2>2. l.reader \in {"zipping", "reading"} /\ load' = [load EXCEPT ![d] = m]
    BY <1>4, <2>1 DEF Down!ReadEnd, Down!ReadFails, DownloadInv, LoadType
  <2>3. PICK x \in Reply : /\ reply' = Append(reply, x) /\ x.id = d /\ x.eof /\ x.chunk \in {0, l.read}
                           /\ x.chunk # 0 => l.reader = "reading"
                           /\ ~x.error => x.chunk = l.size
    <3>1. CASE Down!ReadEnd(d)
      <4>1. PICK t : t = Down!Tail0(l)
        OBVIOUS
      <4>2. t \in {0, l.read} /\ t = l.size /\ l.reader = "reading"
        BY <1>1, <3>1, <4>1, LoadFields DEF DInv, ReaderInv, Down!Tail0, Down!ReadEnd
      <4>3. PICK x : x = Down!Chunk(d, t, TRUE, FALSE)
        OBVIOUS
      <4>4. x \in Reply /\ x.id = d /\ x.eof /\ x.chunk = t
        BY <1>1, <4>2, <4>3, LoadFields DEF Down!Chunk, Reply
      <4> QED  BY <3>1, <4>1, <4>2, <4>3, <4>4 DEF Down!ReadEnd
    <3>2. CASE Down!ReadFails(d)
      <4>1. PICK x : x = Down!Chunk(d, 0, TRUE, TRUE)
        OBVIOUS
      <4>2. x \in Reply /\ x.id = d /\ x.eof /\ x.chunk = 0 /\ x.error
        BY <4>1, UploadAssumption DEF Down!Chunk, Reply, UploadAssumption
      <4> QED  BY <3>2, <4>1, <4>2 DEF Down!ReadFails
    <3> QED  BY <1>4, <3>1, <3>2
  <2>4. m \in Down!Load /\ Append(reply, x) \in Seq(Reply) /\ DInv(d, m, Append(reply, x))
    <3>1. PICK s : s = Append(reply, x)
      OBVIOUS
    <3>2. m \in Down!Load /\ s \in Seq(Reply) /\ DInv(d, m, s)
      <4>1. Sends(l, m, x)
        BY <2>1, <2>3 DEF Sends
      <4>2. l.reader \in {"zipping", "reading"} /\ x.id = d
        BY <2>2, <2>3
      <4> HIDE DEF l
      <4> QED  BY <1>1, <3>1, <4>1, <4>2, SendChunk
    <3> QED  BY <3>1, <3>2
  <2> QED  BY <2>2, <2>3, <2>4, OneDownload DEF Replies
<1> QED  BY <1>2, <1>3, <1>4 DEF Down!Reader

\* The steps of a request and of the body.
LEMMA BodyStep ==
  ASSUME DownloadInv, NEW d \in Downloads,
         Down!StartLoad(d) \/ Down!StartArchive(d) \/ Down!Body(d) \/ Down!HangUp(d)
  PROVE  DownloadInv'
<1> DEFINE l == load[d]
<1>1. l \in Down!Load /\ reply \in Seq(Reply) /\ DInv(d, l, reply) /\ load \in [Downloads -> Down!Load]
  BY DEF DownloadInv, LoadType
<1>2. SUFFICES \E m \in Down!Load : DInv(d, m, reply) /\ load' = [load EXCEPT ![d] = m]
  <2>1. reply' = reply
    BY DEF Down!StartLoad, Down!StartArchive, Down!Body, Down!BodyTakes, Down!BodyEnds, Down!HangUp
  <2> QED  BY <1>1, <2>1, OneDownload DEF Replies
<1>3. CASE Down!StartLoad(d)
  <2>1. PICK n \in 0 .. MaxSize : load' = [load EXCEPT ![d] = Down!Requested(n, "reading")]
    BY <1>3 DEF Down!StartLoad
  <2>2. l.body = "none"
    BY <1>3 DEF Down!StartLoad
  <2> QED  BY <1>1, <2>1, <2>2, RequestStep
<1>4. CASE Down!StartArchive(d)
  <2>1. load' = [load EXCEPT ![d] = Down!Requested(0, "zipping")] /\ l.body = "none" /\ 0 \in 0 .. MaxSize
    BY <1>4, UploadAssumption DEF Down!StartArchive, UploadAssumption
  <2> QED  BY <1>1, <2>1, RequestStep
<1>5. CASE Down!BodyTakes(d)
  <2>1. PICK more : more = [l EXCEPT !.chan = Tail(@), !.got = IF Head(l.chan).chunk = 0 THEN @ ELSE Append(@, Head(l.chan).chunk)]
    OBVIOUS
  <2>2. /\ l.body = "open" /\ l.chan # <<>>
        /\ load' = [load EXCEPT ![d] = IF Head(l.chan).error THEN Down!Ended(l, FALSE)
                                       ELSE IF Head(l.chan).eof THEN Down!Ended(more, TRUE) ELSE more]
    BY <1>5, <2>1 DEF Down!BodyTakes
  <2>3. CASE Head(l.chan).error
    <3>1. Down!Ended(l, FALSE) \in Down!Load /\ DInv(d, Down!Ended(l, FALSE), reply)
      BY <1>1, <2>2, EndedStep
    <3> QED  BY <2>2, <2>3, <3>1
  <2>4. CASE ~Head(l.chan).error
    <3>1. PICK m : m = IF Head(l.chan).eof THEN Down!Ended(more, TRUE) ELSE more
      OBVIOUS
    <3>2. m \in Down!Load /\ DInv(d, m, reply)
      BY <1>1, <2>1, <2>2, <2>4, <3>1, TakesStep
    <3> QED  BY <2>2, <2>4, <3>1, <3>2
  <2> QED  BY <2>3, <2>4
<1>6. CASE Down!BodyEnds(d)
  <2>1. load' = [load EXCEPT ![d] = Down!Ended(l, FALSE)] /\ l.body = "open"
    BY <1>6 DEF Down!BodyEnds
  <2>2. Down!Ended(l, FALSE) \in Down!Load /\ DInv(d, Down!Ended(l, FALSE), reply)
    BY <1>1, <2>1, EndedStep
  <2> QED  BY <2>1, <2>2
<1>7. CASE Down!HangUp(d)
  <2>1. PICK m : m = [l EXCEPT !.body = "hungup", !.chan = <<>>]
    OBVIOUS
  <2>2. load' = [load EXCEPT ![d] = m] /\ l.body = "open"
    BY <1>1, <1>7, <2>1 DEF Down!HangUp
  <2>3. m \in Down!Load /\ DInv(d, m, reply)
    BY <1>1, <2>1, <2>2, EndedStep
  <2> QED  BY <2>2, <2>3
<1> QED  BY <1>3, <1>4, <1>5, <1>6, <1>7 DEF Down!Body

\* Every step keeps the invariant of the downloads.
LEMMA DownloadStep ==
  ASSUME DownloadInv, [Down!Next]_(Down!vars)
  PROVE  DownloadInv'
<1>1. reply \in Seq(Reply) /\ load \in [Downloads -> Down!Load]
  BY DEF DownloadInv, LoadType
<1>2. CASE reply' = reply /\ load' = load
  BY <1>2 DEF DownloadInv, LoadType
<1>3. CASE Down!HubReceives
  <2>1. PICK d \in Downloads : d = reply[1].id /\ reply # <<>> /\ Head(reply) = reply[1]
    <3>1. reply # <<>>
      BY <1>3 DEF Down!HubReceives
    <3>2. reply[1] \in Reply /\ Head(reply) = reply[1]
      BY <1>1, <3>1, TailFacts
    <3> QED  BY <3>1, <3>2 DEF Reply
  <2>2. PICK m : m = Down!Routed(load[d], reply[1])
    OBVIOUS
  <2>3. load' = [load EXCEPT ![d] = m] /\ reply' = Tail(reply)
    BY <1>1, <1>3, <2>1, <2>2 DEF Down!HubReceives
  <2>4. load[d] \in Down!Load /\ DInv(d, load[d], reply)
    BY DEF DownloadInv, LoadType
  <2>5. PICK taken \in BOOLEAN : Took(d, load[d], reply, m, Tail(reply), reply[1], taken)
    BY <1>1, <2>1, <2>2, <2>4, DownloadAssumption, RoutedFacts
  <2>6. m \in Down!Load /\ Tail(reply) \in Seq(Reply)
    BY <1>1, <2>1, <2>2, <2>4, DownloadAssumption, RoutedFacts
  <2>7. DInv(d, m, Tail(reply))
    BY <1>1, <2>4, <2>5, <2>6, RoutedStep
  <2> QED  BY <2>1, <2>3, <2>6, <2>7, OneDownload DEF Replies
<1>4. CASE Down!LinkBreaks
  <2>1. reply' = <<>> /\ load' = [d \in Downloads |-> Down!Cut(load[d])]
    BY <1>4 DEF Down!LinkBreaks
  <2>2. ASSUME NEW d \in Downloads PROVE load'[d] \in Down!Load /\ DInv(d, load'[d], <<>>)
    BY <1>1, <2>1, CutStep DEF DownloadInv
  <2>3. reply' \in Seq(Reply) /\ load' \in [Downloads -> Down!Load]
    BY <2>1, <2>2
  <2> QED  BY <2>1, <2>2, <2>3 DEF DownloadInv, LoadType
<1>5. CASE Down!Transfer /\ ~Down!HubReceives
  BY <1>5, ReaderStep, BodyStep DEF Down!Transfer
<1>6. CASE Down!Reconnect
  BY <1>2, <1>6 DEF Down!Reconnect
<1> QED  BY <1>2, <1>3, <1>4, <1>5, <1>6 DEF Down!Next, Down!vars

\* What the proofs about downloads rest on: what is on the wire, queued and in
\* the body of a download are chunks of its file in rising order, and its reader,
\* route and body end in the order fs.rs, registry.rs and app/api.rs end them.
THEOREM DownloadsCorrect == TransferSpec => []DownloadInv
<1>1. TransferInit => DownloadInv
  <2> SUFFICES ASSUME TransferInit PROVE DownloadInv
    OBVIOUS
  <2>1. reply = <<>> /\ load = [d \in Downloads |-> Down!NoLoad]
    BY DEF TransferInit, Down!Init
  <2>2. Down!NoLoad \in Down!Load
    BY UploadAssumption DEF Down!NoLoad, Down!Load, UploadAssumption
  <2>3. ASSUME NEW d \in Downloads PROVE DInv(d, Down!NoLoad, <<>>)
    <3>1. PICK m : m = Down!NoLoad
      OBVIOUS
    <3>2. /\ m.size = 0 /\ m.reader = "none" /\ m.read = 0 /\ m.peek = FALSE /\ m.route = FALSE
          /\ m.chan = <<>> /\ m.body = "none" /\ m.eof = FALSE /\ m.got = <<>> /\ m.dropped = FALSE
      BY <3>1 DEF Down!NoLoad
    <3>3. \A i : ~For(i, d, <<>>)
      BY DEF For
    <3>4. ReaderInv(d, m, <<>>) /\ RouteInv(d, m, <<>>) /\ LastFrame(d, m, <<>>) /\ LastItem(m)
      BY <3>1, <3>2, <3>3 DEF ReaderInv, RouteInv, LastFrame, LastItem
    <3>5. RisingGot(m) /\ RisingChan(m) /\ RisingFrames(d, m, <<>>) /\ RisingRead(d, m, <<>>)
      BY <3>2, <3>3 DEF RisingGot, RisingChan, RisingFrames, RisingRead
    <3>6. GaplessGot(m) /\ GaplessChan(m) /\ GaplessFrames(d, m, <<>>) /\ GaplessRead(d, m, <<>>)
      BY <3>2, <3>3 DEF GaplessGot, GaplessChan, GaplessFrames, GaplessRead
    <3> QED  BY <3>1, <3>4, <3>5, <3>6 DEF DInv
  <2> QED  BY <2>1, <2>2, <2>3 DEF DownloadInv, LoadType
<1>2. DownloadInv /\ [TransferNext]_<<vars, downloadVars>> => DownloadInv'
  BY TransferSplit, DownloadStep
<1> QED  BY <1>1, <1>2, PTL DEF TransferSpec

\* Whatever is dropped, a body never repeats or reorders; one that lost no
\* chunk is a prefix of the file, the whole file when the eof ended it.
THEOREM BodiesAreFaithful == TransferSpec => []BodyFaithful
<1>1. DownloadInv => BodyFaithful
  <2> SUFFICES ASSUME DownloadInv, NEW d \in Downloads
               PROVE  /\ \A i, j \in DOMAIN load[d].got : i < j => load[d].got[i] < load[d].got[j]
                      /\ ~load[d].dropped => \A i \in DOMAIN load[d].got : load[d].got[i] = i
                      /\ ~load[d].dropped /\ load[d].eof => Len(load[d].got) = load[d].size
    BY DEF BodyFaithful, Down!BodyFaithful
  <2> QED  BY DEF DownloadInv, DInv, RisingGot, GaplessGot
<1> QED  BY <1>1, DownloadsCorrect, PTL

\* Nothing of a transfer that is over stays open: a file on the agent is about
\* to be closed unless its request handler was dropped or its connection lost,
\* and a routing entry of the hub is about to go.
THEOREM NothingStaysOpen == TransferSpec => []NothingLeftOpen
<1>1. UploadInv => SessionsClosed
  BY DEF UploadInv, UInv, ClosedInv, SessionsClosed, Live, Of
<1>2. DownloadInv => Down!RoutesHeld
  BY DEF DownloadInv, DInv, RouteInv, Down!RoutesHeld, For
<1> QED  BY <1>1, <1>2, UploadsCorrect, DownloadsCorrect, PTL DEF NothingLeftOpen
=============================================================================
