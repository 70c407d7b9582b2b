----------------------------- MODULE Supervisor -----------------------------
(***************************************************************************)
(* One machine that runs the agent, or the hub, as a daemon: the commands  *)
(* of the daemon crate with their pid file, the supervisors they start     *)
(* (supervise.rs), the process each supervisor keeps alive, and the        *)
(* self-updates that process performs (update.rs), with the requests of    *)
(* the admin API that ask for them.                                        *)
(*                                                                         *)
(* A binary is a number: 0 is the one the daemon was started with, the     *)
(* others are releases in the order they are published.  What lies in the  *)
(* directory of a release is abstracted to the two files that matter: the  *)
(* binary in the unpacked tree, and its copy at the top, which the links   *)
(* name.  Delays are left out: a sleep may end at any time.                *)
(***************************************************************************)
EXTENDS Naturals, FiniteSets

CONSTANTS
  Latest,       \* releases 1 .. Latest are published, one after the other
  Fates,        \* bound: what becomes of a release on this machine
  MaxUpdates,   \* bound: requests for an update, numbered as they are made
  Operators,    \* those who run the daemon's commands
  None,
  ROLLBACK_THRESHOLD,
  MaxPid,       \* bound: supervisors started in a behaviour
  MaxAsked,     \* bound: commands and requests together
  MaxFaults     \* bound: crashes, kills and bad downloads

ASSUME SupervisorAssumption ==
  /\ Latest \in Nat \ {0} /\ ROLLBACK_THRESHOLD \in Nat \ {0}
  /\ MaxUpdates \in Nat /\ MaxPid \in Nat
  /\ MaxAsked \in Nat /\ MaxFaults \in Nat
  /\ Fates \subseteq {"works", "crashes", "foreign"}
  /\ None \notin Nat

VARIABLES
  host,      \* which program the machine runs: "agent" or "hub"
  fate,      \* what a release does here: it works, it crashes when it
             \* runs, or it is foreign and cannot be executed
  current,   \* the link `current`: a binary, or None
  previous,  \* the link `previous`
  final,     \* release -> the binary at the top of its directory
  tree,      \* release -> the binary in the unpacked tree
  sup,       \* pid -> supervisor
  pidFile,   \* the daemon's pid file: a pid, or None
  command,   \* operator -> the command being run
  update,    \* request -> where perform_update stands
  waiting,   \* requests the administrator waits for the answer of
  asked, faults, nextPid,
  \* history
  crossed,   \* two commands ran at the same time
  killed,    \* a supervisor ended without ending its child
  reworked   \* releases updated to twice at once, or again while linked or
             \* about to be

links    == <<current, previous>>
files    == <<final, tree>>
requests == <<update, waiting>>
bounds   == <<asked, faults, nextPid>>
history  == <<crossed, killed, reworked>>
vars == <<host, fate, links, files, sup, pidFile, command, requests, bounds,
          history>>

Versions == 1 .. Latest
Binaries == 0 .. Latest
Pids     == 1 .. MaxPid
Updates  == 1 .. MaxUpdates

Contents == {"none", "torn", "good", "other"}
UpdatePlaces == {"none", "fetch", "unpack", "hash", "copy", "copying",
                 "demote", "relink", "flip", "exit", "over"}
CommandPlaces == {"idle", "look", "spawn", "write", "stop", "wait",
                  "current", "previous"}
Fresh == [at |-> "boot", failures |-> 0, rolled |-> FALSE, stop |-> FALSE,
          child |-> None, out |-> "none"]
NoSup == [Fresh EXCEPT !.at = "none"]
Running(u) == update[u].at \notin {"none", "over"}

TypeOK ==
  /\ host \in {"agent", "hub"}
  /\ fate \in [Versions -> Fates]
  /\ {current, previous} \subseteq Binaries \cup {None}
  /\ final \in [Versions -> Contents] /\ tree \in [Versions -> Contents]
  /\ sup \in [Pids ->
       [at : {"none", "boot", "loop", "wait", "failed", "sleep", "dead"},
        failures : 0 .. ROLLBACK_THRESHOLD, rolled : BOOLEAN, stop : BOOLEAN,
        child : Binaries \cup {None}, out : {"none", "ok", "bad"}]]
  /\ \A p \in Pids : sup[p].at \in {"none", "boot"} => sup[p].child = None
  /\ pidFile \in Pids \cup {None}
  /\ command \in [Operators ->
       [at : CommandPlaces, pid : Pids \cup {None}, again : BOOLEAN]]
  /\ \A u \in Updates : update[u].at \in UpdatePlaces
  /\ waiting \subseteq {u \in Updates : Running(u)}
  /\ asked \in 0 .. MaxAsked /\ faults \in 0 .. MaxFaults
  /\ nextPid \in 1 .. MaxPid + 1
  /\ crossed \in BOOLEAN /\ killed \in BOOLEAN /\ reworked \subseteq Versions

Unasked == [at |-> "none", v |-> None, by |-> None,
            bin |-> "none", sums |-> "none", old |-> None]
NoCommand == [at |-> "idle", pid |-> None, again |-> FALSE]

Init ==
  /\ host \in {"agent", "hub"}
  /\ fate \in [Versions -> Fates]
  /\ current = None /\ previous = None
  /\ final = [v \in Versions |-> "none"] /\ tree = final
  /\ sup = [p \in Pids |-> NoSup] /\ pidFile = None
  /\ command = [o \in Operators |-> NoCommand]
  /\ update = [u \in Updates |-> Unasked]
  /\ waiting = {}
  /\ asked = 0 /\ faults = 0 /\ nextPid = 1
  /\ crossed = FALSE /\ killed = FALSE /\ reworked = {}

Fault == faults < MaxFaults /\ faults' = faults + 1
Living(p) == sup[p].at \notin {"none", "dead"}

-----------------------------------------------------------------------------
(* The supervisor's loop                                                   *)

\* The binary the next spawn executes.
Target == IF current = None THEN 0 ELSE current
Complete == {0} \cup {v \in Versions : final[v] \in {"good", "other"}}
Starts(b) == b \in Complete \ {v \in Versions : fate[v] = "foreign"}
Doomed(b) == b \in {v \in Versions : fate[v] = "crashes"}

Set(p, r) == sup' = [sup EXCEPT ![p] = r]
OnlySup == UNCHANGED <<host, fate, links, files, pidFile, command, requests,
                       bounds, history>>
Dead(c) == [NoSup EXCEPT !.at = "dead", !.child = c]
OneMore(r) == [r EXCEPT !.failures =
                 IF @ < ROLLBACK_THRESHOLD THEN @ + 1 ELSE @]

\* The process of supervisor p is gone: its updates stop where they are, and
\* requests that wait for it are told so.
Abandon(p) ==
  /\ update' = [u \in Updates |->
       IF update[u].by = p /\ Running(u)
       THEN [Unasked EXCEPT !.at = "over"] ELSE update[u]]
  /\ waiting' = {u \in waiting : update[u].by # p}

Bootstrap(p) ==
  /\ sup[p].at = "boot"
  /\ current' = IF current = None THEN 0 ELSE current
  /\ Set(p, [sup[p] EXCEPT !.at = "loop"])
  /\ UNCHANGED <<host, fate, previous, files, pidFile, command, requests,
                 bounds, history>>

LeaveLoop(p) ==
  /\ sup[p].at = "loop" /\ sup[p].stop
  /\ Set(p, Dead(None))
  /\ OnlySup

SpawnChild(p) ==
  /\ sup[p].at = "loop" /\ ~sup[p].stop /\ Starts(Target)
  /\ Set(p, [sup[p] EXCEPT !.at = "wait", !.child = Target, !.out = "none"])
  /\ OnlySup

\* A child that cannot be spawned counts as a failure, but this branch does
\* not come to the rollback.
SpawnFails(p) ==
  /\ sup[p].at = "loop" /\ ~sup[p].stop /\ ~Starts(Target)
  /\ Set(p, [OneMore(sup[p]) EXCEPT !.at = "sleep"])
  /\ OnlySup

\* A half written binary may also be executed, and dies.
SpawnDies(p) ==
  /\ sup[p].at = "loop" /\ ~sup[p].stop
  /\ Target # 0 /\ final[Target] = "torn"
  /\ Set(p, [OneMore(sup[p]) EXCEPT !.at = "failed"])
  /\ OnlySup

Crash(p) ==
  /\ sup[p].child # None
  /\ Set(p, [sup[p] EXCEPT !.child = None, !.out = "bad"])
  /\ Abandon(p)
  /\ UNCHANGED <<host, fate, links, files, pidFile, command, asked, nextPid,
                 history>>

BadChildCrashes(p) ==
  Doomed(sup[p].child) /\ Crash(p) /\ UNCHANGED faults
ChildCrashes(p) == Fault /\ Crash(p)

\* wait_with_shutdown returns, with the flag or with an exit; after the flag
\* the child gets SIGTERM, which neither program handles.
Terminate(p) ==
  /\ sup[p].at = "wait" /\ sup[p].stop
  /\ Set(p, Dead(None)) /\ Abandon(p)
  /\ UNCHANGED <<host, fate, links, files, pidFile, command, bounds,
                 history>>

ReapRestart(p) ==
  /\ sup[p].at = "wait" /\ sup[p].child = None /\ sup[p].out = "ok"
  /\ ~sup[p].stop
  /\ Set(p, [sup[p] EXCEPT !.at = "loop", !.failures = 0])
  /\ OnlySup

ReapFailure(p) ==
  /\ sup[p].at = "wait" /\ sup[p].child = None /\ sup[p].out = "bad"
  /\ ~sup[p].stop
  /\ Set(p, [OneMore(sup[p]) EXCEPT !.at = "failed"])
  /\ OnlySup

Due(r) == r.failures >= ROLLBACK_THRESHOLD /\ ~r.rolled

TryRollback(p) ==
  /\ sup[p].at = "failed" /\ Due(sup[p]) /\ previous # None
  /\ current' = previous
  /\ Set(p, [sup[p] EXCEPT !.at = "loop", !.failures = 0, !.rolled = TRUE])
  /\ UNCHANGED <<host, fate, previous, files, pidFile, command, requests,
                 bounds, history>>

BackOff(p) ==
  /\ sup[p].at = "failed" /\ ~(Due(sup[p]) /\ previous # None)
  /\ Set(p, [sup[p] EXCEPT !.at = "sleep"])
  /\ OnlySup

\* A bug the properties must catch: only the stop flag ends the sleep
WakeWhenStopped(p) ==
  /\ sup[p].at = "sleep" /\ sup[p].stop
  /\ Set(p, [sup[p] EXCEPT !.at = "loop"])
  /\ OnlySup

Wake(p) ==
  /\ sup[p].at = "sleep"
  /\ Set(p, [sup[p] EXCEPT !.at = "loop"])
  /\ OnlySup

\* The supervisor is killed outright and leaves its child behind.
SupervisorDies(p) ==
  /\ Living(p) /\ Fault
  /\ Set(p, Dead(sup[p].child))
  /\ killed' = (killed \/ sup[p].child # None)
  /\ UNCHANGED <<host, fate, links, files, pidFile, command, requests,
                 asked, nextPid, crossed, reworked>>

-----------------------------------------------------------------------------
(* The commands of the daemon                                              *)

Run(o, c) == command' = [command EXCEPT ![o] = c]
At(o, place) == command[o].at = place
Unaffected == UNCHANGED <<host, fate, files, reworked>>

Begin(o, place, again) ==
  /\ At(o, "idle") /\ asked < MaxAsked
  /\ asked' = asked + 1
  /\ Run(o, [at |-> place, pid |-> None, again |-> again])
  /\ crossed' = (crossed \/ \E q \in Operators \ {o} : ~At(q, "idle"))
  /\ UNCHANGED <<links, sup, pidFile, requests, faults, nextPid, killed>>
  /\ Unaffected

Start(o)   == Begin(o, "look", FALSE)
Stop(o)    == Begin(o, "stop", FALSE)
Restart(o) == Begin(o, "stop", TRUE)

\* The subcommand `reset-binary`, which only the agent has.
Reset(o) == host = "agent" /\ Begin(o, "current", FALSE)

StartLooks(o) ==
  /\ At(o, "look")
  /\ IF pidFile # None /\ Living(pidFile)
     THEN Run(o, NoCommand)
     ELSE Run(o, [command[o] EXCEPT !.at = "spawn"])
  /\ UNCHANGED <<links, sup, pidFile, requests, bounds, crossed, killed>>
  /\ Unaffected

StartSpawns(o) ==
  /\ At(o, "spawn") /\ nextPid <= MaxPid
  /\ pidFile' = None   \* removed when it was found stale
  /\ Set(nextPid, Fresh)
  /\ nextPid' = nextPid + 1
  /\ Run(o, [command[o] EXCEPT !.at = "write", !.pid = nextPid])
  /\ UNCHANGED <<links, requests, asked, faults, crossed, killed>>
  /\ Unaffected

\* The pid is written; a supervisor that is gone a moment later has its pid
\* file removed again.
StartWrites(o) ==
  /\ At(o, "write")
  /\ pidFile' = IF Living(command[o].pid) THEN command[o].pid ELSE None
  /\ Run(o, NoCommand)
  /\ UNCHANGED <<links, sup, requests, bounds, crossed, killed>>
  /\ Unaffected

\* Before the handlers are installed SIGTERM ends the supervisor at once.
Signalled(r) == IF r.at = "boot" THEN Dead(None) ELSE [r EXCEPT !.stop = TRUE]

Stopped(o) == IF command[o].again
              THEN [at |-> "look", pid |-> None, again |-> FALSE]
              ELSE NoCommand

StopLooks(o) ==
  /\ At(o, "stop")
  /\ IF pidFile # None /\ Living(pidFile)
     THEN /\ Set(pidFile, Signalled(sup[pidFile]))
          /\ Run(o, [command[o] EXCEPT !.at = "wait", !.pid = pidFile])
          /\ UNCHANGED pidFile
     ELSE /\ pidFile' = None /\ Run(o, Stopped(o))
          /\ UNCHANGED sup
  /\ UNCHANGED <<links, requests, bounds, crossed, killed>>
  /\ Unaffected

\* A bug the properties must catch: the pid file goes before the process does.
StopAtOnce(o) ==
  /\ At(o, "wait")
  /\ pidFile' = None /\ Run(o, Stopped(o))
  /\ UNCHANGED <<links, sup, requests, bounds, crossed, killed>>
  /\ Unaffected
StopEnds(o) ==
  /\ At(o, "wait") /\ ~Living(command[o].pid)
  /\ pidFile' = None /\ Run(o, Stopped(o))
  /\ UNCHANGED <<links, sup, requests, bounds, crossed, killed>>
  /\ Unaffected

\* After five seconds the supervisor is killed, with or without its child.
StopKills(o) ==
  /\ At(o, "wait") /\ Living(command[o].pid) /\ Fault
  /\ LET r == sup[command[o].pid] IN
       /\ Set(command[o].pid, Dead(r.child))
       /\ killed' = (killed \/ r.child # None)
  /\ pidFile' = None /\ Run(o, Stopped(o))
  /\ UNCHANGED <<links, requests, asked, nextPid, crossed>>
  /\ Unaffected

ResetCurrent(o) ==
  /\ At(o, "current")
  /\ current' = None /\ Run(o, [command[o] EXCEPT !.at = "previous"])
  /\ UNCHANGED <<previous, sup, pidFile, requests, bounds, crossed, killed>>
  /\ Unaffected

ResetPrevious(o) ==
  /\ At(o, "previous")
  /\ previous' = None /\ Run(o, NoCommand)
  /\ UNCHANGED <<current, sup, pidFile, requests, bounds, crossed, killed>>
  /\ Unaffected

-----------------------------------------------------------------------------
(* Releases, and the requests of the admin API                             *)

\* The newest release in the list get_fresh returns.  The list may be of any
\* age: it is kept for ten minutes, served for longer when a fetch fails, and
\* replaced by whichever fetch ends last.
Listed == Versions

\* What is linked, or is about to be by an update that has read `current`.
Linked == {current, previous}
            \cup {update[u].old : u \in {w \in Updates : update[w].at = "relink"}}

BeginUpdate(u, v, p) ==
  /\ asked < MaxAsked /\ asked' = asked + 1
  /\ update[u] = Unasked /\ \A w \in 1 .. u - 1 : update[w] # Unasked
  /\ sup[p].child # None
  /\ update' = [update EXCEPT ![u] =
       [Unasked EXCEPT !.at = "fetch", !.v = v, !.by = p]]
  /\ waiting' = waiting \cup {u}
  /\ reworked' = reworked \cup
       IF v \in Linked
          \/ \E w \in Updates \ {u} : Running(w) /\ update[w].v = v
       THEN {v} ELSE {}
  /\ UNCHANGED <<host, fate, links, files, sup, pidFile, command, faults,
                 nextPid, crossed, killed>>

\* Any listed release, on the agent that is connected.
AgentUpdate(u, p) ==
  /\ host = "agent"
  /\ \E l \in Listed : \E v \in 1 .. l : BeginUpdate(u, v, p)

\* The newest listed release, unless it is the one that runs.
HubUpdate(u, p) ==
  /\ host = "hub"
  /\ \E l \in Listed : l # sup[p].child /\ BeginUpdate(u, l, p)

UpdateTimesOut(u) ==
  /\ host = "agent" /\ u \in waiting
  /\ waiting' = waiting \ {u}
  /\ UNCHANGED <<host, fate, links, files, sup, pidFile, command, update,
                 bounds, history>>

-----------------------------------------------------------------------------
(* perform_update                                                          *)

Steady == UNCHANGED <<host, fate, sup, pidFile, command, asked, nextPid,
                      history>>
Go(u, place) == update' = [update EXCEPT ![u].at = place]

Fail(u) ==
  /\ update' = [update EXCEPT ![u] = [Unasked EXCEPT !.at = "over"]]
  /\ waiting' = waiting \ {u}

Put(f, v, c) == [f EXCEPT ![v] = c]

\* The tarball and the manifest, which need not belong together; unpacking
\* begins.
Download(u) ==
  /\ update[u].at = "fetch"
  /\ \E bin, sums \in {"good", "other"} :
       /\ IF bin = "good" /\ sums = "good" THEN UNCHANGED faults ELSE Fault
       /\ update' = [update EXCEPT ![u].at = "unpack",
                                   ![u].bin = bin, ![u].sums = sums]
  /\ tree' = Put(tree, update[u].v, "torn")
  /\ Steady /\ UNCHANGED <<links, final, waiting>>

DownloadFails(u) ==
  /\ update[u].at = "fetch" /\ Fault /\ Fail(u)
  /\ Steady /\ UNCHANGED <<links, files>>

Extract(u) ==
  /\ update[u].at = "unpack"
  /\ tree' = Put(tree, update[u].v, update[u].bin)
  /\ Go(u, "hash")
  /\ Steady /\ UNCHANGED <<links, final, waiting, faults>>

\* find_agent_binary looks at the top of the directory first, where an earlier
\* installation has left its copy.
Found(v) == IF final[v] # "none" THEN final[v] ELSE tree[v]

\* A bug the properties must catch: the hash is compared with the manifest of
\* the tarball that was asked for, not of the binary found.
VerifyDownload(u) ==
  /\ update[u].at = "hash" /\ update[u].bin = update[u].sums
  /\ Go(u, IF final[update[u].v] # "none" THEN "demote" ELSE "copy")
  /\ Steady /\ UNCHANGED <<links, files, waiting, faults>>
Verify(u) ==
  /\ update[u].at = "hash" /\ Found(update[u].v) = update[u].sums
  /\ Go(u, IF final[update[u].v] # "none" THEN "demote" ELSE "copy")
  /\ Steady /\ UNCHANGED <<links, files, waiting, faults>>

\* The whole directory of the release goes, whoever else uses it.
Mismatch(u) ==
  /\ update[u].at = "hash" /\ Found(update[u].v) # update[u].sums
  /\ final' = Put(final, update[u].v, "none")
  /\ tree'  = Put(tree, update[u].v, "none")
  /\ Fail(u)
  /\ Steady /\ UNCHANGED <<links, faults>>

CopyBegins(u) ==
  /\ update[u].at = "copy"
  /\ IF tree[update[u].v] = "none"
     THEN Fail(u) /\ UNCHANGED final
     ELSE /\ final' = Put(final, update[u].v, "torn")
          /\ Go(u, "copying") /\ UNCHANGED waiting
  /\ Steady /\ UNCHANGED <<links, tree, faults>>

CopyEnds(u) ==
  /\ update[u].at = "copying"
  /\ IF final[update[u].v] = "none"   \* removed meanwhile: chmod fails
     THEN Fail(u) /\ UNCHANGED final
     ELSE /\ final' = Put(final, update[u].v, tree[update[u].v])
          /\ Go(u, "demote") /\ UNCHANGED waiting
  /\ Steady /\ UNCHANGED <<links, tree, faults>>

\* update_current_symlink: `previous` is removed, made again, and only then
\* is `current` replaced.
Demote(u) ==
  /\ update[u].at = "demote"
  /\ IF current = None
     THEN Go(u, "flip") /\ UNCHANGED previous
     ELSE /\ update' = [update EXCEPT ![u].at = "relink", ![u].old = current]
          /\ previous' = None
  /\ Steady /\ UNCHANGED <<current, files, waiting, faults>>

Relink(u) ==
  /\ update[u].at = "relink"
  /\ IF previous # None
     THEN Fail(u) /\ UNCHANGED previous
     ELSE /\ previous' = update[u].old
          /\ Go(u, "flip") /\ UNCHANGED waiting
  /\ Steady /\ UNCHANGED <<current, files, faults>>

Flip(u) ==
  /\ update[u].at = "flip"
  /\ current' = update[u].v
  /\ Go(u, "exit")
  /\ Steady /\ UNCHANGED <<previous, files, waiting, faults>>

\* The success is told before the process exits, if it gets through by then.
Acknowledge(u) ==
  /\ update[u].at = "exit" /\ u \in waiting
  /\ waiting' = waiting \ {u}
  /\ Steady /\ UNCHANGED <<links, files, update, faults>>

ExitForUpdate(u) ==
  /\ update[u].at = "exit"
  /\ LET p == update[u].by IN
       /\ Set(p, [sup[p] EXCEPT !.child = None, !.out = "ok"])
       /\ Abandon(p)
  /\ UNCHANGED <<host, fate, links, files, pidFile, command, bounds,
                 history>>

-----------------------------------------------------------------------------
Loop(p) ==
  \/ Bootstrap(p) \/ LeaveLoop(p) \/ SpawnChild(p) \/ SpawnFails(p)
  \/ SpawnDies(p) \/ Terminate(p) \/ ReapRestart(p) \/ ReapFailure(p)
  \/ TryRollback(p) \/ BackOff(p) \/ Wake(p)

Commands(o) ==
  \/ Start(o) \/ Stop(o) \/ Restart(o) \/ Reset(o)
  \/ StartLooks(o) \/ StartSpawns(o) \/ StartWrites(o)
  \/ StopLooks(o) \/ StopEnds(o) \/ StopKills(o)
  \/ ResetCurrent(o) \/ ResetPrevious(o)

PerformUpdate(u) ==
  \/ Download(u) \/ DownloadFails(u) \/ Extract(u) \/ Verify(u) \/ Mismatch(u)
  \/ CopyBegins(u) \/ CopyEnds(u) \/ Demote(u) \/ Relink(u) \/ Flip(u)
  \/ Acknowledge(u) \/ ExitForUpdate(u)

Next ==
  \/ \E p \in Pids : Loop(p) \/ BadChildCrashes(p) \/ ChildCrashes(p)
                    \/ SupervisorDies(p)
  \/ \E o \in Operators : Commands(o)
  \/ \E u \in Updates, p \in Pids : AgentUpdate(u, p) \/ HubUpdate(u, p)
  \/ \E u \in Updates : UpdateTimesOut(u) \/ PerformUpdate(u)

\* A supervisor that lives keeps stepping, and a binary that crashes does.
Fairness ==
  \A p \in Pids :
    WF_vars(Loop(p)) /\ WF_vars(BadChildCrashes(p))

Spec == Init /\ [][Next]_vars /\ Fairness

-----------------------------------------------------------------------------
(* Properties                                                              *)

\* The links name binaries that are whole: no update that failed, was cut off
\* or ran beside another leaves the supervisor without something to start.
\* The exceptions are releases updated to twice at once, or again while they
\* were linked or about to be: update.rs writes, and on a mismatch removes,
\* their directory.
LinkedIntact ==
  \A b \in {current, previous} \ {None} : b \in Complete \cup reworked

\* One supervisor and one process of the service at a time, and the pid file
\* names that supervisor whenever no command is under way.  The exceptions are
\* commands run at the same time, which both find no daemon, and a supervisor
\* killed while its child lives on.
OneDaemon ==
  \/ crossed
  \/ /\ Cardinality({p \in Pids : Living(p)}) <= 1
     /\ (\A o \in Operators : At(o, "idle")) =>
          \A p \in Pids : Living(p) => pidFile = p
     /\ killed \/ Cardinality({p \in Pids : sup[p].child # None}) <= 1

\* A supervisor comes to rest with a child that works.  It need not where the
\* binary it has to start cannot be executed, for then it never rolls back,
\* or crashes when it has rolled back before or has nothing to roll back to.
Rests(p) ==
  \/ ~Living(p)
  \/ sup[p].at = "wait" /\ sup[p].child # None /\ ~Doomed(sup[p].child)
  \/ ~Starts(Target)
  \/ Doomed(Target) /\ (sup[p].rolled \/ previous = None)
BadUpdateUndone == \A p \in Pids : <>[]Rests(p)
=============================================================================
